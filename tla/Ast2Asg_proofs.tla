--------------------------- MODULE Ast2Asg_proofs ---------------------------
(***************************************************************************)
(* What holds of the walk of Ast2Asg over every parse tree, proved with    *)
(* TLAPS: the chain of symbol tables finds what C's block scopes say.      *)
(* First parse trees, then the declarations of a scope, the inductive      *)
(* invariant (the calls in progress are the subtrees around the visit, the *)
(* maps in the chain are the scopes around it) and the theorems.           *)
(***************************************************************************)
EXTENDS Ast2Asg, SequenceTheorems, WellFoundedInduction, TLAPS

(* Parse trees. *)

LEMMA TokensAre ==
  ASSUME NEW file \in Seq(Token)
  PROVE  /\ Len(file) \in Nat /\ DOMAIN file = 1 .. Len(file)
         /\ \A i \in DOMAIN file : file[i].next \in Nat /\ file[i].kind \in STRING
<1>1. Len(file) \in Nat /\ DOMAIN file = 1 .. Len(file) /\ \A i \in DOMAIN file : file[i] \in Token
  OBVIOUS
<1>2. \A t \in Token : t.next \in Nat /\ t.kind \in STRING
  BY DEF Token
<1>. QED
  BY <1>1, <1>2

LEMMA KindsAre ==
  /\ DOMAIN Closes = {"list", "un", "paren", "index", "call", "braces", "dim", "var", "proto",
                      "ptype", "pdecl", "pname", "fdef", "block", "if", "while", "ret", "estmt"}
  /\ Closes["list"] = "endlist" /\ Closes["un"] = "endun" /\ Closes["paren"] = "endparen"
  /\ Closes["index"] = "endindex" /\ Closes["call"] = "endcall" /\ Closes["braces"] = "endbraces"
  /\ Closes["dim"] = "enddim" /\ Closes["var"] = "endvar" /\ Closes["proto"] = "endproto"
  /\ Closes["ptype"] = "endptype" /\ Closes["pdecl"] = "endpdecl" /\ Closes["pname"] = "endpname"
  /\ Closes["fdef"] = "endfdef" /\ Closes["block"] = "endblock" /\ Closes["if"] = "endif"
  /\ Closes["while"] = "endwhile" /\ Closes["ret"] = "endret" /\ Closes["estmt"] = "endestmt"
BY DEF Closes

EndKinds == {"endlist", "endun", "endparen", "endindex", "endcall", "endbraces", "enddim",
             "endvar", "endproto", "endptype", "endpdecl", "endpname", "endfdef", "endblock",
             "endif", "endwhile", "endret", "endestmt"}

LEMMA EndsAre ==
  ASSUME NEW file
  PROVE  Ends(file) = {i \in DOMAIN file : file[i].kind \in EndKinds}
BY KindsAre DEF Ends, EndKinds

\* The token o opens the subtree that token i closes.
Pair(file, o, i) ==
  /\ o \in Opens(file) /\ i \in DOMAIN file
  /\ o < i /\ file[o].next = i + 1
  /\ file[i].kind = Closes[file[o].kind]
  /\ i \in Ends(file)
  /\ o \in Around(file, i) /\ \A p \in Around(file, i) : p <= o

LEMMA OpensAre ==
  ASSUME NEW file \in Seq(Token), ParseTree(file), NEW o \in Opens(file)
  PROVE  /\ o \in Nat /\ o \in DOMAIN file /\ file[o].next \in Nat
         /\ o + 2 <= file[o].next /\ file[o].next <= Len(file) + 1
         /\ file[file[o].next - 1].kind = Closes[file[o].kind]
         /\ file[o].kind \in DOMAIN Closes
         /\ file[o].next - 1 \in Ends(file)
<1>1. /\ Len(file) \in Nat /\ DOMAIN file = 1 .. Len(file)
      /\ \A i \in DOMAIN file : file[i].next \in Nat
  BY TokensAre
<1>2. o \in DOMAIN file /\ file[o].kind \in DOMAIN Closes
  BY DEF Opens
<1>3. /\ file[o].next \in o + 2 .. Len(file) + 1
      /\ file[file[o].next - 1].kind = Closes[file[o].kind]
  BY DEF ParseTree, Nested
<1>4. o + 2 <= file[o].next /\ file[o].next <= Len(file) + 1 /\ o \in Nat /\ o >= 1
  BY <1>1, <1>2, <1>3
<1>5. file[o].next - 1 \in DOMAIN file
  BY <1>1, <1>2, <1>4
<1>6. file[o].next - 1 \in Ends(file)
  BY <1>2, <1>3, <1>5 DEF Ends
<1>. QED
  BY <1>1, <1>2, <1>3, <1>4, <1>6

LEMMA NextIsOwn ==
  ASSUME NEW file \in Seq(Token), ParseTree(file), NEW o \in Opens(file), NEW p \in Opens(file),
         file[o].next = file[p].next
  PROVE  o = p
<1>1. /\ o \in Nat /\ p \in Nat /\ file[o].next \in Nat /\ o < file[o].next /\ p < file[p].next
  BY OpensAre
<1>2. \A x, y \in Opens(file) : x < y /\ y < file[x].next => file[y].next < file[x].next
  BY DEF ParseTree, Nested
<1>. QED
  BY <1>1, <1>2

LEMMA EndsHaveOpens ==
  ASSUME NEW file \in Seq(Token), ParseTree(file), NEW i \in Ends(file)
  PROVE  \E o \in Opens(file) : Pair(file, o, i)
<1>1. PICK o \in Opens(file) : file[o].next = i + 1
  BY DEF ParseTree, Nested
<1>2. i \in DOMAIN file /\ i \in Nat
  BY TokensAre DEF Ends
<1>3. o \in Nat /\ o + 2 <= file[o].next /\ file[file[o].next - 1].kind = Closes[file[o].kind]
  BY OpensAre
<1>4. o < i /\ file[i].kind = Closes[file[o].kind]
  BY <1>1, <1>2, <1>3
<1>5. o \in Around(file, i)
  BY <1>1, <1>2, <1>4 DEF Around
<1>6. ASSUME NEW p \in Around(file, i) PROVE p <= o
  <2>1. p \in Opens(file) /\ p < i /\ i < file[p].next
    BY DEF Around
  <2>2. p \in Nat /\ file[p].next \in Nat
    BY <2>1, OpensAre
  <2>3. o < p /\ p < file[o].next => file[p].next < file[o].next
    BY <2>1 DEF ParseTree, Nested
  <2>. QED
    BY <1>1, <1>2, <1>3, <2>1, <2>2, <2>3
<1>. QED
  BY <1>1, <1>2, <1>4, <1>5, <1>6 DEF Pair

LEMMA OpensAreNotEnds ==
  ASSUME NEW file
  PROVE  Opens(file) \cap Ends(file) = {}
BY KindsAre, EndsAre DEF Opens, EndKinds

(* The subtrees around a token and around the next.                        *)

LEMMA AroundAfterOpen ==
  ASSUME NEW file \in Seq(Token), ParseTree(file), NEW i \in Opens(file)
  PROVE  Around(file, i + 1) = Around(file, i) \cup {i}
<1>1. i \in Nat /\ i + 2 <= file[i].next /\ i \notin Ends(file) /\ file[i].next \in Nat
  BY OpensAre, OpensAreNotEnds
<1>2. ASSUME NEW o \in Opens(file)
      PROVE  o < i + 1 /\ i + 1 < file[o].next <=> (o < i /\ i < file[o].next) \/ o = i
  <2>1. o \in Nat /\ file[o].next \in Nat /\ file[o].next - 1 \in Ends(file)
    BY OpensAre
  <2>2. file[o].next # i + 1
    BY <1>1, <2>1
  <2>. QED
    BY <1>1, <2>1, <2>2
<1>. QED
  BY <1>2 DEF Around

LEMMA AroundAfterEnd ==
  ASSUME NEW file \in Seq(Token), ParseTree(file), NEW o, NEW i, Pair(file, o, i)
  PROVE  Around(file, i + 1) = Around(file, i) \ {o}
<1>1. i \in Nat /\ i \notin Opens(file) /\ o \in Opens(file) /\ file[o].next = i + 1
  BY TokensAre, OpensAreNotEnds DEF Pair
<1>2. ASSUME NEW p \in Opens(file)
      PROVE  p < i + 1 /\ i + 1 < file[p].next <=> (p < i /\ i < file[p].next) /\ p # o
  <2>1. p \in Nat /\ file[p].next \in Nat /\ (file[p].next = i + 1 => p = o) /\ p # i
    BY <1>1, OpensAre, NextIsOwn
  <2>. QED
    BY <1>1, <2>1
<1>. QED
  BY <1>2 DEF Around

LEMMA AroundAfterOther ==
  ASSUME NEW file \in Seq(Token), ParseTree(file), NEW i \in DOMAIN file,
         i \notin Opens(file), i \notin Ends(file)
  PROVE  Around(file, i + 1) = Around(file, i)
<1>1. i \in Nat
  BY TokensAre
<1>2. ASSUME NEW p \in Opens(file)
      PROVE  p < i + 1 /\ i + 1 < file[p].next <=> p < i /\ i < file[p].next
  <2>1. p \in Nat /\ file[p].next \in Nat /\ file[p].next - 1 \in Ends(file) /\ p # i
    BY OpensAre
  <2>2. file[p].next # i + 1
    BY <1>1, <2>1
  <2>. QED
    BY <1>1, <2>1, <2>2
<1>. QED
  BY <1>2 DEF Around

\* From an operator to the end of its list.
LEMMA AroundEndOfList ==
  ASSUME NEW file \in Seq(Token), ParseTree(file), NEW i \in DOMAIN file,
         NEW l \in Around(file, i), \A p \in Around(file, i) : p <= l
  PROVE  Around(file, file[l].next - 1) = Around(file, i)
<1>1. i \in Nat /\ l \in Opens(file) /\ l < i /\ i < file[l].next
  BY TokensAre DEF Around
<1>2. l \in Nat /\ file[l].next \in Nat
  BY <1>1, OpensAre
<1>3. \A x, y \in Opens(file) : x < y /\ y < file[x].next => file[y].next < file[x].next
  BY DEF ParseTree, Nested
<1>4. ASSUME NEW p \in Opens(file)
      PROVE  p < file[l].next - 1 /\ file[l].next - 1 < file[p].next <=> p < i /\ i < file[p].next
  <2>1. p \in Nat /\ file[p].next \in Nat /\ p < file[p].next
    BY OpensAre
  <2>2. CASE p = l
    BY <1>1, <1>2, <2>2
  <2>3. CASE p < l
    <3>1. p < file[l].next - 1 /\ p < i
      BY <1>1, <1>2, <2>1, <2>3
    <3>2. l < file[p].next => file[l].next < file[p].next
      BY <1>1, <1>3, <2>3
    <3>. QED
      BY <1>1, <1>2, <2>1, <2>3, <3>1, <3>2
  <2>4. CASE l < p
    <3>1. ~(p < i /\ i < file[p].next)
      BY <1>2, <2>1, <2>4 DEF Around
    <3>2. p < file[l].next => file[p].next < file[l].next
      BY <1>1, <1>3, <2>4
    <3>. QED
      BY <1>2, <2>1, <3>1, <3>2
  <2>. QED
    BY <1>2, <2>1, <2>2, <2>3, <2>4
<1>. QED
  BY <1>4 DEF Around

-----------------------------------------------------------------------------
(* Scopes. *)

IsScope(file, s) == s \in DOMAIN file /\ file[s].kind \in {"sig", "block"}

\* s is the signature of the function f.
SignatureOf(file, s, f) ==
  /\ s \in Signatures(file)
  /\ f \in Opens(file) /\ file[f].kind = "fdef"
  /\ f < s /\ s < file[f].next /\ file[s].next = file[f].next
  /\ \A p \in Around(file, s) : p <= f

LEMMA SignaturesHaveFunctions ==
  ASSUME NEW file \in Seq(Token), ParseTree(file), NEW s \in Signatures(file)
  PROVE  \E f : SignatureOf(file, s, f)
<1>1. PICK f \in Around(file, s) : file[f].kind = "fdef" /\ \A p \in Around(file, s) : p <= f
  BY DEF ParseTree, SignaturesFit, Parent
<1>2. f \in Opens(file) /\ f < s /\ s < file[f].next
  BY DEF Around
<1>3. f \in Definitions(file)
  BY <1>1, <1>2 DEF Opens, Definitions
<1>4. PICK t \in Signatures(file) : /\ file[t].next = file[f].next
                                    /\ \A u \in Signatures(file) : f < u /\ u < file[f].next => u = t
  BY <1>3 DEF ParseTree, SignaturesFit
<1>. QED
  BY <1>1, <1>2, <1>4 DEF SignatureOf

\* Functions are in nothing else.
LEMMA FunctionsAreOutside ==
  ASSUME NEW file \in Seq(Token), ParseTree(file), NEW f \in Opens(file), file[f].kind = "fdef",
         NEW o \in Opens(file), o < f
  PROVE  file[o].next <= f
<1>1. f \in Definitions(file)
  BY DEF Opens, Definitions
<1>2. Around(file, f) = {}
  BY <1>1 DEF ParseTree, SignaturesFit
<1>3. f \in Nat /\ file[o].next \in Nat
  BY OpensAre
<1>4. ~(f < file[o].next)
  BY <1>2 DEF Around
<1>. QED
  BY <1>3, <1>4

\* A scope ends where the subtree that it belongs to ends, a function or itself.
LEMMA ScopesEnd ==
  ASSUME NEW file \in Seq(Token), ParseTree(file), NEW s, IsScope(file, s)
  PROVE  /\ s \in Nat /\ s > 0 /\ file[s].next \in Nat /\ s + 2 <= file[s].next
         /\ file[s].next - 1 \in DOMAIN file
         /\ file[s].kind = "block" => s \in Opens(file) /\ file[file[s].next - 1].kind = "endblock"
         /\ file[s].kind = "sig" => file[file[s].next - 1].kind = "endfdef"
<1>1. s \in DOMAIN file /\ s \in Nat /\ s > 0 /\ file[s].next \in Nat
  BY TokensAre DEF IsScope
<1>2. CASE file[s].kind = "block"
  <2>1. s \in Opens(file)
    BY <1>1, <1>2, KindsAre DEF Opens
  <2>2. /\ s + 2 <= file[s].next /\ file[s].next - 1 \in Ends(file)
        /\ file[file[s].next - 1].kind = Closes[file[s].kind]
    BY <2>1, OpensAre
  <2>. QED
    BY <1>1, <1>2, <2>1, <2>2, KindsAre DEF Ends
<1>3. CASE file[s].kind = "sig"
  <2>1. s \in Signatures(file)
    BY <1>1, <1>3 DEF Signatures
  <2>2. PICK f : SignatureOf(file, s, f)
    BY <2>1, SignaturesHaveFunctions
  <2>3. /\ f \in Opens(file) /\ file[f].kind = "fdef" /\ s < file[f].next
        /\ file[s].next = file[f].next
    BY <2>2 DEF SignatureOf
  <2>4. /\ file[f].next - 1 \in Ends(file) /\ file[f].next \in Nat
        /\ file[file[f].next - 1].kind = Closes[file[f].kind]
    BY <2>3, OpensAre
  <2>5. file[file[s].next - 1].kind = "endfdef"
    BY <2>3, <2>4, KindsAre
  <2>6. file[s].next # s + 1
    BY <1>1, <1>3, <2>5
  <2>. QED
    BY <1>1, <1>3, <2>3, <2>4, <2>5, <2>6 DEF Ends
<1>. QED
  BY <1>2, <1>3 DEF IsScope

LEMMA ScopesAre ==
  ASSUME NEW file, NEW i
  PROVE  \A s : s \in Scopes(file, i) <=> s = 0 \/ (IsScope(file, s) /\ s < i /\ i < file[s].next)
BY DEF Scopes, IsScope

LEMMA ScopesAfterScope ==
  ASSUME NEW file \in Seq(Token), ParseTree(file), NEW i, IsScope(file, i)
  PROVE  Scopes(file, i + 1) = Scopes(file, i) \cup {i}
<1>1. i \in Nat /\ i + 2 <= file[i].next /\ file[i].next \in Nat /\ file[i].kind \in {"sig", "block"}
  BY ScopesEnd DEF IsScope
<1>2. ASSUME NEW s, IsScope(file, s)
      PROVE  s < i + 1 /\ i + 1 < file[s].next <=> (s < i /\ i < file[s].next) \/ s = i
  <2>1. /\ s \in Nat /\ file[s].next \in Nat
        /\ file[file[s].next - 1].kind \in {"endblock", "endfdef"}
    BY <1>2, ScopesEnd DEF IsScope
  <2>2. file[s].next # i + 1
    BY <1>1, <2>1
  <2>. QED
    BY <1>1, <2>1, <2>2
<1>. QED
  BY <1>2, ScopesAre

LEMMA ScopesAfterOther ==
  ASSUME NEW file \in Seq(Token), ParseTree(file), NEW i \in DOMAIN file,
         file[i].kind \notin {"sig", "block", "endblock", "endfdef"}
  PROVE  Scopes(file, i + 1) = Scopes(file, i)
<1>1. i \in Nat
  BY TokensAre
<1>2. ASSUME NEW s, IsScope(file, s)
      PROVE  s < i + 1 /\ i + 1 < file[s].next <=> s < i /\ i < file[s].next
  <2>1. /\ s \in Nat /\ file[s].next \in Nat /\ s # i
        /\ file[file[s].next - 1].kind \in {"endblock", "endfdef"}
    BY <1>2, ScopesEnd DEF IsScope
  <2>2. file[s].next # i + 1
    BY <1>1, <2>1
  <2>. QED
    BY <1>1, <2>1, <2>2
<1>3. \A s : s \in Scopes(file, i + 1) <=> s \in Scopes(file, i)
  BY <1>2, ScopesAre
<1>. QED
  BY <1>3

\* Nothing else is open at the end of a block than what was open at its start.
LEMMA ScopesAfterBlock ==
  ASSUME NEW file \in Seq(Token), ParseTree(file), NEW o, NEW i, Pair(file, o, i),
         file[i].kind = "endblock"
  PROVE  /\ Scopes(file, i + 1) = Scopes(file, i) \ {o}
         /\ o \in Scopes(file, i) /\ o > 0
         /\ \A s \in Scopes(file, i) : s <= o
<1>1. /\ i \in DOMAIN file /\ i \in Nat /\ o \in Opens(file) /\ o < i /\ file[o].next = i + 1
      /\ \A p \in Around(file, i) : p <= o
  BY TokensAre DEF Pair
<1>2. file[o].kind = "block"
  BY KindsAre DEF Pair, Opens
<1>3. IsScope(file, o) /\ o \in Nat /\ o > 0
  BY <1>1, <1>2, ScopesEnd DEF IsScope, Opens
<1>4. ASSUME NEW s, IsScope(file, s), s # o PROVE file[s].next # i + 1
  <2>1. file[s].kind = "sig" => file[file[s].next - 1].kind = "endfdef"
    BY <1>4, ScopesEnd
  <2>2. file[s].kind = "block" => s \in Opens(file)
    BY <1>4, ScopesEnd
  <2>3. s \in Opens(file) => file[s].next # file[o].next
    BY <1>1, <1>4, NextIsOwn
  <2>. QED
    BY <1>1, <1>4, <2>1, <2>2, <2>3 DEF IsScope
<1>5. ASSUME NEW s, IsScope(file, s), s < i, i < file[s].next PROVE s <= o
  <2>1. CASE file[s].kind = "block"
    <3>1. s \in Opens(file)
      BY <1>5, <2>1, ScopesEnd
    <3>. QED
      BY <1>1, <1>5, <3>1 DEF Around
  <2>2. CASE file[s].kind = "sig"
    <3>1. PICK f : SignatureOf(file, s, f)
      BY <1>5, <2>2, SignaturesHaveFunctions DEF IsScope, Signatures
    <3>2. /\ f \in Opens(file) /\ file[f].kind = "fdef" /\ f < s /\ file[s].next = file[f].next
          /\ \A p \in Around(file, s) : p <= f
      BY <3>1 DEF SignatureOf
    <3>3. s \in Nat /\ f \in Nat
      BY <1>5, <3>2, ScopesEnd, OpensAre
    <3>4. f < i
      BY <1>1, <1>5, <3>2, <3>3
    <3>5. f <= o /\ f # o
      BY <1>1, <1>2, <1>5, <3>2, <3>4 DEF Around
    <3>6. o < s => o \in Around(file, s)
      BY <1>1, <1>5, <3>3 DEF Around
    <3>. QED
      BY <1>3, <3>2, <3>3, <3>5, <3>6
  <2>. QED
    BY <1>5, <2>1, <2>2 DEF IsScope
<1>6. ASSUME NEW s, IsScope(file, s)
      PROVE  s < i + 1 /\ i + 1 < file[s].next <=> (s < i /\ i < file[s].next) /\ s # o
  <2>1. s \in Nat /\ file[s].next \in Nat /\ s + 2 <= file[s].next
    BY <1>6, ScopesEnd
  <2>2. s # i
    BY <1>1, <1>6, OpensAreNotEnds DEF IsScope, Pair
  <2>. QED
    BY <1>1, <1>4, <1>6, <2>1, <2>2
<1>7. o \in Scopes(file, i)
  BY <1>1, <1>3, ScopesAre
<1>8. \A s \in Scopes(file, i) : s <= o
  BY <1>3, <1>5, ScopesAre
<1>. QED
  BY <1>3, <1>6, <1>7, <1>8, ScopesAre

LEMMA ScopesAfterFunction ==
  ASSUME NEW file \in Seq(Token), ParseTree(file), NEW f, NEW i, Pair(file, f, i),
         file[i].kind = "endfdef"
  PROVE  /\ Scopes(file, i + 1) = {0}
         /\ \E s : s > 0 /\ Scopes(file, i) = {0, s}
<1>1. /\ i \in DOMAIN file /\ i \in Nat /\ f \in Opens(file) /\ f < i /\ file[f].next = i + 1
      /\ \A p \in Around(file, i) : p <= f
  BY TokensAre DEF Pair
<1>2. file[f].kind = "fdef" /\ f \in Definitions(file) /\ f \in Nat
  BY KindsAre, OpensAre DEF Pair, Opens, Definitions
<1>3. PICK t \in Signatures(file) : /\ f < t /\ file[t].next = file[f].next
                                    /\ \A u \in Signatures(file) : f < u /\ u < file[f].next => u = t
  BY <1>2 DEF ParseTree, SignaturesFit
<1>4. IsScope(file, t) /\ t \in Nat /\ t > 0 /\ t + 2 <= file[t].next
  BY <1>3, ScopesEnd DEF IsScope, Signatures
<1>5. ASSUME NEW s, IsScope(file, s), s < i, i < file[s].next PROVE s = t
  <2>1. s \in Nat /\ file[s].next \in Nat
    BY <1>5, ScopesEnd
  <2>2. CASE file[s].kind = "block"
    <3>1. s \in Opens(file)
      BY <1>5, <2>2, ScopesEnd
    <3>2. s <= f /\ s # f
      BY <1>1, <1>2, <1>5, <2>2, <3>1 DEF Around
    <3>3. file[s].next <= f
      BY <1>1, <1>2, <2>1, <3>1, <3>2, FunctionsAreOutside
    <3>. QED
      BY <1>1, <1>2, <1>5, <2>1, <3>3
  <2>3. CASE file[s].kind = "sig"
    <3>1. PICK g : SignatureOf(file, s, g)
      BY <1>5, <2>3, SignaturesHaveFunctions DEF IsScope, Signatures
    <3>2. /\ g \in Opens(file) /\ file[g].kind = "fdef" /\ g < s /\ file[s].next = file[g].next
          /\ s < file[g].next /\ s \in Signatures(file)
      BY <3>1 DEF SignatureOf
    <3>3. g \in Nat
      BY <3>2, OpensAre
    <3>4. g \in Around(file, i)
      BY <1>1, <1>5, <2>1, <3>2, <3>3 DEF Around
    <3>5. g < f => file[g].next <= f
      BY <1>1, <1>2, <3>2, FunctionsAreOutside
    <3>6. g = f
      BY <1>1, <1>2, <1>5, <2>1, <3>2, <3>3, <3>4, <3>5
    <3>. QED
      BY <1>3, <3>2, <3>6
  <2>. QED
    BY <1>5, <2>2, <2>3 DEF IsScope
<1>6. t < i /\ i < file[t].next
  BY <1>1, <1>3, <1>4
<1>7. Scopes(file, i) = {0, t}
  BY <1>4, <1>5, <1>6, ScopesAre
<1>8. ASSUME NEW s, IsScope(file, s), s < i + 1, i + 1 < file[s].next PROVE FALSE
  <2>1. s \in Nat /\ file[s].next \in Nat
    BY <1>8, ScopesEnd
  <2>2. s # i
    BY <1>1, <1>8, EndsAre DEF IsScope, Pair, EndKinds
  <2>3. s < i /\ i < file[s].next
    BY <1>1, <1>8, <2>1, <2>2
  <2>4. s = t
    BY <1>5, <1>8, <2>3
  <2>. QED
    BY <1>1, <1>3, <1>8, <2>4
<1>9. Scopes(file, i + 1) = {0}
  BY <1>8, ScopesAre
<1>. QED
  BY <1>4, <1>7, <1>9

\* In declarators and in lists no scope begins or ends.
LEMMA ScopesAcross ==
  ASSUME NEW file \in Seq(Token), ParseTree(file), NEW o \in Opens(file),
         file[o].kind \in {"list", "var", "proto", "pdecl"},
         NEW i \in Nat, o <= i, i < file[o].next
  PROVE  Scopes(file, i) = Scopes(file, o)
<1>1. o \in DOMAIN file /\ o \in Nat /\ file[o].next \in Nat
  BY OpensAre
<1>2. \A k \in o + 1 .. file[o].next - 1 : file[k].kind \notin {"sig", "block"}
  BY DEF ParseTree, Flat, Declares, Statements
<1>3. \A x, y \in Opens(file) : x < y /\ y < file[x].next => file[y].next < file[x].next
  BY DEF ParseTree, Nested
<1>4. ASSUME NEW s, IsScope(file, s)
      PROVE  s < i /\ i < file[s].next <=> s < o /\ o < file[s].next
  <2>1. s \in Nat /\ file[s].next \in Nat /\ s # o /\ file[s].kind \in {"sig", "block"}
    BY <1>4, ScopesEnd DEF IsScope
  <2>2. ~(o < s /\ s < file[o].next)
    BY <1>1, <1>2, <2>1
  <2>3. s < o /\ o < file[s].next => file[o].next < file[s].next
    <3>1. CASE file[s].kind = "block"
      BY <1>3, <1>4, <3>1, ScopesEnd
    <3>2. CASE file[s].kind = "sig"
      <4>1. PICK f : SignatureOf(file, s, f)
        BY <1>4, <3>2, SignaturesHaveFunctions DEF IsScope, Signatures
      <4>2. f \in Opens(file) /\ f < s /\ file[s].next = file[f].next /\ f \in Nat
        BY <4>1, OpensAre DEF SignatureOf
      <4>. QED
        BY <1>1, <1>3, <2>1, <4>2
    <3>. QED
      BY <2>1, <3>1, <3>2
  <2>. QED
    BY <1>1, <2>1, <2>2, <2>3
<1>5. \A s : s \in Scopes(file, i) <=> s \in Scopes(file, o)
  BY <1>4, ScopesAre
<1>. QED
  BY <1>5

-----------------------------------------------------------------------------
(* Declarations. *)

Bind(text, d, scope, from, done) ==
  [text |-> text, decl |-> d, scope |-> scope, from |-> from, done |-> done]

\* The bindings that the walk enters in its tables, where the declaration is over.
Entries(file) == {b \in Bindings(file) : file[b.decl].kind \notin {"ptype", "pname"}}

\* The bindings that the kinds of declarations make.
OfDeclarator(file, d) ==
  Bind(file[d].text, d, MaxOf(Scopes(file, d)), DeclaratorEnd(file, d), file[d].next)
OfSignature(file, s, f) == Bind(file[f].text, f, s, s + 1, s + 1)
OfFunction(file, f) == Bind(file[f].text, f, 0, file[f].next, file[f].next)

OfParameter(file, p, h) == Bind(file[p].text, p, h, file[p].next, file[p].next)

IsDeclarator(file, d) == d \in Opens(file) /\ file[d].kind \in {"var", "proto", "pdecl"}
IsFunction(file, f) == f \in Opens(file) /\ file[f].kind = "fdef"
IsParameter(file, p, h) ==
  p \in Opens(file) /\ file[p].kind \in {"ptype", "pname"} /\ h \in Prototype(file, p)

LEMMA FunctionOfSignature ==
  ASSUME NEW file \in Seq(Token), ParseTree(file), NEW s, NEW f, SignatureOf(file, s, f)
  PROVE  (CHOOSE g \in 1 .. s : file[g].kind = "fdef" /\ s < file[g].next) = f
<1>1. /\ s \in Nat /\ s \in DOMAIN file /\ f \in Opens(file) /\ file[f].kind = "fdef" /\ f < s
      /\ s < file[f].next
  BY TokensAre DEF SignatureOf, Signatures
<1>2. f \in Nat /\ f \in 1 .. s
  BY <1>1, TokensAre DEF Opens
<1>3. ASSUME NEW g \in 1 .. s, file[g].kind = "fdef", s < file[g].next PROVE g = f
  <2>1. g \in Opens(file) /\ g \in Nat
    BY <1>1, <1>3, TokensAre, KindsAre DEF Opens
  <2>2. file[g].next \in Nat /\ file[f].next \in Nat
    BY <1>1, <2>1, OpensAre
  <2>3. (g < f => file[g].next <= f) /\ (f < g => file[f].next <= g)
    BY <1>1, <1>3, <2>1, FunctionsAreOutside
  <2>. QED
    BY <1>1, <1>2, <1>3, <2>1, <2>2, <2>3
<1>. QED
  BY <1>1, <1>2, <1>3

LEMMA BindingsAre ==
  ASSUME NEW file \in Seq(Token), ParseTree(file)
  PROVE  \A b : b \in Bindings(file) <=>
           \/ \E d : IsDeclarator(file, d) /\ b = OfDeclarator(file, d)
           \/ \E s, f : SignatureOf(file, s, f) /\ b = OfSignature(file, s, f)
           \/ \E f : IsFunction(file, f) /\ b = OfFunction(file, f)
           \/ \E p, h : IsParameter(file, p, h) /\ b = OfParameter(file, p, h)
<1>. DEFINE D == {OfDeclarator(file, d) : d \in {i \in DOMAIN file : file[i].kind \in {"var", "proto", "pdecl"}}}
            funcOf(s) == CHOOSE f \in 1 .. s : file[f].kind = "fdef" /\ s < file[f].next
            S == {OfSignature(file, s, funcOf(s)) : s \in {i \in DOMAIN file : file[i].kind = "sig"}}
            F == {OfFunction(file, f) : f \in {i \in DOMAIN file : file[i].kind = "fdef"}}
            P == UNION {{OfParameter(file, p, h) : h \in Prototype(file, p)} :
                          p \in {i \in DOMAIN file : file[i].kind \in {"ptype", "pname"}}}
<1>1. Bindings(file) = D \cup S \cup F \cup P
  BY DEF Bindings, OfDeclarator, OfSignature, OfFunction, OfParameter, Bind
<1>2. \A b : b \in D <=> \E d : IsDeclarator(file, d) /\ b = OfDeclarator(file, d)
  <2>1. \A d : d \in DOMAIN file /\ file[d].kind \in {"var", "proto", "pdecl"} <=> IsDeclarator(file, d)
    BY KindsAre DEF IsDeclarator, Opens
  <2>. QED
    BY <2>1, Zenon
<1>3. \A b : b \in F <=> \E f : IsFunction(file, f) /\ b = OfFunction(file, f)
  <2>1. \A d : d \in DOMAIN file /\ file[d].kind = "fdef" <=> IsFunction(file, d)
    BY KindsAre DEF IsFunction, Opens
  <2>. QED
    BY <2>1, Zenon
<1>4. \A b : b \in S <=> \E s, f : SignatureOf(file, s, f) /\ b = OfSignature(file, s, f)
  <2>1. ASSUME NEW s, NEW f, SignatureOf(file, s, f)
        PROVE  s \in DOMAIN file /\ file[s].kind = "sig" /\ funcOf(s) = f
    BY <2>1, FunctionOfSignature DEF SignatureOf, Signatures
  <2>2. ASSUME NEW s \in DOMAIN file, file[s].kind = "sig"
        PROVE  SignatureOf(file, s, funcOf(s))
    <3>1. PICK f : SignatureOf(file, s, f)
      BY <2>2, SignaturesHaveFunctions DEF Signatures
    <3>2. funcOf(s) = f
      BY <2>1, <3>1
    <3>. HIDE DEF funcOf
    <3>. QED
      BY <3>1, <3>2
  <2>. HIDE DEF funcOf
  <2>. QED
    BY <2>1, <2>2
<1>5. \A b : b \in P <=> \E p, h : IsParameter(file, p, h) /\ b = OfParameter(file, p, h)
  <2>1. \A p : p \in DOMAIN file /\ file[p].kind \in {"ptype", "pname"} <=>
               p \in Opens(file) /\ file[p].kind \in {"ptype", "pname"}
    BY KindsAre DEF Opens
  <2>. QED
    BY <2>1 DEF IsParameter
<1>. HIDE DEF D, S, F, P
<1>. QED
  BY <1>1, <1>2, <1>3, <1>4, <1>5

LEMMA EntriesAre ==
  ASSUME NEW file \in Seq(Token), ParseTree(file)
  PROVE  \A b : b \in Entries(file) <=>
           \/ \E d : IsDeclarator(file, d) /\ b = OfDeclarator(file, d)
           \/ \E s, f : SignatureOf(file, s, f) /\ b = OfSignature(file, s, f)
           \/ \E f : IsFunction(file, f) /\ b = OfFunction(file, f)
<1>1. ASSUME NEW d, IsDeclarator(file, d)
      PROVE  file[OfDeclarator(file, d).decl].kind \notin {"ptype", "pname"}
  BY <1>1 DEF IsDeclarator, OfDeclarator, Bind
<1>2. ASSUME NEW s, NEW f, SignatureOf(file, s, f)
      PROVE  file[OfSignature(file, s, f).decl].kind \notin {"ptype", "pname"}
  BY <1>2 DEF SignatureOf, OfSignature, Bind
<1>3. ASSUME NEW f, IsFunction(file, f)
      PROVE  file[OfFunction(file, f).decl].kind \notin {"ptype", "pname"}
  BY <1>3 DEF IsFunction, OfFunction, Bind
<1>4. ASSUME NEW p, NEW h, IsParameter(file, p, h)
      PROVE  file[OfParameter(file, p, h).decl].kind \in {"ptype", "pname"}
  BY <1>4 DEF IsParameter, OfParameter, Bind
<1>. DEFINE Entry(b) ==
       \/ \E d : IsDeclarator(file, d) /\ b = OfDeclarator(file, d)
       \/ \E s, f : SignatureOf(file, s, f) /\ b = OfSignature(file, s, f)
       \/ \E f : IsFunction(file, f) /\ b = OfFunction(file, f)
     Other(b) == \E p, h : IsParameter(file, p, h) /\ b = OfParameter(file, p, h)
<1>5. \A b : b \in Bindings(file) <=> Entry(b) \/ Other(b)
  BY BindingsAre
<1>6. ASSUME NEW b, Entry(b) PROVE file[b.decl].kind \notin {"ptype", "pname"}
  BY <1>1, <1>2, <1>3, <1>6
<1>7. ASSUME NEW b, Other(b) PROVE file[b.decl].kind \in {"ptype", "pname"}
  BY <1>4, <1>7
<1>. HIDE DEF Entry, Other
<1>8. \A b : b \in Entries(file) <=> Entry(b)
  BY <1>5, <1>6, <1>7 DEF Entries
<1>. QED
  BY <1>8 DEF Entry

LEMMA EntriesHave ==
  ASSUME NEW file \in Seq(Token), ParseTree(file), NEW b \in Entries(file)
  PROVE  b.done \in Nat /\ b.decl \in Nat /\ b.decl # 0
<1>1. ASSUME NEW o \in Opens(file) PROVE o \in Nat /\ o # 0 /\ file[o].next \in Nat
  BY OpensAre, TokensAre DEF Opens
<1>2. ASSUME NEW d, IsDeclarator(file, d), b = OfDeclarator(file, d)
      PROVE  b.done \in Nat /\ b.decl \in Nat /\ b.decl # 0
  BY <1>1, <1>2 DEF IsDeclarator, OfDeclarator, Bind
<1>3. ASSUME NEW s, NEW f, SignatureOf(file, s, f), b = OfSignature(file, s, f)
      PROVE  b.done \in Nat /\ b.decl \in Nat /\ b.decl # 0
  <2>1. s \in Nat /\ f \in Opens(file)
    BY <1>3, TokensAre DEF SignatureOf, Signatures
  <2>. QED
    BY <1>1, <1>3, <2>1 DEF OfSignature, Bind
<1>4. ASSUME NEW f, IsFunction(file, f), b = OfFunction(file, f)
      PROVE  b.done \in Nat /\ b.decl \in Nat /\ b.decl # 0
  BY <1>1, <1>4 DEF IsFunction, OfFunction, Bind
<1>. QED
  BY <1>2, <1>3, <1>4, EntriesAre, Zenon

\* What token i makes visible from the next one on.
Begins(file, i) == {b \in Entries(file) : b.done = i + 1}

LEMMA NothingBegins ==
  ASSUME NEW file \in Seq(Token), ParseTree(file), NEW i \in DOMAIN file,
         file[i].kind \notin {"sig", "endvar", "endproto", "endpdecl", "endfdef"}
  PROVE  Begins(file, i) = {}
<1>1. i \in Nat
  BY TokensAre
<1>2. ASSUME NEW o \in Opens(file), file[o].kind \in {"var", "proto", "pdecl", "fdef"}
      PROVE  file[o].next # i + 1
  <2>1. file[file[o].next - 1].kind = Closes[file[o].kind] /\ file[o].next \in Nat
    BY OpensAre
  <2>. QED
    BY <1>1, <1>2, <2>1, KindsAre
<1>3. ASSUME NEW d, IsDeclarator(file, d) PROVE OfDeclarator(file, d).done # i + 1
  BY <1>2, <1>3 DEF IsDeclarator, OfDeclarator, Bind
<1>4. ASSUME NEW f, IsFunction(file, f) PROVE OfFunction(file, f).done # i + 1
  BY <1>2, <1>4 DEF IsFunction, OfFunction, Bind
<1>5. ASSUME NEW s, NEW f, SignatureOf(file, s, f) PROVE OfSignature(file, s, f).done # i + 1
  <2>1. s \in Nat /\ s # i
    BY <1>5, TokensAre DEF SignatureOf, Signatures
  <2>. QED
    BY <1>1, <2>1 DEF OfSignature, Bind
<1>6. \A b \in Entries(file) : b.done # i + 1
  BY <1>3, <1>4, <1>5, EntriesAre, SMT
<1>. QED
  BY <1>6 DEF Begins

LEMMA SignatureBegins ==
  ASSUME NEW file \in Seq(Token), ParseTree(file), NEW s, NEW f, SignatureOf(file, s, f)
  PROVE  Begins(file, s) = {OfSignature(file, s, f)}
<1>1. s \in DOMAIN file /\ s \in Nat /\ file[s].kind = "sig"
  BY TokensAre DEF SignatureOf, Signatures
<1>2. ASSUME NEW o \in Opens(file) PROVE file[o].next # s + 1
  <2>1. file[o].next - 1 \in Ends(file) /\ file[o].next \in Nat
    BY OpensAre
  <2>2. s \notin Ends(file)
    BY <1>1, EndsAre DEF EndKinds
  <2>. QED
    BY <1>1, <2>1, <2>2
<1>3. ASSUME NEW d, IsDeclarator(file, d) PROVE OfDeclarator(file, d).done # s + 1
  BY <1>2, <1>3 DEF IsDeclarator, OfDeclarator, Bind
<1>4. ASSUME NEW g, IsFunction(file, g) PROVE OfFunction(file, g).done # s + 1
  BY <1>2, <1>4 DEF IsFunction, OfFunction, Bind
<1>5. ASSUME NEW t, NEW g, SignatureOf(file, t, g), OfSignature(file, t, g).done = s + 1
      PROVE  t = s /\ g = f
  <2>1. t \in Nat
    BY <1>5, TokensAre DEF SignatureOf, Signatures
  <2>2. t = s
    BY <1>1, <1>5, <2>1 DEF OfSignature, Bind
  <2>. QED
    BY <1>5, <2>2, FunctionOfSignature
<1>6. OfSignature(file, s, f) \in Entries(file) /\ OfSignature(file, s, f).done = s + 1
  <2>1. OfSignature(file, s, f) \in Entries(file)
    BY EntriesAre
  <2>. QED
    BY <2>1 DEF OfSignature, Bind
<1>7. \A b \in Entries(file) : b.done = s + 1 => b = OfSignature(file, s, f)
  BY <1>3, <1>4, <1>5, EntriesAre, SMT
<1>. QED
  BY <1>6, <1>7 DEF Begins

\* The end of a declarator or of a function makes its name visible, and no other.
Ended(file, o) == IF file[o].kind = "fdef" THEN OfFunction(file, o) ELSE OfDeclarator(file, o)

LEMMA DeclarationBegins ==
  ASSUME NEW file \in Seq(Token), ParseTree(file), NEW o, NEW i, Pair(file, o, i),
         file[o].kind \in {"var", "proto", "pdecl", "fdef"}
  PROVE  Begins(file, i) = {Ended(file, o)}
<1>1. i \in DOMAIN file /\ i \in Nat /\ i \in Ends(file) /\ o \in Opens(file) /\ file[o].next = i + 1
  BY TokensAre DEF Pair
<1>2. ASSUME NEW p \in Opens(file), file[p].next = i + 1 PROVE p = o
  BY <1>1, <1>2, NextIsOwn
<1>3. ASSUME NEW d, IsDeclarator(file, d), OfDeclarator(file, d).done = i + 1
      PROVE  OfDeclarator(file, d) = Ended(file, o)
  <2>1. d = o /\ file[d].kind # "fdef"
    BY <1>2, <1>3 DEF IsDeclarator, OfDeclarator, Bind
  <2>. QED
    BY <2>1 DEF Ended
<1>4. ASSUME NEW f, IsFunction(file, f), OfFunction(file, f).done = i + 1
      PROVE  OfFunction(file, f) = Ended(file, o)
  <2>1. f = o /\ file[f].kind = "fdef"
    BY <1>2, <1>4 DEF IsFunction, OfFunction, Bind
  <2>. QED
    BY <2>1 DEF Ended
<1>5. ASSUME NEW s, NEW f, SignatureOf(file, s, f) PROVE OfSignature(file, s, f).done # i + 1
  <2>1. s \in Nat /\ s \notin Ends(file)
    BY <1>5, TokensAre, EndsAre DEF SignatureOf, Signatures, EndKinds
  <2>. QED
    BY <1>1, <2>1 DEF OfSignature, Bind
<1>6. Ended(file, o) \in Entries(file)
  BY <1>1, EntriesAre DEF Ended, IsFunction, IsDeclarator
<1>7. Ended(file, o).done = i + 1
  BY <1>1 DEF Ended, OfFunction, OfDeclarator, Bind
<1>8. \A b \in Entries(file) : b.done = i + 1 => b = Ended(file, o)
  BY <1>3, <1>4, <1>5, EntriesAre, SMT
<1>. QED
  BY <1>6, <1>7, <1>8 DEF Begins

\* The largest of a set of numbers.
LEMMA MaxOfIs ==
  ASSUME NEW S, S \subseteq Nat, S # {}, NEW bound \in Nat, \A n \in S : n <= bound
  PROVE  MaxOf(S) \in S /\ \A n \in S : n <= MaxOf(S)
<1>. DEFINE T == {d \in Nat : bound - d \in S}
<1>1. T # {} /\ T \subseteq Nat
  <2>1. PICK n \in S : n \in Nat /\ n <= bound
    OBVIOUS
  <2>2. bound - n \in Nat /\ bound - (bound - n) = n
    BY <2>1
  <2>. QED
    BY <2>1, <2>2
<1>. HIDE DEF T
<1>2. PICK d \in T : \A e \in T : ~(<<e, d>> \in OpToRel(<, Nat))
  BY <1>1, WFMin, NatLessThanWellFounded, Zenon
<1>3. d \in Nat /\ (\A e \in T : ~(e < d)) /\ bound - d \in S
  BY <1>1, <1>2 DEF OpToRel, T
<1>4. ASSUME NEW n \in S PROVE n <= bound - d
  <2>1. n \in Nat /\ n <= bound /\ bound - n \in Nat /\ bound - (bound - n) = n
    OBVIOUS
  <2>2. bound - n \in T
    BY <2>1 DEF T
  <2>. QED
    BY <1>3, <2>1, <2>2
<1>. QED
  BY <1>3, <1>4 DEF MaxOf

LEMMA InnermostScope ==
  ASSUME NEW file \in Seq(Token), ParseTree(file), NEW i \in DOMAIN file
  PROVE  /\ MaxOf(Scopes(file, i)) \in Scopes(file, i)
         /\ \A s \in Scopes(file, i) : s \in Nat /\ s <= MaxOf(Scopes(file, i)) /\ s < i
<1>1. i \in Nat /\ i > 0
  BY TokensAre
<1>2. \A s \in Scopes(file, i) : s \in Nat /\ s < i
  BY <1>1, ScopesAre, ScopesEnd
<1>3. 0 \in Scopes(file, i)
  BY ScopesAre
<1>4. Scopes(file, i) \subseteq Nat /\ Scopes(file, i) # {} /\ \A s \in Scopes(file, i) : s <= i
  BY <1>1, <1>2, <1>3
<1>. QED
  BY <1>1, <1>2, <1>4, MaxOfIs

\* What a scope knows of a name before token i is visited, and what it knows last.
Known(file, i, s, name) ==
  {b \in Entries(file) : b.text = name /\ b.scope = s /\ b.done <= i}
Latest(B) == IF B = {} THEN 0 ELSE (CHOOSE b \in B : \A c \in B : c.done <= b.done).decl

LEMMA LatestOfSome ==
  ASSUME NEW file \in Seq(Token), ParseTree(file), NEW B, B \subseteq Entries(file), B # {},
         NEW i \in Nat, \A b \in B : b.done <= i
  PROVE  Latest(B) # 0 /\ Latest(B) \in Nat
<1>. DEFINE dones == {b.done : b \in B}
            IsLast(b) == \A c \in B : c.done <= b.done
<1>1. dones \subseteq Nat /\ dones # {} /\ \A n \in dones : n <= i
  BY EntriesHave
<1>2. MaxOf(dones) \in dones /\ \A n \in dones : n <= MaxOf(dones)
  BY <1>1, MaxOfIs
<1>3. \E b \in B : IsLast(b)
  <2>1. PICK b \in B : b.done = MaxOf(dones)
    BY <1>2
  <2>2. \A c \in B : c.done \in dones
    OBVIOUS
  <2>. QED
    BY <1>2, <2>1, <2>2
<1>4. (CHOOSE b \in B : IsLast(b)) \in B
  BY <1>3
<1>5. Latest(B) = (CHOOSE b \in B : IsLast(b)).decl
  BY DEF Latest
<1>. QED
  BY <1>4, <1>5, EntriesHave

LEMMA LatestOfNone ==
  Latest({}) = 0
BY DEF Latest

LEMMA LatestIsNew ==
  ASSUME NEW B, NEW b \in B, b.done \in Nat,
         \A c \in B : c # b => c.done \in Nat /\ c.done < b.done
  PROVE  Latest(B) = b.decl
<1>1. \A c \in B : c.done <= b.done
  OBVIOUS
<1>2. \A d \in B : (\A c \in B : c.done <= d.done) => d = b
  OBVIOUS
<1>3. (CHOOSE d \in B : \A c \in B : c.done <= d.done) = b
  BY <1>1, <1>2
<1>. QED
  BY <1>3 DEF Latest

Binds(b, s, name) == b.text = name /\ b.scope = s

LEMMA KnownAfter ==
  ASSUME NEW file \in Seq(Token), ParseTree(file), NEW i \in Nat, NEW s, NEW name
  PROVE  \A b : b \in Known(file, i + 1, s, name) <=>
                 \/ b \in Known(file, i, s, name)
                 \/ b \in Begins(file, i) /\ Binds(b, s, name)
<1>1. \A b \in Entries(file) : b.done <= i + 1 <=> b.done <= i \/ b.done = i + 1
  BY EntriesHave
<1>. QED
  BY <1>1 DEF Known, Begins, Binds

LEMMA KnownAfterOne ==
  ASSUME NEW file \in Seq(Token), ParseTree(file), NEW i \in Nat, NEW d, Begins(file, i) = {d},
         NEW s, NEW name
  PROVE  \A b : b \in Known(file, i + 1, s, name) <=>
                 \/ b \in Known(file, i, s, name)
                 \/ b = d /\ Binds(b, s, name)
<1>1. \A b : b \in Begins(file, i) <=> b = d
  OBVIOUS
<1>2. \A b : b \in Known(file, i + 1, s, name) <=>
               \/ b \in Known(file, i, s, name)
               \/ b \in Begins(file, i) /\ Binds(b, s, name)
  BY KnownAfter
<1>. QED
  BY <1>1, <1>2

\* A scope that token i opens has known nothing before.
LEMMA KnownInNewScope ==
  ASSUME NEW file \in Seq(Token), ParseTree(file), NEW i, IsScope(file, i), NEW name
  PROVE  Known(file, i, i, name) = {}
<1>1. i \in Nat /\ i > 0
  BY ScopesEnd
<1>2. ASSUME NEW d, IsDeclarator(file, d), OfDeclarator(file, d).scope = i
      PROVE  ~(OfDeclarator(file, d).done <= i)
  <2>1. d \in DOMAIN file /\ d \in Nat /\ file[d].next \in Nat /\ d < file[d].next
    BY <1>2, OpensAre DEF IsDeclarator
  <2>2. MaxOf(Scopes(file, d)) < d /\ MaxOf(Scopes(file, d)) = i
    BY <1>2, <2>1, InnermostScope DEF OfDeclarator, Bind
  <2>. QED
    BY <1>1, <2>1, <2>2 DEF OfDeclarator, Bind
<1>3. ASSUME NEW s, NEW f, SignatureOf(file, s, f), OfSignature(file, s, f).scope = i
      PROVE  ~(OfSignature(file, s, f).done <= i)
  BY <1>1, <1>3 DEF OfSignature, Bind
<1>4. ASSUME NEW f, IsFunction(file, f) PROVE OfFunction(file, f).scope # i
  BY <1>1 DEF OfFunction, Bind
<1>5. \A b \in Entries(file) : ~(b.scope = i /\ b.done <= i)
  BY <1>2, <1>3, <1>4, EntriesAre, SMT
<1>. QED
  BY <1>5 DEF Known

-----------------------------------------------------------------------------
(* The chain of maps. *)

\* The maps of a table are those of the scopes S, the innermost first, as the scopes
\* are before token i is visited; ss are the scopes in the order of the maps.
Mirrors(file, S, i, table, ss) ==
  /\ S \subseteq Nat
  /\ ss \in Seq(Nat) /\ table \in Seq([Names -> Nat]) /\ Len(ss) = Len(table)
  /\ \A s : s \in S <=> \E k \in DOMAIN ss : ss[k] = s
  /\ \A j, k \in DOMAIN ss : j < k => ss[k] < ss[j]
  /\ \A k \in DOMAIN ss : \A name \in Names : table[k][name] = Latest(Known(file, i, ss[k], name))

LEMMA NoDeclsIs ==
  NoDecls \in [Names -> Nat] /\ \A name \in Names : NoDecls[name] = 0
BY DEF NoDecls

LEMMA MirrorsAre ==
  ASSUME NEW file, NEW S, NEW i, NEW table, NEW ss, Mirrors(file, S, i, table, ss)
  PROVE  /\ Len(ss) \in Nat /\ DOMAIN ss = 1 .. Len(ss) /\ DOMAIN table = 1 .. Len(ss)
         /\ \A k \in DOMAIN ss : ss[k] \in Nat /\ table[k] \in [Names -> Nat]
         /\ S # {} => /\ Len(ss) > 0 /\ ss[1] \in S /\ \A s \in S : s <= ss[1]
<1>1. /\ Len(ss) \in Nat /\ DOMAIN ss = 1 .. Len(ss) /\ DOMAIN table = 1 .. Len(ss)
      /\ \A k \in DOMAIN ss : ss[k] \in Nat /\ table[k] \in [Names -> Nat]
  BY DEF Mirrors
<1>2. ASSUME NEW s \in S PROVE Len(ss) > 0 /\ ss[1] \in S /\ s <= ss[1]
  <2>1. PICK k \in DOMAIN ss : ss[k] = s
    BY DEF Mirrors
  <2>2. 1 \in DOMAIN ss /\ k \in Nat /\ k >= 1
    BY <1>1, <2>1
  <2>3. 1 < k => ss[k] < ss[1]
    BY <2>2 DEF Mirrors
  <2>4. ss[1] \in S
    BY <2>2 DEF Mirrors
  <2>. QED
    BY <1>1, <2>1, <2>2, <2>3, <2>4
<1>. QED
  BY <1>1, <1>2

\* Nothing is declared between two tokens.
LEMMA MirrorsLater ==
  ASSUME NEW file, NEW S, NEW i, NEW j, NEW table, NEW ss, Mirrors(file, S, i, table, ss),
         \A s \in S : \A name : Known(file, j, s, name) = Known(file, i, s, name)
  PROVE  Mirrors(file, S, j, table, ss)
<1>1. \A k \in DOMAIN ss : ss[k] \in S
  BY DEF Mirrors
<1>. QED
  BY <1>1 DEF Mirrors

LEMMA MirrorsWithout ==
  ASSUME NEW file \in Seq(Token), ParseTree(file), NEW S, NEW i \in Nat, NEW table, NEW ss,
         Mirrors(file, S, i, table, ss), Begins(file, i) = {}
  PROVE  Mirrors(file, S, i + 1, table, ss)
<1>1. ASSUME NEW s, NEW name PROVE Known(file, i + 1, s, name) = Known(file, i, s, name)
  <2>1. \A b : b \in Known(file, i + 1, s, name) <=> b \in Known(file, i, s, name)
    BY KnownAfter
  <2>. QED
    BY <2>1
<1>. QED
  BY <1>1, MirrorsLater

\* Declare in the innermost map.
LEMMA MirrorsDeclared ==
  ASSUME NEW file \in Seq(Token), ParseTree(file), NEW S, NEW i \in Nat, NEW table, NEW ss,
         Mirrors(file, S, i, table, ss),
         NEW b, Begins(file, i) = {b}, b.scope \in S, \A s \in S : s <= b.scope
  PROVE  Mirrors(file, S, i + 1, Declare(table, b.text, b.decl), ss)
<1>1. /\ Len(ss) \in Nat /\ DOMAIN ss = 1 .. Len(ss) /\ DOMAIN table = 1 .. Len(ss)
      /\ \A k \in DOMAIN ss : ss[k] \in Nat /\ table[k] \in [Names -> Nat]
      /\ Len(ss) > 0 /\ ss[1] \in S /\ b.scope <= ss[1]
  BY MirrorsAre
<1>2. ss[1] = b.scope
  <2>1. S \subseteq Nat
    BY DEF Mirrors
  <2>2. ss[1] \in Nat /\ b.scope \in Nat /\ ss[1] <= b.scope
    BY <1>1, <2>1
  <2>. QED
    BY <1>1, <2>2
<1>3. b \in Entries(file) /\ b.done = i + 1 /\ b.done \in Nat /\ b.decl \in Nat
  <2>1. b \in Entries(file) /\ b.done = i + 1
    BY DEF Begins
  <2>. QED
    BY <2>1, EntriesHave
<1>. DEFINE t == Declare(table, b.text, b.decl)
<1>4. /\ DOMAIN t = 1 .. Len(ss)
      /\ \A k \in 1 .. Len(ss) : k # 1 => t[k] = table[k]
      /\ t[1] = [table[1] EXCEPT ![b.text] = b.decl]
  BY <1>1 DEF Declare
<1>5. /\ t[1] \in [Names -> Nat]
      /\ \A name \in Names : t[1][name] = IF name = b.text THEN b.decl ELSE table[1][name]
  <2>1. table[1] \in [Names -> Nat]
    BY <1>1
  <2>. DEFINE old == table[1]
              d == b.decl
  <2>2. old \in [Names -> Nat] /\ d \in Nat /\ t[1] = [old EXCEPT ![b.text] = d]
    BY <1>3, <1>4, <2>1
  <2>. HIDE DEF old, d, t
  <2>3. /\ t[1] \in [Names -> Nat]
        /\ \A name \in Names : t[1][name] = IF name = b.text THEN d ELSE old[name]
    BY <2>2
  <2>. QED
    BY <2>3 DEF old, d
<1>6. t \in Seq([Names -> Nat]) /\ Len(t) = Len(ss)
  <2>1. t \in Seq([Names -> Nat])
    <3>1. table \in Seq([Names -> Nat])
      BY DEF Mirrors
    <3>2. t = [table EXCEPT ![1] = t[1]]
      BY <1>4 DEF Declare
    <3>. HIDE DEF t
    <3>3. [table EXCEPT ![1] = t[1]] \in Seq([Names -> Nat])
      BY <1>1, <1>5, <3>1
    <3>. QED
      BY <3>2, <3>3
  <2>. HIDE DEF t
  <2>2. DOMAIN t = 1 .. Len(t) /\ Len(t) \in Nat
    BY <2>1
  <2>. QED
    BY <1>1, <1>4, <2>1, <2>2
<1>. HIDE DEF t
<1>7. ASSUME NEW k \in DOMAIN ss, NEW name \in Names
      PROVE  t[k][name] = Latest(Known(file, i + 1, ss[k], name))
  <2>1. table[k][name] = Latest(Known(file, i, ss[k], name))
    BY DEF Mirrors
  <2>2. \A c : c \in Known(file, i + 1, ss[k], name) <=>
               \/ c \in Known(file, i, ss[k], name)
               \/ c = b /\ Binds(c, ss[k], name)
    BY KnownAfterOne
  <2>3. CASE ss[k] = b.scope /\ name = b.text
    <3>1. k = 1
      <4>1. 1 \in DOMAIN ss /\ k \in Nat /\ k >= 1
        BY <1>1
      <4>2. 1 < k => ss[k] < ss[1]
        BY <4>1 DEF Mirrors
      <4>. QED
        BY <1>1, <1>2, <2>3, <4>1, <4>2
    <3>2. \A c \in Known(file, i, ss[k], name) : c.done \in Nat /\ c.done <= i
      BY EntriesHave DEF Known
    <3>3. b \in Known(file, i + 1, ss[k], name)
      BY <2>2, <2>3 DEF Binds
    <3>4. \A c \in Known(file, i + 1, ss[k], name) : c # b => c.done \in Nat /\ c.done < b.done
      BY <1>3, <2>2, <3>2
    <3>5. Latest(Known(file, i + 1, ss[k], name)) = b.decl
      BY <1>3, <3>3, <3>4, LatestIsNew
    <3>. QED
      BY <1>5, <2>3, <3>1, <3>5
  <2>4. CASE ~(ss[k] = b.scope /\ name = b.text)
    <3>1. Known(file, i + 1, ss[k], name) = Known(file, i, ss[k], name)
      BY <2>2, <2>4 DEF Binds
    <3>2. t[k][name] = table[k][name]
      BY <1>1, <1>2, <1>4, <1>5, <2>4
    <3>. QED
      BY <2>1, <3>1, <3>2
  <2>. QED
    BY <2>3, <2>4
<1>8. Mirrors(file, S, i + 1, t, ss)
  BY <1>6, <1>7 DEF Mirrors
<1>. QED
  BY <1>8 DEF t

LEMMA MirrorsPushed ==
  ASSUME NEW file, NEW S, NEW i, NEW table, NEW ss, Mirrors(file, S, i, table, ss),
         NEW s \in Nat, \A t \in S : t < s,
         \A name : Known(file, i, s, name) = {}
  PROVE  Mirrors(file, S \cup {s}, i, <<NoDecls>> \o table, <<s>> \o ss)
<1>. DEFINE t2 == <<NoDecls>> \o table
            s2 == <<s>> \o ss
<1>1. /\ Len(ss) \in Nat /\ DOMAIN ss = 1 .. Len(ss) /\ DOMAIN table = 1 .. Len(ss)
      /\ \A k \in DOMAIN ss : ss[k] \in Nat
  BY MirrorsAre
<1>2. /\ s2 \in Seq(Nat) /\ Len(s2) = Len(ss) + 1 /\ DOMAIN s2 = 1 .. Len(ss) + 1
      /\ s2[1] = s /\ \A k \in 2 .. Len(ss) + 1 : s2[k] = ss[k - 1]
  BY DEF Mirrors
<1>3. /\ t2 \in Seq([Names -> Nat]) /\ Len(t2) = Len(ss) + 1
      /\ t2[1] = NoDecls /\ \A k \in 2 .. Len(ss) + 1 : t2[k] = table[k - 1]
  BY NoDeclsIs DEF Mirrors
<1>. HIDE DEF t2, s2
<1>4. \A k \in DOMAIN s2 : k = 1 \/ (k \in 2 .. Len(ss) + 1 /\ k - 1 \in DOMAIN ss)
  BY <1>1, <1>2
<1>5. ASSUME NEW x PROVE x \in S \cup {s} <=> \E k \in DOMAIN s2 : s2[k] = x
  <2>1. x \in S <=> \E k \in DOMAIN ss : ss[k] = x
    BY DEF Mirrors
  <2>2. \A k \in DOMAIN ss : k + 1 \in DOMAIN s2 /\ s2[k + 1] = ss[k]
    BY <1>1, <1>2
  <2>3. 1 \in DOMAIN s2
    BY <1>1, <1>2
  <2>. QED
    BY <1>2, <1>4, <2>1, <2>2, <2>3
<1>6. ASSUME NEW j \in DOMAIN s2, NEW k \in DOMAIN s2, j < k PROVE s2[k] < s2[j]
  <2>1. k \in 2 .. Len(ss) + 1 /\ k - 1 \in DOMAIN ss /\ s2[k] = ss[k - 1]
    BY <1>1, <1>2, <1>4, <1>6
  <2>2. CASE j = 1
    BY <1>2, <2>1, <2>2 DEF Mirrors
  <2>3. CASE j # 1
    <3>1. j - 1 \in DOMAIN ss /\ s2[j] = ss[j - 1] /\ j - 1 < k - 1
      BY <1>1, <1>2, <1>4, <1>6, <2>3
    <3>. QED
      BY <2>1, <3>1 DEF Mirrors
  <2>. QED
    BY <2>2, <2>3
<1>7. ASSUME NEW k \in DOMAIN s2, NEW name \in Names
      PROVE  t2[k][name] = Latest(Known(file, i, s2[k], name))
  <2>1. CASE k = 1
    BY <1>2, <1>3, <2>1, NoDeclsIs, LatestOfNone
  <2>2. CASE k # 1
    <3>1. t2[k] = table[k - 1] /\ s2[k] = ss[k - 1] /\ k - 1 \in DOMAIN ss
      BY <1>2, <1>3, <1>4, <2>2
    <3>2. table[k - 1][name] = Latest(Known(file, i, ss[k - 1], name))
      BY <3>1 DEF Mirrors
    <3>. QED
      BY <3>1, <3>2
  <2>. QED
    BY <2>1, <2>2
<1>8. S \cup {s} \subseteq Nat
  BY DEF Mirrors
<1>9. Mirrors(file, S \cup {s}, i, t2, s2)
  BY <1>2, <1>3, <1>5, <1>6, <1>7, <1>8 DEF Mirrors
<1>. QED
  BY <1>9 DEF t2, s2

LEMMA MirrorsPopped ==
  ASSUME NEW file, NEW S, NEW i, NEW table, NEW ss, Mirrors(file, S, i, table, ss),
         NEW s \in S, \A t \in S : t <= s
  PROVE  Mirrors(file, S \ {s}, i, Tail(table), Tail(ss))
<1>1. /\ Len(ss) \in Nat /\ DOMAIN ss = 1 .. Len(ss) /\ DOMAIN table = 1 .. Len(ss)
      /\ \A k \in DOMAIN ss : ss[k] \in Nat
      /\ Len(ss) > 0 /\ ss[1] \in S /\ s <= ss[1]
  BY MirrorsAre
<1>2. ss[1] = s /\ S \subseteq Nat
  <2>1. S \subseteq Nat
    BY DEF Mirrors
  <2>2. ss[1] \in Nat /\ s \in Nat /\ ss[1] <= s
    BY <1>1, <2>1
  <2>. QED
    BY <1>1, <2>1, <2>2
<1>. DEFINE t2 == Tail(table)
            s2 == Tail(ss)
<1>3. /\ s2 \in Seq(Nat) /\ Len(s2) = Len(ss) - 1 /\ DOMAIN s2 = 1 .. Len(ss) - 1
      /\ \A k \in 1 .. Len(ss) - 1 : s2[k] = ss[k + 1]
  BY <1>1 DEF Mirrors
<1>4. /\ t2 \in Seq([Names -> Nat]) /\ Len(t2) = Len(ss) - 1
      /\ \A k \in 1 .. Len(ss) - 1 : t2[k] = table[k + 1]
  BY <1>1 DEF Mirrors
<1>. HIDE DEF t2, s2
<1>5. \A k \in DOMAIN s2 : k \in Nat /\ k >= 1 /\ k + 1 \in DOMAIN ss /\ s2[k] = ss[k + 1] /\ t2[k] = table[k + 1]
  BY <1>1, <1>3, <1>4
<1>6. \A j, k \in DOMAIN ss : j < k => ss[k] < ss[j]
  BY DEF Mirrors
<1>7. ASSUME NEW x PROVE x \in S \ {s} <=> \E k \in DOMAIN s2 : s2[k] = x
  <2>1. x \in S <=> \E k \in DOMAIN ss : ss[k] = x
    BY DEF Mirrors
  <2>2. ASSUME NEW k \in DOMAIN ss, k # 1 PROVE k - 1 \in DOMAIN s2 /\ s2[k - 1] = ss[k]
    BY <1>1, <1>3, <2>2
  <2>3. ASSUME NEW k \in DOMAIN s2 PROVE ss[k + 1] # s
    <3>1. 1 \in DOMAIN ss /\ k + 1 \in DOMAIN ss /\ 1 < k + 1
      BY <1>1, <1>5
    <3>2. ss[k + 1] < ss[1]
      BY <1>6, <3>1
    <3>3. ss[k + 1] \in Nat /\ ss[1] \in Nat
      BY <1>1, <3>1
    <3>. QED
      BY <1>2, <3>2, <3>3
  <2>. QED
    BY <1>2, <1>5, <2>1, <2>2, <2>3
<1>8. ASSUME NEW j \in DOMAIN s2, NEW k \in DOMAIN s2, j < k PROVE s2[k] < s2[j]
  <2>1. j + 1 < k + 1
    BY <1>5, <1>8
  <2>. QED
    BY <1>5, <1>6, <2>1
<1>9. ASSUME NEW k \in DOMAIN s2, NEW name \in Names
      PROVE  t2[k][name] = Latest(Known(file, i, s2[k], name))
  <2>1. k + 1 \in DOMAIN ss /\ s2[k] = ss[k + 1] /\ t2[k] = table[k + 1]
    BY <1>5
  <2>2. table[k + 1][name] = Latest(Known(file, i, ss[k + 1], name))
    BY <2>1 DEF Mirrors
  <2>. QED
    BY <2>1, <2>2
<1>10. S \ {s} \subseteq Nat
  BY <1>2
<1>11. Mirrors(file, S \ {s}, i, t2, s2)
  BY <1>3, <1>4, <1>7, <1>8, <1>9, <1>10 DEF Mirrors
<1>. QED
  BY <1>11 DEF t2, s2

-----------------------------------------------------------------------------
(* The calls in progress. *)

Frame(V) == [tok : Nat, ret : V, op : V, list : V]

\* The calls are those of the subtrees A, the innermost first.
Follow(A, cs) ==
  /\ \E V : cs \in Seq(Frame(V))
  /\ \A o : o \in A <=> \E k \in DOMAIN cs : cs[k].tok = o
  /\ \A j, k \in DOMAIN cs : j < k => cs[k].tok < cs[j].tok

LEMMA FollowIs ==
  ASSUME NEW A, NEW cs, Follow(A, cs)
  PROVE  /\ Len(cs) \in Nat /\ DOMAIN cs = 1 .. Len(cs)
         /\ \A k \in DOMAIN cs : cs[k].tok \in Nat
         /\ A # {} => Len(cs) > 0 /\ cs[1].tok \in A /\ \A o \in A : o <= cs[1].tok
<1>1. PICK V : cs \in Seq(Frame(V))
  BY DEF Follow
<1>2. /\ Len(cs) \in Nat /\ DOMAIN cs = 1 .. Len(cs)
      /\ \A k \in DOMAIN cs : cs[k] \in Frame(V)
  BY <1>1
<1>3. \A k \in DOMAIN cs : cs[k].tok \in Nat
  BY <1>2 DEF Frame
<1>4. ASSUME NEW o \in A PROVE Len(cs) > 0 /\ cs[1].tok \in A /\ o <= cs[1].tok
  <2>1. PICK k \in DOMAIN cs : cs[k].tok = o
    BY DEF Follow
  <2>2. 1 \in DOMAIN cs /\ k \in Nat /\ k >= 1
    BY <1>2
  <2>3. 1 < k => cs[k].tok < cs[1].tok
    BY <2>2 DEF Follow
  <2>4. cs[1].tok \in A
    BY <2>2 DEF Follow
  <2>. QED
    BY <1>2, <1>3, <2>1, <2>2, <2>3, <2>4
<1>. QED
  BY <1>2, <1>3, <1>4

LEMMA FollowCalled ==
  ASSUME NEW A, NEW cs, Follow(A, cs), NEW t \in Nat, \A o \in A : o < t,
         NEW r, NEW o, NEW l
  PROVE  Follow(A \cup {t}, <<[tok |-> t, ret |-> r, op |-> o, list |-> l]>> \o cs)
<1>. DEFINE c == [tok |-> t, ret |-> r, op |-> o, list |-> l]
            c2 == <<c>> \o cs
<1>1. PICK V : cs \in Seq(Frame(V))
  BY DEF Follow
<1>. DEFINE W == V \cup {r, o, l}
<1>2. cs \in Seq(Frame(W)) /\ c \in Frame(W) /\ c.tok = t
  <2>1. \A f \in Frame(V) : f \in Frame(W)
    BY DEF Frame
  <2>2. c \in Frame(W) /\ c.tok = t
    BY DEF Frame
  <2>. HIDE DEF c, W
  <2>3. cs \in Seq(Frame(W))
    BY <1>1, <2>1
  <2>. QED
    BY <2>2, <2>3
<1>. HIDE DEF c, W
<1>3. /\ Len(cs) \in Nat /\ DOMAIN cs = 1 .. Len(cs) /\ \A k \in DOMAIN cs : cs[k].tok \in Nat
  BY FollowIs
<1>4. /\ c2 \in Seq(Frame(W)) /\ DOMAIN c2 = 1 .. Len(cs) + 1
      /\ c2[1] = c /\ \A k \in 2 .. Len(cs) + 1 : c2[k] = cs[k - 1]
  BY <1>2
<1>. HIDE DEF c2
<1>5. \A k \in DOMAIN c2 : k = 1 \/ (k \in 2 .. Len(cs) + 1 /\ k - 1 \in DOMAIN cs)
  BY <1>3, <1>4
<1>6. ASSUME NEW x PROVE x \in A \cup {t} <=> \E k \in DOMAIN c2 : c2[k].tok = x
  <2>1. x \in A <=> \E k \in DOMAIN cs : cs[k].tok = x
    BY DEF Follow
  <2>2. \A k \in DOMAIN cs : k + 1 \in DOMAIN c2 /\ c2[k + 1] = cs[k]
    BY <1>3, <1>4
  <2>3. 1 \in DOMAIN c2
    BY <1>3, <1>4
  <2>. QED
    BY <1>2, <1>4, <1>5, <2>1, <2>2, <2>3
<1>7. ASSUME NEW j \in DOMAIN c2, NEW k \in DOMAIN c2, j < k PROVE c2[k].tok < c2[j].tok
  <2>1. k \in 2 .. Len(cs) + 1 /\ k - 1 \in DOMAIN cs /\ c2[k] = cs[k - 1]
    BY <1>3, <1>4, <1>5, <1>7
  <2>2. CASE j = 1
    <3>1. cs[k - 1].tok \in A
      BY <2>1 DEF Follow
    <3>. QED
      BY <1>2, <1>4, <2>1, <2>2, <3>1
  <2>3. CASE j # 1
    <3>1. j - 1 \in DOMAIN cs /\ c2[j] = cs[j - 1] /\ j - 1 < k - 1
      BY <1>3, <1>4, <1>5, <1>7, <2>3
    <3>. QED
      BY <2>1, <3>1 DEF Follow
  <2>. QED
    BY <2>2, <2>3
<1>8. Follow(A \cup {t}, c2)
  BY <1>4, <1>6, <1>7 DEF Follow
<1>. QED
  BY <1>8 DEF c2, c

LEMMA FollowReturned ==
  ASSUME NEW A, NEW cs, Follow(A, cs), NEW t \in A, \A o \in A : o <= t
  PROVE  Follow(A \ {t}, Tail(cs))
<1>. DEFINE c2 == Tail(cs)
<1>1. PICK V : cs \in Seq(Frame(V))
  BY DEF Follow
<1>2. /\ Len(cs) \in Nat /\ DOMAIN cs = 1 .. Len(cs) /\ Len(cs) > 0
      /\ \A k \in DOMAIN cs : cs[k].tok \in Nat
      /\ cs[1].tok \in A /\ t <= cs[1].tok
  BY FollowIs
<1>3. cs[1].tok = t
  <2>1. PICK k \in DOMAIN cs : cs[k].tok = t
    BY DEF Follow
  <2>2. cs[1].tok \in Nat /\ t \in Nat /\ cs[1].tok <= t
    BY <1>2, <2>1
  <2>. QED
    BY <1>2, <2>2
<1>4. /\ c2 \in Seq(Frame(V)) /\ DOMAIN c2 = 1 .. Len(cs) - 1
      /\ \A k \in 1 .. Len(cs) - 1 : c2[k] = cs[k + 1]
  BY <1>1, <1>2
<1>. HIDE DEF c2
<1>5. \A k \in DOMAIN c2 : k \in Nat /\ k >= 1 /\ k + 1 \in DOMAIN cs /\ c2[k] = cs[k + 1]
  BY <1>2, <1>4
<1>6. \A j, k \in DOMAIN cs : j < k => cs[k].tok < cs[j].tok
  BY DEF Follow
<1>7. ASSUME NEW x PROVE x \in A \ {t} <=> \E k \in DOMAIN c2 : c2[k].tok = x
  <2>1. x \in A <=> \E k \in DOMAIN cs : cs[k].tok = x
    BY DEF Follow
  <2>2. ASSUME NEW k \in DOMAIN cs, k # 1 PROVE k - 1 \in DOMAIN c2 /\ c2[k - 1] = cs[k]
    BY <1>2, <1>4, <2>2
  <2>3. ASSUME NEW k \in DOMAIN c2 PROVE cs[k + 1].tok # t
    <3>1. 1 \in DOMAIN cs /\ k + 1 \in DOMAIN cs /\ 1 < k + 1
      BY <1>2, <1>5
    <3>2. cs[k + 1].tok < cs[1].tok /\ cs[k + 1].tok \in Nat /\ cs[1].tok \in Nat
      BY <1>2, <1>6, <3>1
    <3>. QED
      BY <1>3, <3>2
  <2>. QED
    BY <1>3, <1>5, <2>1, <2>2, <2>3
<1>8. ASSUME NEW j \in DOMAIN c2, NEW k \in DOMAIN c2, j < k PROVE c2[k].tok < c2[j].tok
  <2>1. j + 1 < k + 1
    BY <1>5, <1>8
  <2>. QED
    BY <1>5, <1>6, <2>1
<1>9. Follow(A \ {t}, c2)
  BY <1>4, <1>7, <1>8 DEF Follow
<1>. QED
  BY <1>9 DEF c2

\* The locals of the call on top change.
LEMMA FollowEdited ==
  ASSUME NEW A, NEW cs, Follow(A, cs), NEW c2, NEW r, NEW o, NEW l,
         c2 = [cs EXCEPT ![1] = [tok |-> cs[1].tok, ret |-> r, op |-> o, list |-> l]]
  PROVE  Follow(A, c2)
<1>1. PICK V : cs \in Seq(Frame(V))
  BY DEF Follow
<1>2. /\ Len(cs) \in Nat /\ DOMAIN cs = 1 .. Len(cs) /\ \A k \in DOMAIN cs : cs[k].tok \in Nat
  BY FollowIs
<1>. DEFINE W == V \cup {r, o, l}
            c == [tok |-> cs[1].tok, ret |-> r, op |-> o, list |-> l]
<1>3. cs \in Seq(Frame(W)) /\ (1 \in DOMAIN cs => c \in Frame(W)) /\ c.tok = cs[1].tok
  <2>1. \A f \in Frame(V) : f \in Frame(W)
    BY DEF Frame
  <2>2. (1 \in DOMAIN cs => c \in Frame(W)) /\ c.tok = cs[1].tok
    BY <1>2 DEF Frame
  <2>. HIDE DEF c, W
  <2>3. cs \in Seq(Frame(W))
    BY <1>1, <2>1
  <2>. QED
    BY <2>2, <2>3
<1>4. c2 = [cs EXCEPT ![1] = c]
  OBVIOUS
<1>. HIDE DEF c, W
<1>5. /\ c2 \in Seq(Frame(W)) /\ DOMAIN c2 = DOMAIN cs
      /\ \A k \in DOMAIN cs : c2[k] = IF k = 1 THEN c ELSE cs[k]
  <2>1. DOMAIN c2 = DOMAIN cs /\ \A k \in DOMAIN cs : c2[k] = IF k = 1 THEN c ELSE cs[k]
    BY <1>2, <1>4
  <2>2. \A k \in DOMAIN cs : c2[k] \in Frame(W)
    BY <1>3, <2>1
  <2>3. c2 \in [1 .. Len(cs) -> Frame(W)]
    <3>1. c2 = [k \in DOMAIN cs |-> c2[k]]
      BY <1>4
    <3>. QED
      BY <1>2, <2>1, <2>2, <3>1
  <2>4. c2 \in Seq(Frame(W))
    <3>1. PICK n \in Nat : n = Len(cs)
      BY <1>2
    <3>2. c2 \in [1 .. n -> Frame(W)]
      BY <2>3, <3>1
    <3>. QED
      BY <3>2, SeqDef
  <2>. QED
    BY <2>1, <2>4
<1>6. \A k \in DOMAIN cs : c2[k].tok = cs[k].tok
  BY <1>3, <1>5
<1>. QED
  BY <1>5, <1>6 DEF Follow

-----------------------------------------------------------------------------
(* Names. *)

LEMMA MinOfIs ==
  ASSUME NEW S, S \subseteq Nat, S # {}
  PROVE  MinOf(S) \in S /\ \A n \in S : MinOf(S) <= n
<1>1. PICK m \in S : \A n \in S : ~(<<n, m>> \in OpToRel(<, Nat))
  BY WFMin, NatLessThanWellFounded, Zenon
<1>2. \A n \in S : ~(n < m)
  BY <1>1 DEF OpToRel
<1>3. \A n \in S : n \in Nat /\ m \in Nat
  BY <1>1
<1>4. m \in S /\ \A n \in S : m <= n
  BY <1>2, <1>3
<1>. QED
  BY <1>4 DEF MinOf

\* What the walk has entered of a name in the scopes around token i, and the last of it
\* in the innermost of them.
Seen(file, i, name) ==
  {b \in Entries(file) : b.text = name /\ b.scope \in Scopes(file, i) /\ b.done <= i}
Innermost(B) == {b \in B : \A c \in B : c.scope <= b.scope}
LastOf(B) == (CHOOSE b \in Innermost(B) : \A c \in Innermost(B) : c.done <= b.done).decl
Entered(file, i, name) == IF Seen(file, i, name) = {} THEN 0 ELSE LastOf(Seen(file, i, name))

LEMMA EnteredIs ==
  ASSUME NEW file, NEW i, NEW name
  PROVE  /\ Seen(file, i, name) = {} => Entered(file, i, name) = 0
         /\ Seen(file, i, name) # {} =>
              LET inner == {b \in Seen(file, i, name) :
                              \A c \in Seen(file, i, name) : c.scope <= b.scope}
              IN Entered(file, i, name) = (CHOOSE b \in inner : \A c \in inner : c.done <= b.done).decl
BY DEF Entered, Seen, LastOf, Innermost

\* The first map that has the name is the one of the innermost scope that knows it.
LEMMA ResolvedIsEntered ==
  ASSUME src \in Seq(Token), ParseTree(src), at \in Nat,
         NEW ss, Mirrors(src, Scopes(src, at), at, symtbl, ss), NEW name \in Names
  PROVE  Resolve(name) = Entered(src, at, name)
<1>. DEFINE K(k) == Known(src, at, ss[k], name)
            has == {k \in DOMAIN symtbl : symtbl[k][name] # 0}
            seen == Seen(src, at, name)
            inner == {b \in seen : \A c \in seen : c.scope <= b.scope}
<1>1. /\ Len(ss) \in Nat /\ DOMAIN ss = 1 .. Len(ss) /\ DOMAIN symtbl = 1 .. Len(ss)
      /\ \A k \in DOMAIN ss : ss[k] \in Nat
  BY MirrorsAre
<1>2. ASSUME NEW k \in DOMAIN ss PROVE symtbl[k][name] = Latest(K(k))
  BY DEF Mirrors
<1>3. ASSUME NEW k \in DOMAIN ss, K(k) # {} PROVE Latest(K(k)) # 0
  <2>. DEFINE B == K(k)
  <2>1. B \subseteq Entries(src) /\ B # {} /\ \A b \in B : b.done <= at
    BY <1>3 DEF Known
  <2>. HIDE DEF B
  <2>2. Latest(B) # 0
    BY <2>1, LatestOfSome
  <2>. QED
    BY <2>2 DEF B
<1>4. ASSUME NEW k \in DOMAIN ss PROVE k \in has <=> K(k) # {}
  <2>1. k \in has <=> Latest(K(k)) # 0
    BY <1>1, <1>2
  <2>2. K(k) = {} => Latest(K(k)) = 0
    BY LatestOfNone
  <2>. QED
    BY <1>3, <2>1, <2>2
<1>5. ASSUME NEW b PROVE b \in seen <=> \E k \in DOMAIN ss : b \in K(k)
  <2>1. b.scope \in Scopes(src, at) <=> \E k \in DOMAIN ss : ss[k] = b.scope
    BY DEF Mirrors
  <2>. QED
    BY <2>1 DEF Seen, Known
<1>6. \A k \in DOMAIN ss : \A b \in K(k) : b.scope = ss[k]
  BY DEF Known
<1>7. \A j, k \in DOMAIN ss : j < k => ss[k] < ss[j]
  BY DEF Mirrors
<1>. HIDE DEF K, seen
<1>8. CASE has = {}
  <2>1. seen = {}
    BY <1>1, <1>4, <1>5, <1>8
  <2>2. Entered(src, at, name) = 0
    BY <2>1, EnteredIs DEF seen
  <2>3. Resolve(name) = 0
    BY <1>8 DEF Resolve
  <2>. QED
    BY <2>2, <2>3
<1>9. CASE has # {}
  <2>. DEFINE m == MinOf(has)
  <2>1. has \subseteq Nat
    BY <1>1
  <2>. HIDE DEF has
  <2>2. m \in has /\ \A k \in has : m <= k
    BY <1>9, <2>1, MinOfIs
  <2>. HIDE DEF m
  <2>3. m \in DOMAIN ss
    BY <1>1, <2>2 DEF has
  <2>4. K(m) # {} /\ \A b \in K(m) : b \in seen
    BY <1>4, <1>5, <2>2, <2>3
  <2>5. ASSUME NEW k \in DOMAIN ss, NEW b \in K(k) PROVE b.scope <= ss[m] /\ (b.scope = ss[m] => k = m)
    <3>1. m <= k /\ b.scope = ss[k]
      BY <1>4, <1>6, <2>2, <2>5
    <3>2. m < k => ss[k] < ss[m]
      BY <1>7, <2>3
    <3>3. m \in Nat /\ k \in Nat /\ ss[m] \in Nat /\ ss[k] \in Nat
      BY <1>1, <2>3
    <3>. QED
      BY <3>1, <3>2, <3>3
  <2>6. inner = K(m)
    <3>1. \A b \in K(m) : b \in seen /\ b.scope = ss[m] /\ \A c \in seen : c.scope <= b.scope
      BY <1>5, <1>6, <2>3, <2>4, <2>5
    <3>2. ASSUME NEW b \in seen, \A c \in seen : c.scope <= b.scope PROVE b \in K(m)
      <4>1. PICK k \in DOMAIN ss : b \in K(k)
        BY <1>5
      <4>2. PICK c \in K(m) : c \in seen /\ c.scope = ss[m]
        BY <2>4, <3>1
      <4>3. ss[m] <= b.scope /\ b.scope = ss[k] /\ b.scope <= ss[m] /\ ss[m] \in Nat /\ ss[k] \in Nat
        BY <1>1, <1>6, <2>3, <2>5, <3>2, <4>1, <4>2
      <4>4. k = m
        BY <2>5, <4>1, <4>3
      <4>. QED
        BY <4>1, <4>4
    <3>. QED
      BY <3>1, <3>2
  <2>7. Entered(src, at, name) = (CHOOSE b \in inner : \A c \in inner : c.done <= b.done).decl
    <3>1. seen # {}
      BY <2>4
    <3>. QED
      BY <3>1, EnteredIs DEF seen
  <2>. HIDE DEF inner
  <2>8. Entered(src, at, name) = Latest(K(m))
    BY <2>4, <2>6, <2>7 DEF Latest
  <2>9. Resolve(name) = symtbl[m][name]
    BY <1>9 DEF Resolve, has, m
  <2>. QED
    BY <1>2, <2>3, <2>8, <2>9
<1>. QED
  BY <1>8, <1>9

-----------------------------------------------------------------------------
(* The inductive invariant.                                                *)

\* The calls in progress are those of the subtrees around the next token, and the
\* chain of maps has what the scopes around it know.
Walk ==
  /\ src \in Sources
  /\ at \in 1 .. Len(src) + 1
  /\ Follow(Around(src, at), calls)
  /\ \E ss : Mirrors(src, Scopes(src, at), at, symtbl, ss)

\* How the table of a step is to be.
Mirrored(i, table) == \E ss : Mirrors(src, Scopes(src, i), i, table, ss)

LEMMA FilesAre ==
  ASSUME Walk
  PROVE  /\ src \in Seq(Token) /\ ParseTree(src) /\ at \in Nat /\ Len(src) \in Nat
         /\ DOMAIN src = 1 .. Len(src)
         /\ at <= Len(src) => at \in DOMAIN src
         /\ Mirrored(at, symtbl)
<1>1. src \in Seq(Token) /\ ParseTree(src)
  BY SourcesAssumption DEF Walk
<1>2. Len(src) \in Nat /\ DOMAIN src = 1 .. Len(src)
  BY <1>1, TokensAre
<1>3. at \in Nat /\ (at <= Len(src) => at \in DOMAIN src)
  BY <1>2 DEF Walk
<1>. QED
  BY <1>1, <1>2, <1>3 DEF Walk, Mirrored

\* The call on top is the one of the innermost subtree.
LEMMA TopIs ==
  ASSUME Walk, NEW o \in Around(src, at), \A p \in Around(src, at) : p <= o
  PROVE  Top.tok = o
<1>1. Follow(Around(src, at), calls)
  BY DEF Walk
<1>2. o \in Nat
  BY FilesAre, OpensAre DEF Around
<1>3. calls[1].tok \in Nat /\ calls[1].tok \in Around(src, at) /\ \A p \in Around(src, at) : p <= calls[1].tok
  BY <1>1, FollowIs
<1>. QED
  BY <1>2, <1>3 DEF Top

LEMMA CallIs ==
  ASSUME NEW ret
  PROVE  \E r, o, l : Call(ret) = [tok |-> at, ret |-> r, op |-> o, list |-> l]
BY Zenon DEF Call

LEMMA BeginFollows ==
  ASSUME Walk, at <= Len(src), src[at].kind \in DOMAIN Closes, NEW ret, Begin(ret)
  PROVE  Follow(Around(src, at + 1), calls')
<1>1. src \in Seq(Token) /\ ParseTree(src) /\ at \in Opens(src) /\ at \in Nat
  BY FilesAre DEF Opens
<1>2. Around(src, at + 1) = Around(src, at) \cup {at}
  BY <1>1, AroundAfterOpen
<1>3. \A o \in Around(src, at) : o < at
  BY DEF Around
<1>4. PICK r, o, l : Call(ret) = [tok |-> at, ret |-> r, op |-> o, list |-> l]
  BY CallIs
<1>5. calls' = <<[tok |-> at, ret |-> r, op |-> o, list |-> l]>> \o calls
  BY <1>4 DEF Begin
<1>6. Follow(Around(src, at), calls)
  BY DEF Walk
<1>. QED
  BY <1>1, <1>2, <1>3, <1>5, <1>6, FollowCalled

LEMMA ReturnFollows ==
  ASSUME Walk, at <= Len(src), src[at].kind \in EndKinds
  PROVE  /\ Pair(src, Top.tok, at)
         /\ Return => Follow(Around(src, at + 1), calls')
<1>1. src \in Seq(Token) /\ ParseTree(src) /\ at \in Ends(src)
  BY FilesAre, EndsAre
<1>2. PICK o \in Opens(src) : Pair(src, o, at)
  BY <1>1, EndsHaveOpens
<1>3. o \in Around(src, at) /\ \A p \in Around(src, at) : p <= o
  BY <1>2 DEF Pair
<1>4. Top.tok = o
  BY <1>3, TopIs
<1>5. Around(src, at + 1) = Around(src, at) \ {o}
  BY <1>1, <1>2, AroundAfterEnd
<1>6. Follow(Around(src, at), calls)
  BY DEF Walk
<1>7. Follow(Around(src, at) \ {o}, Tail(calls))
  BY <1>3, <1>6, FollowReturned
<1>. QED
  BY <1>2, <1>4, <1>5, <1>7 DEF Return

\* What neither opens nor closes a subtree.
OtherKinds == {"op", "arg", "item", "lit", "ref", "sig", "break", "continue", "null", "again", "init"}

LEMMA OthersAre ==
  ASSUME Walk, at <= Len(src), src[at].kind \in OtherKinds
  PROVE  Around(src, at + 1) = Around(src, at)
<1>1. src \in Seq(Token) /\ ParseTree(src) /\ at \in DOMAIN src
  BY FilesAre
<1>2. at \notin Opens(src)
  BY KindsAre DEF Opens, OtherKinds
<1>3. at \notin Ends(src)
  BY EndsAre DEF EndKinds, OtherKinds
<1>. QED
  BY <1>1, <1>2, <1>3, AroundAfterOther

LEMMA StayFollows ==
  ASSUME Walk, at <= Len(src), src[at].kind \in OtherKinds, calls' = calls
  PROVE  Follow(Around(src, at + 1), calls')
BY OthersAre DEF Walk

LEMMA EditFollows ==
  ASSUME Walk, at <= Len(src), src[at].kind \in OtherKinds,
         NEW f, calls' = [calls EXCEPT ![1] = f],
         NEW r, NEW o, NEW l,
         \/ f = [calls[1] EXCEPT !.ret = r, !.op = o]
         \/ f = [calls[1] EXCEPT !.list = l]
  PROVE  Follow(Around(src, at + 1), calls')
<1>1. Follow(Around(src, at), calls)
  BY DEF Walk
<1>2. PICK V : calls \in Seq(Frame(V))
  BY <1>1 DEF Follow
<1>3. Follow(Around(src, at), calls')
  <2>1. CASE 1 \in DOMAIN calls
    <3>1. calls[1] \in Frame(V)
      BY <1>2, <2>1
    <3>2. \E r2, o2, l2 : f = [tok |-> calls[1].tok, ret |-> r2, op |-> o2, list |-> l2]
      <4>1. f = [calls[1] EXCEPT !.ret = r, !.op = o] =>
              f = [tok |-> calls[1].tok, ret |-> r, op |-> o, list |-> calls[1].list]
        BY <3>1 DEF Frame
      <4>2. f = [calls[1] EXCEPT !.list = l] =>
              f = [tok |-> calls[1].tok, ret |-> calls[1].ret, op |-> calls[1].op, list |-> l]
        BY <3>1 DEF Frame
      <4>. QED
        BY <4>1, <4>2
    <3>. QED
      BY <1>1, <3>2, FollowEdited
  <2>2. CASE 1 \notin DOMAIN calls
    <3>1. calls' = calls
      BY <1>2, <2>2
    <3>. QED
      BY <1>1, <3>1
  <2>. QED
    BY <2>1, <2>2
<1>. QED
  BY <1>3, OthersAre

\* The steps of the table.
LEMMA TableStays ==
  ASSUME Walk, at <= Len(src),
         src[at].kind \notin {"sig", "block", "endblock", "endvar", "endproto", "endpdecl", "endfdef"}
  PROVE  Mirrored(at + 1, symtbl)
<1>1. src \in Seq(Token) /\ ParseTree(src) /\ at \in Nat /\ at \in DOMAIN src
  BY FilesAre
<1>2. PICK ss : Mirrors(src, Scopes(src, at), at, symtbl, ss)
  BY DEF Walk
<1>3. Begins(src, at) = {}
  BY <1>1, NothingBegins
<1>4. Mirrors(src, Scopes(src, at), at + 1, symtbl, ss)
  BY <1>1, <1>2, <1>3, MirrorsWithout
<1>5. Scopes(src, at + 1) = Scopes(src, at)
  BY <1>1, ScopesAfterOther
<1>. QED
  BY <1>4, <1>5 DEF Mirrored

LEMMA TableDeclares ==
  ASSUME Walk, at <= Len(src), src[at].kind \in {"endvar", "endproto", "endpdecl"}
  PROVE  Mirrored(at + 1, Declare(symtbl, src[Top.tok].text, Top.tok))
<1>. DEFINE o == Top.tok
            b == OfDeclarator(src, o)
<1>1. src \in Seq(Token) /\ ParseTree(src) /\ at \in Nat /\ at \in DOMAIN src
  BY FilesAre
<1>2. PICK ss : Mirrors(src, Scopes(src, at), at, symtbl, ss)
  BY DEF Walk
<1>3. Pair(src, o, at)
  BY ReturnFollows DEF EndKinds
<1>. HIDE DEF o
<1>4. o \in Opens(src) /\ o < at /\ src[o].next = at + 1 /\ src[at].kind = Closes[src[o].kind]
      /\ src[o].kind \in DOMAIN Closes
  BY <1>3 DEF Pair, Opens
<1>5. src[o].kind \in {"var", "proto", "pdecl"}
  BY <1>4, KindsAre
<1>6. Begins(src, at) = {b}
  <2>1. Begins(src, at) = {Ended(src, o)}
    BY <1>1, <1>3, <1>5, DeclarationBegins
  <2>. QED
    BY <1>5, <2>1 DEF Ended
<1>7. Scopes(src, at) = Scopes(src, o)
  <2>1. o <= at /\ at < src[o].next
    BY <1>1, <1>4, OpensAre
  <2>. QED
    BY <1>1, <1>4, <1>5, <2>1, ScopesAcross
<1>8. b.text = src[o].text /\ b.decl = o /\ b.scope = MaxOf(Scopes(src, at))
  BY <1>7 DEF OfDeclarator, Bind
<1>. HIDE DEF b
<1>9. b.scope \in Scopes(src, at) /\ \A s \in Scopes(src, at) : s <= b.scope
  BY <1>1, <1>8, InnermostScope
<1>10. Mirrors(src, Scopes(src, at), at + 1, Declare(symtbl, b.text, b.decl), ss)
  BY <1>1, <1>2, <1>6, <1>9, MirrorsDeclared
<1>11. Scopes(src, at + 1) = Scopes(src, at)
  BY <1>1, ScopesAfterOther
<1>. QED
  BY <1>8, <1>10, <1>11 DEF Mirrored, o

\* A new map for the scope that at opens.
LEMMA ScopeOpens ==
  ASSUME Walk, IsScope(src, at), NEW ss, Mirrors(src, Scopes(src, at), at, symtbl, ss)
  PROVE  Mirrors(src, Scopes(src, at + 1), at, OpenScope, <<at>> \o ss)
<1>1. src \in Seq(Token) /\ ParseTree(src) /\ at \in Nat /\ at \in DOMAIN src
  BY FilesAre DEF IsScope
<1>2. \A s \in Scopes(src, at) : s < at
  BY <1>1, InnermostScope
<1>3. \A name : Known(src, at, at, name) = {}
  BY <1>1, KnownInNewScope
<1>4. Mirrors(src, Scopes(src, at) \cup {at}, at, <<NoDecls>> \o symtbl, <<at>> \o ss)
  BY <1>1, <1>2, <1>3, MirrorsPushed
<1>5. Scopes(src, at + 1) = Scopes(src, at) \cup {at}
  BY <1>1, ScopesAfterScope
<1>. QED
  BY <1>4, <1>5 DEF OpenScope

LEMMA TableOpens ==
  ASSUME Walk, at <= Len(src), src[at].kind = "block"
  PROVE  Mirrored(at + 1, OpenScope)
<1>1. src \in Seq(Token) /\ ParseTree(src) /\ at \in Nat /\ at \in DOMAIN src /\ IsScope(src, at)
  BY FilesAre DEF IsScope
<1>2. PICK ss : Mirrors(src, Scopes(src, at), at, symtbl, ss)
  BY DEF Walk
<1>3. Mirrors(src, Scopes(src, at + 1), at, OpenScope, <<at>> \o ss)
  BY <1>1, <1>2, ScopeOpens
<1>4. Begins(src, at) = {}
  BY <1>1, NothingBegins
<1>5. Mirrors(src, Scopes(src, at + 1), at + 1, OpenScope, <<at>> \o ss)
  BY <1>1, <1>3, <1>4, MirrorsWithout
<1>. QED
  BY <1>5 DEF Mirrored

LEMMA TableEnters ==
  ASSUME Walk, at <= Len(src), src[at].kind = "sig"
  PROVE  Mirrored(at + 1, Declare(OpenScope, src[Top.tok].text, Top.tok))
<1>1. src \in Seq(Token) /\ ParseTree(src) /\ at \in Nat /\ at \in DOMAIN src /\ IsScope(src, at)
      /\ at \in Signatures(src)
  BY FilesAre DEF IsScope, Signatures
<1>2. PICK ss : Mirrors(src, Scopes(src, at), at, symtbl, ss)
  BY DEF Walk
<1>3. Mirrors(src, Scopes(src, at + 1), at, OpenScope, <<at>> \o ss)
  BY <1>1, <1>2, ScopeOpens
<1>4. PICK f : SignatureOf(src, at, f)
  BY <1>1, SignaturesHaveFunctions
<1>5. Top.tok = f
  <2>1. f \in Around(src, at) /\ \A p \in Around(src, at) : p <= f
    BY <1>4 DEF SignatureOf, Around
  <2>. QED
    BY <2>1, TopIs
<1>. DEFINE b == OfSignature(src, at, f)
<1>6. Begins(src, at) = {b}
  BY <1>1, <1>4, SignatureBegins
<1>7. b.text = src[f].text /\ b.decl = f /\ b.scope = at
  BY DEF OfSignature, Bind
<1>. HIDE DEF b
<1>8. b.scope \in Scopes(src, at + 1) /\ \A s \in Scopes(src, at + 1) : s <= b.scope
  <2>1. Scopes(src, at + 1) = Scopes(src, at) \cup {at}
    BY <1>1, ScopesAfterScope
  <2>2. \A s \in Scopes(src, at) : s \in Nat /\ s < at
    BY <1>1, InnermostScope
  <2>. QED
    BY <1>1, <1>7, <2>1, <2>2
<1>9. Mirrors(src, Scopes(src, at + 1), at + 1, Declare(OpenScope, b.text, b.decl), <<at>> \o ss)
  BY <1>1, <1>3, <1>6, <1>8, MirrorsDeclared
<1>. QED
  BY <1>5, <1>7, <1>9 DEF Mirrored

LEMMA TableCloses ==
  ASSUME Walk, at <= Len(src), src[at].kind = "endblock"
  PROVE  Mirrored(at + 1, CloseScope)
<1>1. src \in Seq(Token) /\ ParseTree(src) /\ at \in Nat /\ at \in DOMAIN src
  BY FilesAre
<1>2. PICK ss : Mirrors(src, Scopes(src, at), at, symtbl, ss)
  BY DEF Walk
<1>3. Pair(src, Top.tok, at)
  BY ReturnFollows DEF EndKinds
<1>. DEFINE o == Top.tok
<1>4. /\ Scopes(src, at + 1) = Scopes(src, at) \ {o}
      /\ o \in Scopes(src, at) /\ \A s \in Scopes(src, at) : s <= o
  BY <1>1, <1>3, ScopesAfterBlock
<1>. HIDE DEF o
<1>5. Begins(src, at) = {}
  BY <1>1, NothingBegins
<1>6. Mirrors(src, Scopes(src, at), at + 1, symtbl, ss)
  BY <1>1, <1>2, <1>5, MirrorsWithout
<1>7. Mirrors(src, Scopes(src, at) \ {o}, at + 1, Tail(symtbl), Tail(ss))
  BY <1>4, <1>6, MirrorsPopped
<1>. QED
  BY <1>4, <1>7 DEF Mirrored, CloseScope

LEMMA TableLeaves ==
  ASSUME Walk, at <= Len(src), src[at].kind = "endfdef"
  PROVE  Mirrored(at + 1, Declare(CloseScope, src[Top.tok].text, Top.tok))
<1>. DEFINE f == Top.tok
            b == OfFunction(src, f)
<1>1. src \in Seq(Token) /\ ParseTree(src) /\ at \in Nat /\ at \in DOMAIN src
  BY FilesAre
<1>2. PICK ss : Mirrors(src, Scopes(src, at), at, symtbl, ss)
  BY DEF Walk
<1>3. Pair(src, f, at)
  BY ReturnFollows DEF EndKinds
<1>. HIDE DEF f
<1>4. src[f].kind = "fdef"
  <2>1. src[at].kind = Closes[src[f].kind] /\ src[f].kind \in DOMAIN Closes
    BY <1>3 DEF Pair, Opens
  <2>. QED
    BY <2>1, KindsAre
<1>5. Begins(src, at) = {b}
  <2>1. Begins(src, at) = {Ended(src, f)}
    BY <1>1, <1>3, <1>4, DeclarationBegins
  <2>. QED
    BY <1>4, <2>1 DEF Ended
<1>6. b.text = src[f].text /\ b.decl = f /\ b.scope = 0
  BY DEF OfFunction, Bind
<1>. HIDE DEF b
<1>7. Scopes(src, at + 1) = {0}
  BY <1>1, <1>3, ScopesAfterFunction
<1>8. PICK s : s > 0 /\ Scopes(src, at) = {0, s}
  BY <1>1, <1>3, ScopesAfterFunction
<1>9. s \in Nat
  BY <1>1, <1>8, InnermostScope
<1>10. Scopes(src, at) \ {s} = {0} /\ s \in Scopes(src, at) /\ \A t \in Scopes(src, at) : t <= s
  BY <1>8, <1>9
<1>11. Mirrors(src, Scopes(src, at) \ {s}, at, CloseScope, Tail(ss))
  BY <1>2, <1>10, MirrorsPopped DEF CloseScope
<1>12. Mirrors(src, {0}, at, CloseScope, Tail(ss))
  BY <1>10, <1>11
<1>13. Mirrors(src, {0}, at + 1, Declare(CloseScope, b.text, b.decl), Tail(ss))
  BY <1>1, <1>5, <1>6, <1>12, MirrorsDeclared
<1>. QED
  BY <1>6, <1>7, <1>13 DEF Mirrored, f

\* Nothing begins to bind within a list.
LEMMA ListsBindNothing ==
  ASSUME NEW file \in Seq(Token), ParseTree(file), NEW l \in Opens(file), file[l].kind = "list",
         NEW b \in Entries(file)
  PROVE  b.done <= l \/ file[l].next <= b.done
<1>1. l \in Nat /\ file[l].next \in Nat
  BY OpensAre
<1>2. \A i \in l + 1 .. file[l].next - 1 : file[i].kind \notin Declares
  BY DEF ParseTree, Flat
<1>3. ASSUME NEW d \in Opens(file), file[d].kind \in {"var", "proto", "pdecl", "fdef"}, b.done = file[d].next
      PROVE  b.done <= l \/ file[l].next <= b.done
  <2>1. d \in Nat /\ file[d].next \in Nat /\ d # l
    BY <1>3, OpensAre
  <2>2. d < l /\ l < file[d].next => file[l].next < file[d].next
    BY <1>3 DEF ParseTree, Nested
  <2>3. ~(l < d /\ d < file[l].next)
    <3>1. ASSUME l < d, d < file[l].next PROVE FALSE
      <4>1. d \in l + 1 .. file[l].next - 1
        BY <1>1, <2>1, <3>1
      <4>. QED
        BY <1>2, <1>3, <4>1 DEF Declares
    <3>. QED
      BY <3>1
  <2>4. d + 2 <= file[d].next
    BY <1>3, OpensAre
  <2>. QED
    BY <1>1, <1>3, <2>1, <2>2, <2>3, <2>4
<1>4. ASSUME NEW s, NEW f, SignatureOf(file, s, f), b.done = s + 1
      PROVE  b.done <= l \/ file[l].next <= b.done
  <2>1. s \in DOMAIN file /\ file[s].kind = "sig"
    BY <1>4 DEF SignatureOf, Signatures
  <2>2. s \in Nat
    BY <2>1, TokensAre
  <2>3. s # l
    BY <2>1
  <2>4. ~(l < s /\ s < file[l].next)
    <3>1. ASSUME l < s, s < file[l].next PROVE FALSE
      <4>1. s \in l + 1 .. file[l].next - 1
        BY <1>1, <2>2, <3>1
      <4>. QED
        BY <1>2, <2>1, <4>1 DEF Declares
    <3>. QED
      BY <3>1
  <2>. QED
    BY <1>1, <1>4, <2>2, <2>3, <2>4
<1>5. CASE \E d : IsDeclarator(file, d) /\ b = OfDeclarator(file, d)
  BY <1>3, <1>5 DEF IsDeclarator, OfDeclarator, Bind
<1>6. CASE \E s, f : SignatureOf(file, s, f) /\ b = OfSignature(file, s, f)
  BY <1>4, <1>6 DEF OfSignature, Bind
<1>7. CASE \E f : IsFunction(file, f) /\ b = OfFunction(file, f)
  BY <1>3, <1>7 DEF IsFunction, OfFunction, Bind
<1>. QED
  BY <1>5, <1>6, <1>7, EntriesAre

\* The rest of a list can be left out: where it ends the same is known.
LEMMA ListEnds ==
  ASSUME Walk, at <= Len(src), src[at].kind = "op"
  PROVE  LET j == src[Top.tok].next - 1
         IN /\ at <= j /\ j \in 1 .. Len(src)
            /\ Top.tok \in Opens(src) /\ src[Top.tok].kind = "list" /\ Top.tok < at
            /\ Follow(Around(src, j), calls)
            /\ Mirrored(j, symtbl)
<1>1. src \in Seq(Token) /\ ParseTree(src) /\ at \in Nat /\ at \in DOMAIN src /\ Len(src) \in Nat
  BY FilesAre
<1>2. PICK l \in Around(src, at) : src[l].kind = "list" /\ \A p \in Around(src, at) : p <= l
  BY <1>1 DEF ParseTree, Flat, Parent
<1>3. Top.tok = l
  BY <1>2, TopIs
<1>4. l \in Opens(src) /\ l < at /\ at < src[l].next
  BY <1>2 DEF Around
<1>5. l \in Nat /\ src[l].next \in Nat /\ l + 2 <= src[l].next /\ src[l].next <= Len(src) + 1
  BY <1>1, <1>4, OpensAre
<1>. DEFINE j == src[l].next - 1
<1>6. at <= j /\ j \in 1 .. Len(src) /\ j \in Nat /\ l <= j /\ j < src[l].next /\ l <= at
  BY <1>1, <1>4, <1>5
<1>7. Follow(Around(src, j), calls)
  <2>1. Around(src, j) = Around(src, at)
    BY <1>1, <1>2, AroundEndOfList
  <2>. QED
    BY <2>1 DEF Walk
<1>8. Mirrored(j, symtbl)
  <2>1. Scopes(src, j) = Scopes(src, l) /\ Scopes(src, at) = Scopes(src, l)
    <3>. HIDE DEF j
    <3>1. Scopes(src, j) = Scopes(src, l)
      BY <1>1, <1>2, <1>4, <1>6, ScopesAcross
    <3>2. Scopes(src, at) = Scopes(src, l)
      BY <1>1, <1>2, <1>4, <1>6, ScopesAcross
    <3>. QED
      BY <3>1, <3>2
  <2>2. PICK ss : Mirrors(src, Scopes(src, at), at, symtbl, ss)
    BY DEF Walk
  <2>3. ASSUME NEW b \in Entries(src) PROVE b.done <= j <=> b.done <= at
    <3>1. b.done <= l \/ src[l].next <= b.done
      BY <1>1, <1>2, <1>4, ListsBindNothing
    <3>2. b.done \in Nat
      BY <1>1, EntriesHave
    <3>. QED
      BY <1>1, <1>4, <1>5, <3>1, <3>2
  <2>. HIDE DEF j
  <2>4. \A s \in Scopes(src, at) : \A name : Known(src, j, s, name) = Known(src, at, s, name)
    BY <2>3 DEF Known
  <2>5. Mirrors(src, Scopes(src, at), j, symtbl, ss)
    BY <2>2, <2>4, MirrorsLater
  <2>. QED
    BY <2>1, <2>5 DEF Mirrored
<1>. QED
  BY <1>2, <1>3, <1>4, <1>6, <1>7, <1>8

\* A step that visits one token.
LEMMA WalkMoves ==
  ASSUME Walk, NEW j, j \in 1 .. Len(src) + 1, src' = src, at' = j,
         Follow(Around(src, j), calls'), Mirrored(j, symtbl')
  PROVE  Walk'
BY DEF Walk, Mirrored

LEMMA WalkVisits ==
  ASSUME Walk, at <= Len(src), src' = src, at' = at + 1,
         Follow(Around(src, at + 1), calls'), Mirrored(at + 1, symtbl')
  PROVE  Walk'
<1>1. at + 1 \in 1 .. Len(src) + 1
  BY FilesAre DEF Walk
<1>. DEFINE j == at + 1
<1>2. j \in 1 .. Len(src) + 1 /\ at' = j /\ Follow(Around(src, j), calls') /\ Mirrored(j, symtbl')
  BY <1>1
<1>. HIDE DEF j
<1>. QED
  BY <1>2, WalkMoves

LEMMA WalkWaits ==
  ASSUME Walk, UNCHANGED <<src, at, calls, symtbl>>
  PROVE  Walk'
BY DEF Walk

LEMMA WalkBegins ==
  ASSUME Init
  PROVE  Walk
<1>1. src \in Sources /\ at = 1 /\ calls = <<>> /\ symtbl = <<NoDecls>>
  BY DEF Init
<1>2. src \in Seq(Token) /\ ParseTree(src)
  BY <1>1, SourcesAssumption
<1>3. Len(src) \in Nat /\ DOMAIN src = 1 .. Len(src)
  BY <1>2, TokensAre
<1>4. Around(src, 1) = {} /\ Scopes(src, 1) = {0}
  BY <1>3 DEF Around, Opens, Scopes
<1>5. Follow({}, <<>>)
  <2>1. <<>> \in Seq(Frame({}))
    OBVIOUS
  <2>. QED
    BY <2>1 DEF Follow
<1>6. \A name : Known(src, 1, 0, name) = {}
  <2>1. ASSUME NEW b \in Entries(src), b.done <= 1 PROVE FALSE
    <3>1. ASSUME NEW d \in Opens(src), b.done = src[d].next PROVE FALSE
      <4>1. d + 2 <= src[d].next /\ d \in 1 .. Len(src) /\ src[d].next \in Nat
        BY <1>2, <1>3, OpensAre
      <4>. QED
        BY <1>3, <2>1, <3>1, <4>1
    <3>2. ASSUME NEW s, NEW f, SignatureOf(src, s, f), b.done = s + 1 PROVE FALSE
      <4>1. s \in 1 .. Len(src)
        BY <1>3, <3>2 DEF SignatureOf, Signatures
      <4>. QED
        BY <1>3, <2>1, <3>2, <4>1
    <3>3. CASE \E d : IsDeclarator(src, d) /\ b = OfDeclarator(src, d)
      BY <3>1, <3>3 DEF IsDeclarator, OfDeclarator, Bind
    <3>4. CASE \E s, f : SignatureOf(src, s, f) /\ b = OfSignature(src, s, f)
      BY <3>2, <3>4 DEF OfSignature, Bind
    <3>5. CASE \E f : IsFunction(src, f) /\ b = OfFunction(src, f)
      BY <3>1, <3>5 DEF IsFunction, OfFunction, Bind
    <3>. QED
      BY <1>2, <3>3, <3>4, <3>5, EntriesAre
  <2>. QED
    BY <2>1 DEF Known
<1>7. Mirrors(src, {0}, 1, <<NoDecls>>, <<0>>)
  <2>1. \A name : Latest(Known(src, 1, 0, name)) = 0
    BY <1>6, LatestOfNone
  <2>2. <<NoDecls>> \in Seq([Names -> Nat]) /\ Len(<<NoDecls>>) = 1 /\ DOMAIN <<NoDecls>> = {1}
        /\ <<NoDecls>>[1] = NoDecls
    BY NoDeclsIs
  <2>3. <<0>> \in Seq(Nat) /\ Len(<<0>>) = 1 /\ DOMAIN <<0>> = {1} /\ <<0>>[1] = 0
    OBVIOUS
  <2>. DEFINE t == <<NoDecls>>
              z == <<0>>
  <2>4. /\ t \in Seq([Names -> Nat]) /\ Len(t) = 1 /\ t[1] = NoDecls
        /\ z \in Seq(Nat) /\ Len(z) = 1 /\ DOMAIN z = {1} /\ z[1] = 0
    BY <2>2, <2>3
  <2>. HIDE DEF t, z
  <2>5. Mirrors(src, {0}, 1, t, z)
    BY <2>1, <2>4, NoDeclsIs DEF Mirrors
  <2>. QED
    BY <2>5 DEF t, z
<1>8. Follow(Around(src, at), calls) /\ \E ss : Mirrors(src, Scopes(src, at), at, symtbl, ss)
  BY <1>1, <1>4, <1>5, <1>7
<1>9. at \in 1 .. Len(src) + 1
  BY <1>1, <1>3
<1>. QED
  BY <1>1, <1>8, <1>9 DEF Walk

LEMMA WalkIsInductive ==
  ASSUME Walk, [Next]_vars
  PROVE  Walk'
<1>1. CASE ListBegin
  <2>1. at <= Len(src) /\ src' = src /\ at' = at + 1
    BY <1>1 DEF ListBegin, Visits
  <2>2. src[at].kind \in DOMAIN Closes /\ \E ret : Begin(ret)
    BY <1>1, KindsAre, Zenon DEF ListBegin, Visits
  <2>3. Follow(Around(src, at + 1), calls')
    BY <2>1, <2>2, BeginFollows
  <2>4. symtbl' = symtbl /\ src[at].kind \notin {"sig", "block", "endblock", "endvar", "endproto", "endpdecl", "endfdef"}
    BY <1>1 DEF ListBegin, Visits
  <2>5. Mirrored(at + 1, symtbl')
    BY <2>1, <2>4, TableStays
  <2>. QED
    BY <2>1, <2>3, <2>5, WalkVisits
<1>2. CASE Operator
  <2>1. at <= Len(src) /\ src' = src /\ at' = at + 1
    BY <1>2 DEF Operator, Visits
  <2>2. src[at].kind \in OtherKinds
    BY <1>2 DEF Operator, Visits, OtherKinds
  <2>3. Follow(Around(src, at + 1), calls')
    <3>. DEFINE r == Combine(Top, val)
                o == NodeOp(src[at].text)
                f == [calls[1] EXCEPT !.ret = r, !.op = o]
    <3>1. calls' = [calls EXCEPT ![1] = f]
      BY <1>2 DEF Operator
    <3>. HIDE DEF r, o
    <3>. QED
      BY <2>1, <2>2, <3>1, EditFollows
  <2>4. symtbl' = symtbl /\ src[at].kind \notin {"sig", "block", "endblock", "endvar", "endproto", "endpdecl", "endfdef"}
    BY <1>2 DEF Operator, Visits
  <2>5. Mirrored(at + 1, symtbl')
    BY <2>1, <2>4, TableStays
  <2>. QED
    BY <2>1, <2>3, <2>5, WalkVisits
<1>3. CASE ListEnd
  <2>1. at <= Len(src) /\ src' = src /\ at' = at + 1
    BY <1>3 DEF ListEnd, Visits
  <2>2. src[at].kind \in EndKinds /\ Return
    BY <1>3 DEF ListEnd, Visits, EndKinds
  <2>3. Follow(Around(src, at + 1), calls')
    BY <2>1, <2>2, ReturnFollows
  <2>4. symtbl' = symtbl /\ src[at].kind \notin {"sig", "block", "endblock", "endvar", "endproto", "endpdecl", "endfdef"}
    BY <1>3 DEF ListEnd, Visits
  <2>5. Mirrored(at + 1, symtbl')
    BY <2>1, <2>4, TableStays
  <2>. QED
    BY <2>1, <2>3, <2>5, WalkVisits
<1>4. CASE BracketBegin
  <2>1. at <= Len(src) /\ src' = src /\ at' = at + 1
    BY <1>4 DEF BracketBegin, Visits
  <2>2. src[at].kind \in DOMAIN Closes /\ \E ret : Begin(ret)
    BY <1>4, KindsAre, Zenon DEF BracketBegin, Visits
  <2>3. Follow(Around(src, at + 1), calls')
    BY <2>1, <2>2, BeginFollows
  <2>4. symtbl' = symtbl /\ src[at].kind \notin {"sig", "block", "endblock", "endvar", "endproto", "endpdecl", "endfdef"}
    BY <1>4 DEF BracketBegin, Visits
  <2>5. Mirrored(at + 1, symtbl')
    BY <2>1, <2>4, TableStays
  <2>. QED
    BY <2>1, <2>3, <2>5, WalkVisits
<1>5. CASE UnaryEnd
  <2>1. at <= Len(src) /\ src' = src /\ at' = at + 1
    BY <1>5 DEF UnaryEnd, Visits
  <2>2. src[at].kind \in EndKinds /\ Return
    BY <1>5 DEF UnaryEnd, Visits, EndKinds
  <2>3. Follow(Around(src, at + 1), calls')
    BY <2>1, <2>2, ReturnFollows
  <2>4. symtbl' = symtbl /\ src[at].kind \notin {"sig", "block", "endblock", "endvar", "endproto", "endpdecl", "endfdef"}
    BY <1>5 DEF UnaryEnd, Visits
  <2>5. Mirrored(at + 1, symtbl')
    BY <2>1, <2>4, TableStays
  <2>. QED
    BY <2>1, <2>3, <2>5, WalkVisits
<1>6. CASE ParenEnd
  <2>1. at <= Len(src) /\ src' = src /\ at' = at + 1
    BY <1>6 DEF ParenEnd, Visits
  <2>2. src[at].kind \in EndKinds /\ Return
    BY <1>6 DEF ParenEnd, Visits, EndKinds
  <2>3. Follow(Around(src, at + 1), calls')
    BY <2>1, <2>2, ReturnFollows
  <2>4. symtbl' = symtbl /\ src[at].kind \notin {"sig", "block", "endblock", "endvar", "endproto", "endpdecl", "endfdef"}
    BY <1>6 DEF ParenEnd, Visits
  <2>5. Mirrored(at + 1, symtbl')
    BY <2>1, <2>4, TableStays
  <2>. QED
    BY <2>1, <2>3, <2>5, WalkVisits
<1>7. CASE IndexEnd
  <2>1. at <= Len(src) /\ src' = src /\ at' = at + 1
    BY <1>7 DEF IndexEnd, Visits
  <2>2. src[at].kind \in EndKinds /\ Return
    BY <1>7 DEF IndexEnd, Visits, EndKinds
  <2>3. Follow(Around(src, at + 1), calls')
    BY <2>1, <2>2, ReturnFollows
  <2>4. symtbl' = symtbl /\ src[at].kind \notin {"sig", "block", "endblock", "endvar", "endproto", "endpdecl", "endfdef"}
    BY <1>7 DEF IndexEnd, Visits
  <2>5. Mirrored(at + 1, symtbl')
    BY <2>1, <2>4, TableStays
  <2>. QED
    BY <2>1, <2>3, <2>5, WalkVisits
<1>8. CASE Argument
  <2>1. at <= Len(src) /\ src' = src /\ at' = at + 1
    BY <1>8 DEF Argument, Visits
  <2>2. src[at].kind \in OtherKinds
    BY <1>8 DEF Argument, Visits, OtherKinds
  <2>3. Follow(Around(src, at + 1), calls')
    <3>. DEFINE l == Append(calls[1].list, val)
                f == [calls[1] EXCEPT !.list = l]
    <3>1. calls' = [calls EXCEPT ![1] = f]
      BY <1>8 DEF Argument
    <3>. HIDE DEF l
    <3>. QED
      BY <2>1, <2>2, <3>1, EditFollows
  <2>4. symtbl' = symtbl /\ src[at].kind \notin {"sig", "block", "endblock", "endvar", "endproto", "endpdecl", "endfdef"}
    BY <1>8 DEF Argument, Visits
  <2>5. Mirrored(at + 1, symtbl')
    BY <2>1, <2>4, TableStays
  <2>. QED
    BY <2>1, <2>3, <2>5, WalkVisits
<1>9. CASE CallEnd
  <2>1. at <= Len(src) /\ src' = src /\ at' = at + 1
    BY <1>9 DEF CallEnd, Visits
  <2>2. src[at].kind \in EndKinds /\ Return
    BY <1>9 DEF CallEnd, Visits, EndKinds
  <2>3. Follow(Around(src, at + 1), calls')
    BY <2>1, <2>2, ReturnFollows
  <2>4. symtbl' = symtbl /\ src[at].kind \notin {"sig", "block", "endblock", "endvar", "endproto", "endpdecl", "endfdef"}
    BY <1>9 DEF CallEnd, Visits
  <2>5. Mirrored(at + 1, symtbl')
    BY <2>1, <2>4, TableStays
  <2>. QED
    BY <2>1, <2>3, <2>5, WalkVisits
<1>10. CASE Item
  <2>1. at <= Len(src) /\ src' = src /\ at' = at + 1
    BY <1>10 DEF Item, Visits
  <2>2. src[at].kind \in OtherKinds
    BY <1>10 DEF Item, Visits, OtherKinds
  <2>3. Follow(Around(src, at + 1), calls')
    <3>. DEFINE l == calls[1].list \o Flattened(val)
                f == [calls[1] EXCEPT !.list = l]
    <3>1. calls' = [calls EXCEPT ![1] = f]
      BY <1>10 DEF Item
    <3>. HIDE DEF l
    <3>. QED
      BY <2>1, <2>2, <3>1, EditFollows
  <2>4. symtbl' = symtbl /\ src[at].kind \notin {"sig", "block", "endblock", "endvar", "endproto", "endpdecl", "endfdef"}
    BY <1>10 DEF Item, Visits
  <2>5. Mirrored(at + 1, symtbl')
    BY <2>1, <2>4, TableStays
  <2>. QED
    BY <2>1, <2>3, <2>5, WalkVisits
<1>11. CASE BracesEnd
  <2>1. at <= Len(src) /\ src' = src /\ at' = at + 1
    BY <1>11 DEF BracesEnd, Visits
  <2>2. src[at].kind \in EndKinds /\ Return
    BY <1>11 DEF BracesEnd, Visits, EndKinds
  <2>3. Follow(Around(src, at + 1), calls')
    BY <2>1, <2>2, ReturnFollows
  <2>4. symtbl' = symtbl /\ src[at].kind \notin {"sig", "block", "endblock", "endvar", "endproto", "endpdecl", "endfdef"}
    BY <1>11 DEF BracesEnd, Visits
  <2>5. Mirrored(at + 1, symtbl')
    BY <2>1, <2>4, TableStays
  <2>. QED
    BY <2>1, <2>3, <2>5, WalkVisits
<1>12. CASE Literal
  <2>1. at <= Len(src) /\ src' = src /\ at' = at + 1
    BY <1>12 DEF Literal, Visits
  <2>2. src[at].kind \in OtherKinds /\ calls' = calls
    BY <1>12 DEF Literal, Visits, OtherKinds
  <2>3. Follow(Around(src, at + 1), calls')
    BY <2>1, <2>2, StayFollows
  <2>4. symtbl' = symtbl /\ src[at].kind \notin {"sig", "block", "endblock", "endvar", "endproto", "endpdecl", "endfdef"}
    BY <1>12 DEF Literal, Visits
  <2>5. Mirrored(at + 1, symtbl')
    BY <2>1, <2>4, TableStays
  <2>. QED
    BY <2>1, <2>3, <2>5, WalkVisits
<1>13. CASE Reference
  <2>1. at <= Len(src) /\ src' = src /\ at' = at + 1
    BY <1>13 DEF Reference, Visits
  <2>2. src[at].kind \in OtherKinds /\ calls' = calls
    BY <1>13 DEF Reference, Visits, OtherKinds
  <2>3. Follow(Around(src, at + 1), calls')
    BY <2>1, <2>2, StayFollows
  <2>4. symtbl' = symtbl /\ src[at].kind \notin {"sig", "block", "endblock", "endvar", "endproto", "endpdecl", "endfdef"}
    BY <1>13 DEF Reference, Visits
  <2>5. Mirrored(at + 1, symtbl')
    BY <2>1, <2>4, TableStays
  <2>. QED
    BY <2>1, <2>3, <2>5, WalkVisits
<1>14. CASE DimBegin
  <2>1. at <= Len(src) /\ src' = src /\ at' = at + 1
    BY <1>14 DEF DimBegin, Visits
  <2>2. src[at].kind \in DOMAIN Closes /\ \E ret : Begin(ret)
    BY <1>14, KindsAre, Zenon DEF DimBegin, Visits
  <2>3. Follow(Around(src, at + 1), calls')
    BY <2>1, <2>2, BeginFollows
  <2>4. symtbl' = symtbl /\ src[at].kind \notin {"sig", "block", "endblock", "endvar", "endproto", "endpdecl", "endfdef"}
    BY <1>14 DEF DimBegin, Visits
  <2>5. Mirrored(at + 1, symtbl')
    BY <2>1, <2>4, TableStays
  <2>. QED
    BY <2>1, <2>3, <2>5, WalkVisits
<1>15. CASE DimEnd
  <2>1. at <= Len(src) /\ src' = src /\ at' = at + 1
    BY <1>15 DEF DimEnd, Visits
  <2>2. src[at].kind \in EndKinds /\ Return
    BY <1>15 DEF DimEnd, Visits, EndKinds
  <2>3. Follow(Around(src, at + 1), calls')
    BY <2>1, <2>2, ReturnFollows
  <2>4. symtbl' = symtbl /\ src[at].kind \notin {"sig", "block", "endblock", "endvar", "endproto", "endpdecl", "endfdef"}
    BY <1>15 DEF DimEnd, Visits
  <2>5. Mirrored(at + 1, symtbl')
    BY <2>1, <2>4, TableStays
  <2>. QED
    BY <2>1, <2>3, <2>5, WalkVisits
<1>16. CASE DeclaratorBegin
  <2>1. at <= Len(src) /\ src' = src /\ at' = at + 1
    BY <1>16 DEF DeclaratorBegin, Visits
  <2>2. src[at].kind \in DOMAIN Closes /\ \E ret : Begin(ret)
    BY <1>16, KindsAre, Zenon DEF DeclaratorBegin, Visits
  <2>3. Follow(Around(src, at + 1), calls')
    BY <2>1, <2>2, BeginFollows
  <2>4. symtbl' = symtbl /\ src[at].kind \notin {"sig", "block", "endblock", "endvar", "endproto", "endpdecl", "endfdef"}
    BY <1>16 DEF DeclaratorBegin, Visits
  <2>5. Mirrored(at + 1, symtbl')
    BY <2>1, <2>4, TableStays
  <2>. QED
    BY <2>1, <2>3, <2>5, WalkVisits
<1>17. CASE VarEnd
  <2>1. at <= Len(src) /\ src' = src /\ at' = at + 1
    BY <1>17 DEF VarEnd, Visits
  <2>2. src[at].kind \in EndKinds /\ Return
    BY <1>17 DEF VarEnd, Visits, EndKinds
  <2>3. Follow(Around(src, at + 1), calls')
    BY <2>1, <2>2, ReturnFollows
  <2>5. Mirrored(at + 1, symtbl')
    BY <1>17, <2>1, TableDeclares DEF VarEnd, Visits
  <2>. QED
    BY <2>1, <2>3, <2>5, WalkVisits
<1>18. CASE ProtoEnd
  <2>1. at <= Len(src) /\ src' = src /\ at' = at + 1
    BY <1>18 DEF ProtoEnd, Visits
  <2>2. src[at].kind \in EndKinds /\ Return
    BY <1>18 DEF ProtoEnd, Visits, EndKinds
  <2>3. Follow(Around(src, at + 1), calls')
    BY <2>1, <2>2, ReturnFollows
  <2>5. Mirrored(at + 1, symtbl')
    BY <1>18, <2>1, TableDeclares DEF ProtoEnd, Visits
  <2>. QED
    BY <2>1, <2>3, <2>5, WalkVisits
<1>19. CASE ParamTypeEnd
  <2>1. at <= Len(src) /\ src' = src /\ at' = at + 1
    BY <1>19 DEF ParamTypeEnd, Visits
  <2>2. src[at].kind \in EndKinds /\ Return
    BY <1>19 DEF ParamTypeEnd, Visits, EndKinds
  <2>3. Follow(Around(src, at + 1), calls')
    BY <2>1, <2>2, ReturnFollows
  <2>4. symtbl' = symtbl /\ src[at].kind \notin {"sig", "block", "endblock", "endvar", "endproto", "endpdecl", "endfdef"}
    BY <1>19 DEF ParamTypeEnd, Visits
  <2>5. Mirrored(at + 1, symtbl')
    BY <2>1, <2>4, TableStays
  <2>. QED
    BY <2>1, <2>3, <2>5, WalkVisits
<1>20. CASE ParamDeclEnd
  <2>1. at <= Len(src) /\ src' = src /\ at' = at + 1
    BY <1>20 DEF ParamDeclEnd, Visits
  <2>2. src[at].kind \in EndKinds /\ Return
    BY <1>20 DEF ParamDeclEnd, Visits, EndKinds
  <2>3. Follow(Around(src, at + 1), calls')
    BY <2>1, <2>2, ReturnFollows
  <2>5. Mirrored(at + 1, symtbl')
    BY <1>20, <2>1, TableDeclares DEF ParamDeclEnd, Visits
  <2>. QED
    BY <2>1, <2>3, <2>5, WalkVisits
<1>21. CASE FunctionBegin
  <2>1. at <= Len(src) /\ src' = src /\ at' = at + 1
    BY <1>21 DEF FunctionBegin, Visits
  <2>2. src[at].kind \in DOMAIN Closes /\ \E ret : Begin(ret)
    BY <1>21, KindsAre, Zenon DEF FunctionBegin, Visits
  <2>3. Follow(Around(src, at + 1), calls')
    BY <2>1, <2>2, BeginFollows
  <2>4. symtbl' = symtbl /\ src[at].kind \notin {"sig", "block", "endblock", "endvar", "endproto", "endpdecl", "endfdef"}
    BY <1>21 DEF FunctionBegin, Visits
  <2>5. Mirrored(at + 1, symtbl')
    BY <2>1, <2>4, TableStays
  <2>. QED
    BY <2>1, <2>3, <2>5, WalkVisits
<1>22. CASE FunctionScope
  <2>1. at <= Len(src) /\ src' = src /\ at' = at + 1
    BY <1>22 DEF FunctionScope, Visits
  <2>2. src[at].kind \in OtherKinds /\ calls' = calls
    BY <1>22 DEF FunctionScope, Visits, OtherKinds
  <2>3. Follow(Around(src, at + 1), calls')
    BY <2>1, <2>2, StayFollows
  <2>5. Mirrored(at + 1, symtbl')
    BY <1>22, <2>1, TableEnters DEF FunctionScope, Visits
  <2>. QED
    BY <2>1, <2>3, <2>5, WalkVisits
<1>23. CASE FunctionEnd
  <2>1. at <= Len(src) /\ src' = src /\ at' = at + 1
    BY <1>23 DEF FunctionEnd, Visits
  <2>2. src[at].kind \in EndKinds /\ Return
    BY <1>23 DEF FunctionEnd, Visits, EndKinds
  <2>3. Follow(Around(src, at + 1), calls')
    BY <2>1, <2>2, ReturnFollows
  <2>5. Mirrored(at + 1, symtbl')
    BY <1>23, <2>1, TableLeaves DEF FunctionEnd, Visits
  <2>. QED
    BY <2>1, <2>3, <2>5, WalkVisits
<1>24. CASE BlockBegin
  <2>1. at <= Len(src) /\ src' = src /\ at' = at + 1
    BY <1>24 DEF BlockBegin, Visits
  <2>2. src[at].kind \in DOMAIN Closes /\ \E ret : Begin(ret)
    BY <1>24, KindsAre, Zenon DEF BlockBegin, Visits
  <2>3. Follow(Around(src, at + 1), calls')
    BY <2>1, <2>2, BeginFollows
  <2>5. Mirrored(at + 1, symtbl')
    BY <1>24, <2>1, TableOpens DEF BlockBegin, Visits
  <2>. QED
    BY <2>1, <2>3, <2>5, WalkVisits
<1>25. CASE BlockEnd
  <2>1. at <= Len(src) /\ src' = src /\ at' = at + 1
    BY <1>25 DEF BlockEnd, Visits
  <2>2. src[at].kind \in EndKinds /\ Return
    BY <1>25 DEF BlockEnd, Visits, EndKinds
  <2>3. Follow(Around(src, at + 1), calls')
    BY <2>1, <2>2, ReturnFollows
  <2>5. Mirrored(at + 1, symtbl')
    BY <1>25, <2>1, TableCloses DEF BlockEnd, Visits
  <2>. QED
    BY <2>1, <2>3, <2>5, WalkVisits
<1>26. CASE StatementBegin
  <2>1. at <= Len(src) /\ src' = src /\ at' = at + 1
    BY <1>26 DEF StatementBegin, Visits
  <2>2. src[at].kind \in DOMAIN Closes /\ \E ret : Begin(ret)
    BY <1>26, KindsAre, Zenon DEF StatementBegin, Visits
  <2>3. Follow(Around(src, at + 1), calls')
    BY <2>1, <2>2, BeginFollows
  <2>4. symtbl' = symtbl /\ src[at].kind \notin {"sig", "block", "endblock", "endvar", "endproto", "endpdecl", "endfdef"}
    BY <1>26 DEF StatementBegin, Visits
  <2>5. Mirrored(at + 1, symtbl')
    BY <2>1, <2>4, TableStays
  <2>. QED
    BY <2>1, <2>3, <2>5, WalkVisits
<1>27. CASE ExpressionEnd
  <2>1. at <= Len(src) /\ src' = src /\ at' = at + 1
    BY <1>27 DEF ExpressionEnd, Visits
  <2>2. src[at].kind \in EndKinds /\ Return
    BY <1>27 DEF ExpressionEnd, Visits, EndKinds
  <2>3. Follow(Around(src, at + 1), calls')
    BY <2>1, <2>2, ReturnFollows
  <2>4. symtbl' = symtbl /\ src[at].kind \notin {"sig", "block", "endblock", "endvar", "endproto", "endpdecl", "endfdef"}
    BY <1>27 DEF ExpressionEnd, Visits
  <2>5. Mirrored(at + 1, symtbl')
    BY <2>1, <2>4, TableStays
  <2>. QED
    BY <2>1, <2>3, <2>5, WalkVisits
<1>28. CASE WhileEnd
  <2>1. at <= Len(src) /\ src' = src /\ at' = at + 1
    BY <1>28 DEF WhileEnd, Visits
  <2>2. src[at].kind \in EndKinds /\ Return
    BY <1>28 DEF WhileEnd, Visits, EndKinds
  <2>3. Follow(Around(src, at + 1), calls')
    BY <2>1, <2>2, ReturnFollows
  <2>4. symtbl' = symtbl /\ src[at].kind \notin {"sig", "block", "endblock", "endvar", "endproto", "endpdecl", "endfdef"}
    BY <1>28 DEF WhileEnd, Visits
  <2>5. Mirrored(at + 1, symtbl')
    BY <2>1, <2>4, TableStays
  <2>. QED
    BY <2>1, <2>3, <2>5, WalkVisits
<1>29. CASE Jump
  <2>1. at <= Len(src) /\ src' = src /\ at' = at + 1
    BY <1>29 DEF Jump, Visits
  <2>2. src[at].kind \in OtherKinds /\ calls' = calls
    BY <1>29 DEF Jump, Visits, OtherKinds
  <2>3. Follow(Around(src, at + 1), calls')
    BY <2>1, <2>2, StayFollows
  <2>4. symtbl' = symtbl /\ src[at].kind \notin {"sig", "block", "endblock", "endvar", "endproto", "endpdecl", "endfdef"}
    BY <1>29 DEF Jump, Visits
  <2>5. Mirrored(at + 1, symtbl')
    BY <2>1, <2>4, TableStays
  <2>. QED
    BY <2>1, <2>3, <2>5, WalkVisits
<1>30. CASE StatementEnd
  <2>1. at <= Len(src) /\ src' = src /\ at' = at + 1
    BY <1>30 DEF StatementEnd, Visits
  <2>2. src[at].kind \in EndKinds /\ Return
    BY <1>30 DEF StatementEnd, Visits, EndKinds
  <2>3. Follow(Around(src, at + 1), calls')
    BY <2>1, <2>2, ReturnFollows
  <2>4. symtbl' = symtbl /\ src[at].kind \notin {"sig", "block", "endblock", "endvar", "endproto", "endpdecl", "endfdef"}
    BY <1>30 DEF StatementEnd, Visits
  <2>5. Mirrored(at + 1, symtbl')
    BY <2>1, <2>4, TableStays
  <2>. QED
    BY <2>1, <2>3, <2>5, WalkVisits
<1>31. CASE OtherNode
  <2>1. at <= Len(src) /\ src' = src /\ at' = at + 1
    BY <1>31 DEF OtherNode, Visits
  <2>2. src[at].kind \in OtherKinds /\ calls' = calls
    BY <1>31 DEF OtherNode, Visits, OtherKinds
  <2>3. Follow(Around(src, at + 1), calls')
    BY <2>1, <2>2, StayFollows
  <2>4. symtbl' = symtbl /\ src[at].kind \notin {"sig", "block", "endblock", "endvar", "endproto", "endpdecl", "endfdef"}
    BY <1>31 DEF OtherNode, Visits
  <2>5. Mirrored(at + 1, symtbl')
    BY <2>1, <2>4, TableStays
  <2>. QED
    BY <2>1, <2>3, <2>5, WalkVisits
<1>32. CASE OperatorIgnored
  <2>. DEFINE j == src[Top.tok].next - 1
  <2>1. at <= Len(src) /\ src' = src /\ at' = j /\ calls' = calls /\ symtbl' = symtbl /\ src[at].kind = "op"
    BY <1>32 DEF OperatorIgnored
  <2>2. j \in 1 .. Len(src) /\ Follow(Around(src, j), calls) /\ Mirrored(j, symtbl)
    BY <2>1, ListEnds
  <2>. HIDE DEF j
  <2>3. j \in 1 .. Len(src) + 1
    BY <2>2, FilesAre
  <2>. QED
    BY <2>1, <2>2, <2>3, WalkMoves
<1>33. CASE \/ ReferenceFails \/ DimFails \/ SpecifiersFail \/ UnsupportedFails \/ UNCHANGED vars
  <2>1. UNCHANGED <<src, at, calls, symtbl>>
    BY <1>33 DEF ReferenceFails, DimFails, SpecifiersFail, UnsupportedFails, Dies, vars
  <2>. QED
    BY <2>1, WalkWaits
<1>. QED
  BY <1>1, <1>2, <1>3, <1>4, <1>5, <1>6, <1>7, <1>8, <1>9, <1>10, <1>11, <1>12, <1>13, <1>14,
     <1>15, <1>16, <1>17, <1>18, <1>19, <1>20, <1>21, <1>22, <1>23, <1>24, <1>25, <1>26, <1>27,
     <1>28, <1>29, <1>30, <1>31, <1>32, <1>33 DEF Next

-----------------------------------------------------------------------------
(* What is entered, and C's scopes. *)

LEMMA DeclaratorsEnd ==
  ASSUME NEW file \in Seq(Token), ParseTree(file), NEW d, IsDeclarator(file, d)
  PROVE  /\ d \in DOMAIN file /\ d \in Nat /\ file[d].next \in Nat
         /\ DeclaratorEnd(file, d) \in Nat
         /\ d < DeclaratorEnd(file, d) /\ DeclaratorEnd(file, d) <= file[d].next
         /\ file[d].kind # "var" => DeclaratorEnd(file, d) = file[d].next
<1>1. d \in DOMAIN file /\ d \in Nat /\ file[d].next \in Nat /\ d + 2 <= file[d].next
  BY OpensAre DEF IsDeclarator
<1>2. CASE file[d].kind = "var" /\ HasInit(file, d)
  <2>. DEFINE S == InitsOf(file, d)
  <2>1. S # {} /\ S \subseteq Nat
    BY <1>1, <1>2 DEF HasInit, InitsOf
  <2>2. \A k \in S : k \in Nat /\ d <= k /\ k < file[d].next /\ k # d
    BY <1>1, <1>2 DEF InitsOf
  <2>. HIDE DEF S
  <2>3. MinOf(S) \in S
    BY <2>1, MinOfIs
  <2>4. DeclaratorEnd(file, d) = MinOf(S) + 1
    BY <1>2 DEF DeclaratorEnd, S
  <2>. QED
    BY <1>1, <1>2, <2>2, <2>3, <2>4
<1>3. CASE ~(file[d].kind = "var" /\ HasInit(file, d))
  <2>1. DeclaratorEnd(file, d) = file[d].next
    BY <1>3 DEF DeclaratorEnd
  <2>. QED
    BY <1>1, <2>1
<1>. QED
  BY <1>2, <1>3

\* A declaration that C knows at token i is entered, or it is in NotEntered.
LEMMA EnteredWhenDone ==
  ASSUME NEW file \in Seq(Token), ParseTree(file), NEW i \in Nat, NEW b \in Entries(file)
  PROVE  /\ b.from <= i /\ b.decl \notin NotEntered(file, i) <=> b.done <= i
         /\ b.scope \notin Prototype(file, i)
         /\ b.from \in Nat /\ b.scope \in Nat /\ b.done \in Nat
         /\ b.scope < b.done /\ b.done <= Len(file) + 1
<1>1. CASE \E d : IsDeclarator(file, d) /\ b = OfDeclarator(file, d)
  <2>1. PICK d : IsDeclarator(file, d) /\ b = OfDeclarator(file, d)
    BY <1>1
  <2>2. /\ d \in DOMAIN file /\ d \in Nat /\ file[d].next \in Nat
        /\ b.from \in Nat /\ d < b.from /\ b.from <= b.done /\ b.done = file[d].next
        /\ file[d].kind # "var" => b.from = b.done
        /\ b.decl = d /\ b.scope = MaxOf(Scopes(file, d))
    BY <2>1, DeclaratorsEnd DEF OfDeclarator, Bind
  <2>3. d \in NotEntered(file, i) <=> file[d].kind = "var" /\ d < i /\ i < file[d].next
    BY <2>1, <2>2 DEF NotEntered, IsDeclarator
  <2>4. b.from <= i /\ d \notin NotEntered(file, i) <=> b.done <= i
    BY <2>2, <2>3
  <2>5. b.scope \in Scopes(file, d) /\ b.scope \in Nat /\ b.scope < d
    BY <2>2, InnermostScope
  <2>6. b.scope = 0 \/ file[b.scope].kind \in {"sig", "block"}
    BY <2>5, ScopesAre DEF IsScope
  <2>7. b.done <= Len(file) + 1
    BY <2>1, <2>2, OpensAre DEF IsDeclarator
  <2>8. b.scope \notin Prototype(file, i)
    BY <2>5, <2>6 DEF Prototype
  <2>. QED
    BY <2>2, <2>4, <2>5, <2>7, <2>8
<1>2. CASE \E s, f : SignatureOf(file, s, f) /\ b = OfSignature(file, s, f)
  <2>1. PICK s, f : SignatureOf(file, s, f) /\ b = OfSignature(file, s, f)
    BY <1>2
  <2>2. /\ s \in DOMAIN file /\ s \in 1 .. Len(file) /\ file[s].kind = "sig"
        /\ file[f].kind = "fdef" /\ Len(file) \in Nat
    BY <2>1, TokensAre DEF SignatureOf, Signatures
  <2>3. b.from = s + 1 /\ b.done = s + 1 /\ b.decl = f /\ b.scope = s
    BY <2>1 DEF OfSignature, Bind
  <2>4. f \notin NotEntered(file, i)
    BY <2>2 DEF NotEntered
  <2>5. s \notin Prototype(file, i)
    BY <2>2 DEF Prototype
  <2>. QED
    BY <2>2, <2>3, <2>4, <2>5
<1>3. CASE \E f : IsFunction(file, f) /\ b = OfFunction(file, f)
  <2>1. PICK f : IsFunction(file, f) /\ b = OfFunction(file, f)
    BY <1>3
  <2>2. /\ file[f].next \in Nat /\ f + 2 <= file[f].next /\ f \in Nat
        /\ file[f].next <= Len(file) + 1 /\ file[f].kind = "fdef"
    BY <2>1, OpensAre DEF IsFunction
  <2>3. b.from = file[f].next /\ b.done = file[f].next /\ b.decl = f /\ b.scope = 0
    BY <2>1 DEF OfFunction, Bind
  <2>4. f \notin NotEntered(file, i)
    BY <2>2 DEF NotEntered
  <2>5. 0 \notin Prototype(file, i)
    BY DEF Prototype
  <2>. QED
    BY <2>2, <2>3, <2>4, <2>5
<1>. QED
  BY <1>1, <1>2, <1>3, EntriesAre

\* The others are parameters in their list.
LEMMA OthersAreParameters ==
  ASSUME NEW file \in Seq(Token), ParseTree(file), NEW i \in Nat,
         NEW b \in Bindings(file), b \notin Entries(file)
  PROVE  /\ b.decl \in NotEntered(file, i)
         /\ b.scope \in Nat /\ b.done \in Nat
         /\ b.scope < b.done /\ b.done <= Len(file) + 1
<1>1. PICK p, h : IsParameter(file, p, h) /\ b = OfParameter(file, p, h)
  BY BindingsAre, EntriesAre
<1>2. /\ p \in DOMAIN file /\ p \in Nat /\ file[p].next \in Nat /\ p + 2 <= file[p].next
      /\ file[p].next <= Len(file) + 1 /\ file[p].kind \in {"ptype", "pname"}
  BY <1>1, OpensAre DEF IsParameter
<1>3. h \in Nat /\ h < p
  BY <1>1, <1>2 DEF IsParameter, Prototype
<1>4. b.decl = p /\ b.scope = h /\ b.done = file[p].next
  BY <1>1 DEF OfParameter, Bind
<1>5. p \in NotEntered(file, i)
  BY <1>2 DEF NotEntered
<1>. QED
  BY <1>2, <1>3, <1>4, <1>5

\* What C's scopes have at token i of a name, without the declarations in out.
InScope(file, i, name, out) ==
  {b \in Bindings(file) : /\ b.text = name /\ b.from <= i /\ b.decl \notin out
                          /\ b.scope \in Scopes(file, i) \cup Prototype(file, i)}

LEMMA VisibleIs ==
  ASSUME NEW file, NEW i, NEW name, NEW out
  PROVE  VisibleBut(file, i, name, out) =
           IF InScope(file, i, name, out) = {} THEN 0 ELSE LastOf(InScope(file, i, name, out))
BY DEF VisibleBut, InScope, LastOf, Innermost

LEMMA SeenIs ==
  ASSUME NEW file \in Seq(Token), ParseTree(file), NEW i \in Nat, NEW name
  PROVE  InScope(file, i, name, NotEntered(file, i)) = Seen(file, i, name)
<1>1. \A b \in Entries(file) :
        /\ b.from <= i /\ b.decl \notin NotEntered(file, i) <=> b.done <= i
        /\ b.scope \notin Prototype(file, i)
  BY EnteredWhenDone
<1>2. \A b \in Bindings(file) : b \notin Entries(file) => b.decl \in NotEntered(file, i)
  BY OthersAreParameters
<1>3. \A b \in Entries(file) : b \in Bindings(file)
  BY DEF Entries
<1>. QED
  BY <1>1, <1>2, <1>3 DEF InScope, Seen

LEMMA EnteredIsVisibleBut ==
  ASSUME NEW file \in Seq(Token), ParseTree(file), NEW i \in Nat, NEW name
  PROVE  Entered(file, i, name) = VisibleBut(file, i, name, NotEntered(file, i))
BY SeenIs, VisibleIs DEF Entered

\* No two declarations that are entered end at the same token.
LEMMA DoneIsOwn ==
  ASSUME NEW file \in Seq(Token), ParseTree(file),
         NEW b \in Entries(file), NEW c \in Entries(file), b.done = c.done
  PROVE  b = c
<1>. DEFINE Ends_(x, o) == /\ o \in Opens(file) /\ x.done = file[o].next
                           /\ x = Ended(file, o)
            Signs(x, s) == /\ s \in DOMAIN file /\ file[s].kind = "sig" /\ x.done = s + 1
                           /\ \E f : SignatureOf(file, s, f) /\ x = OfSignature(file, s, f)
<1>1. ASSUME NEW x \in Entries(file) PROVE (\E o : Ends_(x, o)) \/ (\E s : Signs(x, s))
  <2>1. CASE \E d : IsDeclarator(file, d) /\ x = OfDeclarator(file, d)
    BY <2>1 DEF IsDeclarator, OfDeclarator, Bind, Ended
  <2>2. CASE \E s, f : SignatureOf(file, s, f) /\ x = OfSignature(file, s, f)
    <3>1. PICK s, f : SignatureOf(file, s, f) /\ x = OfSignature(file, s, f)
      BY <2>2
    <3>2. s \in DOMAIN file /\ file[s].kind = "sig" /\ x.done = s + 1
      BY <3>1 DEF SignatureOf, Signatures, OfSignature, Bind
    <3>. QED
      BY <3>1, <3>2
  <2>3. CASE \E f : IsFunction(file, f) /\ x = OfFunction(file, f)
    BY <2>3 DEF IsFunction, OfFunction, Bind, Ended
  <2>. QED
    BY <2>1, <2>2, <2>3, EntriesAre
<1>2. ASSUME NEW x, NEW y, NEW o, NEW s, Ends_(x, o), Signs(y, s), x.done = y.done PROVE FALSE
  <2>1. file[o].next - 1 \in Ends(file) /\ file[o].next \in Nat
    BY <1>2, OpensAre
  <2>2. s \in Nat /\ s \notin Ends(file)
    BY <1>2, TokensAre, EndsAre DEF EndKinds
  <2>. QED
    BY <1>2, <2>1, <2>2
<1>3. ASSUME NEW o, NEW p, Ends_(b, o), Ends_(c, p) PROVE b = c
  <2>1. o = p
    BY <1>3, NextIsOwn
  <2>. QED
    BY <1>3, <2>1
<1>4. ASSUME NEW s, NEW t, Signs(b, s), Signs(c, t) PROVE b = c
  <2>1. s \in Nat /\ t \in Nat
    BY <1>4, TokensAre
  <2>2. s = t
    BY <1>4, <2>1
  <2>3. PICK f, g : /\ SignatureOf(file, s, f) /\ b = OfSignature(file, s, f)
                    /\ SignatureOf(file, s, g) /\ c = OfSignature(file, s, g)
    BY <1>4, <2>2
  <2>4. f = g
    BY <2>3, FunctionOfSignature
  <2>. QED
    BY <2>3, <2>4
<1>. HIDE DEF Ends_, Signs
<1>. QED
  BY <1>1, <1>2, <1>3, <1>4

LEMMA LastExists ==
  ASSUME NEW B, B # {}, NEW bound \in Nat,
         \A b \in B : b.scope \in Nat /\ b.done \in Nat /\ b.scope <= bound /\ b.done <= bound
  PROVE  \E b \in Innermost(B) : \A c \in Innermost(B) : c.done <= b.done
<1>. DEFINE scopes == {b.scope : b \in B}
            dones == {b.done : b \in Innermost(B)}
<1>1. MaxOf(scopes) \in scopes /\ \A n \in scopes : n <= MaxOf(scopes)
  <2>1. scopes \subseteq Nat /\ scopes # {} /\ \A n \in scopes : n <= bound
    OBVIOUS
  <2>. HIDE DEF scopes
  <2>. QED
    BY <2>1, MaxOfIs
<1>2. Innermost(B) # {} /\ Innermost(B) \subseteq B
  <2>1. PICK b \in B : b.scope = MaxOf(scopes)
    BY <1>1
  <2>2. \A c \in B : c.scope \in scopes
    OBVIOUS
  <2>. HIDE DEF scopes
  <2>. QED
    BY <1>1, <2>1, <2>2 DEF Innermost
<1>3. MaxOf(dones) \in dones /\ \A n \in dones : n <= MaxOf(dones)
  <2>1. dones \subseteq Nat /\ dones # {} /\ \A n \in dones : n <= bound
    BY <1>2
  <2>. HIDE DEF dones
  <2>. QED
    BY <2>1, MaxOfIs
<1>4. PICK b \in Innermost(B) : b.done = MaxOf(dones)
  BY <1>3
<1>5. \A c \in Innermost(B) : c.done \in dones
  OBVIOUS
<1>. QED
  BY <1>3, <1>4, <1>5

\* When the declaration that C means is entered, it is the one that is found.
LEMMA EnteredIsVisible ==
  ASSUME NEW file \in Seq(Token), ParseTree(file), NEW i \in Nat, NEW name,
         Visible(file, i, name) \notin NotEntered(file, i)
  PROVE  Entered(file, i, name) = Visible(file, i, name)
<1>. DEFINE V == InScope(file, i, name, {})
            W == Seen(file, i, name)
            out == NotEntered(file, i)
            IsLast(B, b) == b \in Innermost(B) /\ \A c \in Innermost(B) : c.done <= b.done
<1>1. Visible(file, i, name) = IF V = {} THEN 0 ELSE LastOf(V)
  BY VisibleIs DEF Visible
<1>2. Entered(file, i, name) = IF W = {} THEN 0 ELSE LastOf(W)
  BY DEF Entered
<1>3. W \subseteq V /\ (\A b \in V : b.decl \notin out => b \in W)
  <2>1. W = InScope(file, i, name, out)
    BY SeenIs
  <2>. QED
    BY <2>1 DEF InScope
<1>4. W \subseteq Entries(file) /\ V \subseteq Bindings(file)
  BY DEF Seen, InScope
<1>5. CASE V = {}
  BY <1>1, <1>2, <1>3, <1>5
<1>6. CASE V # {}
  <2>1. \A b \in V : /\ b.scope \in Nat /\ b.done \in Nat
                     /\ b.scope < b.done /\ b.done <= Len(file) + 1
    BY <1>4, EnteredWhenDone, OthersAreParameters
  <2>2. Len(file) \in Nat
    BY TokensAre
  <2>. HIDE DEF V, W, out
  <2>3. \E b : IsLast(V, b)
    <3>. DEFINE bound == Len(file) + 1
    <3>1. /\ bound \in Nat
          /\ \A b \in V : b.scope \in Nat /\ b.done \in Nat /\ b.scope <= bound /\ b.done <= bound
      BY <2>1, <2>2
    <3>. HIDE DEF bound
    <3>. QED
      BY <1>6, <3>1, LastExists
  <2>. DEFINE v == CHOOSE b \in Innermost(V) : \A c \in Innermost(V) : c.done <= b.done
              w == CHOOSE b \in Innermost(W) : \A c \in Innermost(W) : c.done <= b.done
  <2>4. IsLast(V, v) /\ LastOf(V) = v.decl
    BY <2>3 DEF LastOf
  <2>. HIDE DEF v
  <2>5. v \in V /\ \A c \in V : c.scope <= v.scope
    BY <2>4 DEF Innermost
  <2>6. v \in W
    BY <1>1, <1>3, <1>6, <2>4, <2>5 DEF out
  <2>7. v \in Innermost(W) /\ \A c \in Innermost(W) : c \in Innermost(V) /\ c \in W
    <3>1. \A c \in W : c \in V /\ c.scope \in Nat
      BY <1>3, <2>1
    <3>. QED
      BY <2>5, <2>6, <3>1 DEF Innermost
  <2>8. IsLast(W, v)
    BY <2>4, <2>7
  <2>9. IsLast(W, w) /\ LastOf(W) = w.decl
    BY <2>8 DEF LastOf
  <2>. HIDE DEF w
  <2>10. w.done <= v.done /\ v.done <= w.done /\ v.done \in Nat /\ w.done \in Nat /\ w \in W
    BY <1>3, <2>1, <2>7, <2>8, <2>9
  <2>11. w = v
    BY <1>4, <2>6, <2>10, DoneIsOwn
  <2>. QED
    BY <1>1, <1>2, <1>6, <2>4, <2>6, <2>9, <2>11
<1>. QED
  BY <1>5, <1>6

-----------------------------------------------------------------------------
(* Links.                                                                  *)

\* A DeclRefExpr has what had been entered for its name in its place, however the symbol
\* table changed since the reference was visited.
ReferencesKept ==
  \A i \in DOMAIN src :
    decl[i] # 0 => src[i].kind = "ref" /\ decl[i] = Entered(src, i, src[i].text)

\* The visit of a name dies only when nothing of that name has been entered.
OnlyUnknownNamesDie ==
  aborted /\ src[at].kind = "ref" => Entered(src, at, src[at].text) = 0

\* mCurrentFunc is the function around the walk.
FunctionIsCurrent == \A f \in Around(src, at) : src[f].kind = "fdef" => mCurrentFunc = f

\* A ReturnStmt has the function it stands in.
ReturnsLeaveTheirFunction ==
  \A i \in DOMAIN src : i < at /\ src[i].kind = "ret" =>
    \A f \in Around(src, i) : src[f].kind = "fdef" => link[i] = f

Linked ==
  /\ DOMAIN decl = DOMAIN src /\ DOMAIN link = DOMAIN src
  /\ ReferencesKept /\ OnlyUnknownNamesDie
  /\ FunctionIsCurrent /\ ReturnsLeaveTheirFunction

LEMMA LookupFinds ==
  ASSUME Walk, NEW name \in Names
  PROVE  Resolve(name) = Entered(src, at, name)
<1>1. src \in Seq(Token) /\ ParseTree(src) /\ at \in Nat
  BY FilesAre
<1>2. PICK ss : Mirrors(src, Scopes(src, at), at, symtbl, ss)
  BY DEF Walk
<1>. QED
  BY <1>1, <1>2, ResolvedIsEntered

LEMMA LinkedBegins ==
  ASSUME Init
  PROVE  Linked
<1>1. /\ src \in Sources /\ at = 1 /\ decl = [i \in DOMAIN src |-> 0]
      /\ link = [i \in DOMAIN src |-> 0] /\ aborted = FALSE
  BY DEF Init
<1>2. src \in Seq(Token)
  BY <1>1, SourcesAssumption
<1>3. DOMAIN src = 1 .. Len(src) /\ Len(src) \in Nat
  BY <1>2, TokensAre
<1>4. Around(src, at) = {} /\ \A i \in DOMAIN src : ~(i < at)
  BY <1>1, <1>3 DEF Around, Opens
<1>. QED
  BY <1>1, <1>4 DEF Linked, ReferencesKept, OnlyUnknownNamesDie, FunctionIsCurrent,
                    ReturnsLeaveTheirFunction

\* The function around the walk stays current when no function begins.
LEMMA FunctionStays ==
  ASSUME Walk, Linked, at <= Len(src), src[at].kind # "fdef",
         src' = src, at' = at + 1, mCurrentFunc' = mCurrentFunc
  PROVE  FunctionIsCurrent'
<1>1. at \in Nat /\ DOMAIN src = 1 .. Len(src) /\ src \in Seq(Token)
  BY FilesAre
<1>2. ASSUME NEW f \in Around(src, at + 1), src[f].kind = "fdef" PROVE f \in Around(src, at)
  <2>1. f \in Opens(src) /\ f < at + 1 /\ at + 1 < src[f].next
    BY <1>2 DEF Around
  <2>2. f \in Nat /\ src[f].next \in Nat
    BY <1>1, <2>1, TokensAre DEF Opens
  <2>3. f # at
    BY <1>2
  <2>. QED
    BY <1>1, <2>1, <2>2, <2>3 DEF Around
<1>. QED
  BY <1>2 DEF Linked, FunctionIsCurrent

\* So do the links of the returns when none is visited.
LEMMA ReturnsStay ==
  ASSUME Walk, Linked, at <= Len(src), src[at].kind # "ret", src' = src, at' = at + 1,
         \A i \in DOMAIN src : i < at => link'[i] = link[i]
  PROVE  ReturnsLeaveTheirFunction'
<1>1. at \in Nat /\ DOMAIN src = 1 .. Len(src) /\ src \in Seq(Token)
  BY FilesAre
<1>2. ASSUME NEW i \in DOMAIN src, i < at + 1, src[i].kind = "ret" PROVE i < at
  BY <1>1, <1>2
<1>. QED
  BY <1>2 DEF Linked, ReturnsLeaveTheirFunction

\* A step that makes no link.
LEMMA LinksStay ==
  ASSUME Walk, Linked, at <= Len(src), src[at].kind \notin {"fdef", "ret"}, ~aborted, aborted' = aborted,
         src' = src, at' = at + 1, mCurrentFunc' = mCurrentFunc, decl' = decl, link' = link
  PROVE  Linked'
<1>1. FunctionIsCurrent' /\ ReturnsLeaveTheirFunction'
  BY FunctionStays, ReturnsStay
<1>. QED
  BY <1>1 DEF Linked, ReferencesKept, OnlyUnknownNamesDie

\* A step that dies.
LEMMA LinksDie ==
  ASSUME Linked, src' = src, at' = at, mCurrentFunc' = mCurrentFunc, decl' = decl, link' = link,
         aborted' => aborted \/ src[at].kind # "ref" \/ Entered(src, at, src[at].text) = 0
  PROVE  Linked'
BY DEF Linked, ReferencesKept, OnlyUnknownNamesDie, FunctionIsCurrent, ReturnsLeaveTheirFunction

LEMMA LinkedIsInductive ==
  ASSUME Walk, Linked, [Next]_vars
  PROVE  Linked'
<1>. DEFINE Quiet ==
       \/ ListBegin \/ Operator \/ ListEnd \/ BracketBegin \/ UnaryEnd \/ ParenEnd \/ IndexEnd
       \/ Argument \/ CallEnd \/ Item \/ BracesEnd \/ Literal \/ DimBegin \/ DimEnd
       \/ DeclaratorBegin \/ VarEnd \/ ProtoEnd \/ ParamTypeEnd \/ ParamDeclEnd
       \/ FunctionScope \/ FunctionEnd \/ BlockBegin \/ BlockEnd \/ ExpressionEnd \/ WhileEnd
       \/ StatementEnd \/ OtherNode
<1>1. src \in Seq(Token) /\ ParseTree(src) /\ at \in Nat /\ DOMAIN src = 1 .. Len(src)
      /\ (at <= Len(src) => at \in DOMAIN src)
  BY FilesAre
<1>2. CASE Quiet
  <2>1. /\ at <= Len(src) /\ src[at].kind \notin {"fdef", "ret"} /\ ~aborted /\ aborted' = aborted
        /\ src' = src /\ at' = at + 1 /\ mCurrentFunc' = mCurrentFunc
        /\ decl' = decl /\ link' = link
    BY <1>2
       DEF ListBegin, Operator, ListEnd, BracketBegin, UnaryEnd, ParenEnd, IndexEnd, Argument,
           CallEnd, Item, BracesEnd, Literal, DimBegin, DimEnd, DeclaratorBegin, VarEnd, ProtoEnd,
           ParamTypeEnd, ParamDeclEnd, FunctionScope, FunctionEnd, BlockBegin, BlockEnd,
           ExpressionEnd, WhileEnd, StatementEnd, OtherNode, Visits, asgVars
  <2>. QED
    BY <2>1, LinksStay
<1>3. CASE Reference
  <2>1. /\ at <= Len(src) /\ src[at].kind = "ref" /\ ~aborted /\ aborted' = aborted
        /\ src' = src /\ at' = at + 1 /\ mCurrentFunc' = mCurrentFunc /\ link' = link
        /\ decl' = [decl EXCEPT ![at] = Resolve(src[at].text)]
    BY <1>3 DEF Reference, Visits
  <2>2. src[at].text \in Names
    BY <1>1, <2>1, SourcesAssumption DEF Walk
  <2>3. Resolve(src[at].text) = Entered(src, at, src[at].text)
    BY <2>2, LookupFinds
  <2>4. FunctionIsCurrent' /\ ReturnsLeaveTheirFunction'
    BY <2>1, FunctionStays, ReturnsStay
  <2>5. ReferencesKept'
    <3>. DEFINE d == Entered(src, at, src[at].text)
    <3>1. decl' = [decl EXCEPT ![at] = d] /\ DOMAIN decl = DOMAIN src
      BY <2>1, <2>3 DEF Linked
    <3>2. \A i \in DOMAIN src : decl'[i] = IF i = at THEN d ELSE decl[i]
      BY <3>1
    <3>. QED
      BY <2>1, <3>2 DEF Linked, ReferencesKept
  <2>. QED
    BY <2>1, <2>4, <2>5 DEF Linked, OnlyUnknownNamesDie
<1>4. CASE ReferenceFails
  <2>1. /\ at <= Len(src) /\ src[at].kind = "ref" /\ Resolve(src[at].text) = 0
        /\ src' = src /\ at' = at /\ mCurrentFunc' = mCurrentFunc /\ decl' = decl /\ link' = link
    BY <1>4 DEF ReferenceFails, Dies, asgVars
  <2>2. src[at].text \in Names
    BY <1>1, <2>1, SourcesAssumption DEF Walk
  <2>3. Entered(src, at, src[at].text) = 0
    BY <2>1, <2>2, LookupFinds
  <2>. QED
    BY <2>1, <2>3, LinksDie
<1>5. CASE DimFails \/ SpecifiersFail \/ UnsupportedFails
  <2>1. /\ src[at].kind # "ref"
        /\ src' = src /\ at' = at /\ mCurrentFunc' = mCurrentFunc /\ decl' = decl /\ link' = link
    BY <1>5 DEF DimFails, SpecifiersFail, UnsupportedFails, Dies, asgVars
  <2>. QED
    BY <2>1, LinksDie
<1>6. CASE UNCHANGED vars
  <2>1. /\ aborted' = aborted
        /\ src' = src /\ at' = at /\ mCurrentFunc' = mCurrentFunc /\ decl' = decl /\ link' = link
    BY <1>6 DEF vars
  <2>. QED
    BY <2>1, LinksDie
<1>7. CASE OperatorIgnored
  <2>. DEFINE l == Top.tok
              j == src[l].next - 1
  <2>1. /\ at <= Len(src) /\ src[at].kind = "op" /\ ~aborted /\ aborted' = aborted
        /\ src' = src /\ at' = j /\ calls' = calls /\ mCurrentFunc' = mCurrentFunc
        /\ decl' = decl /\ link' = link
    BY <1>7 DEF OperatorIgnored, asgVars
  <2>2. /\ at <= j /\ j \in 1 .. Len(src) /\ l \in Opens(src) /\ src[l].kind = "list" /\ l < at
        /\ Follow(Around(src, j), calls)
    BY <2>1, ListEnds
  <2>3. Follow(Around(src, at), calls)
    BY DEF Walk
  <2>4. l \in Nat /\ src[l].next \in Nat
    BY <1>1, <2>2, OpensAre
  <2>5. ASSUME NEW f \in Around(src, j) PROVE f \in Around(src, at)
    <3>. HIDE DEF j
    <3>1. PICK k \in DOMAIN calls : calls[k].tok = f
      BY <2>2 DEF Follow
    <3>. QED
      BY <2>3, <3>1 DEF Follow
  <2>6. ASSUME NEW i \in DOMAIN src, i < j, src[i].kind = "ret" PROVE i < at
    <3>1. CASE ~(i < at)
      <4>1. i \in l + 1 .. src[l].next - 1
        BY <1>1, <2>2, <2>4, <2>6, <3>1
      <4>2. src[i].kind \notin Declares \cup Statements
        BY <1>1, <2>2, <4>1 DEF ParseTree, Flat
      <4>. QED
        BY <2>6, <4>2 DEF Statements
    <3>. QED
      BY <3>1
  <2>. HIDE DEF j
  <2>7. FunctionIsCurrent' /\ ReturnsLeaveTheirFunction'
    BY <2>1, <2>5, <2>6 DEF Linked, FunctionIsCurrent, ReturnsLeaveTheirFunction
  <2>. QED
    BY <2>1, <2>7 DEF Linked, ReferencesKept, OnlyUnknownNamesDie
<1>8. CASE FunctionBegin
  <2>1. /\ at <= Len(src) /\ src[at].kind = "fdef" /\ ~aborted /\ aborted' = aborted
        /\ src' = src /\ at' = at + 1 /\ mCurrentFunc' = at /\ decl' = decl /\ link' = link
    BY <1>8 DEF FunctionBegin, Visits, EnterFunction, asgVars
  <2>2. at \in Opens(src) /\ at \in Definitions(src)
    BY <1>1, <2>1, KindsAre DEF Opens, Definitions
  <2>3. Around(src, at + 1) = {at}
    <3>1. Around(src, at) = {}
      BY <1>1, <2>2 DEF ParseTree, SignaturesFit
    <3>2. Around(src, at + 1) = Around(src, at) \cup {at}
      BY <1>1, <2>2, AroundAfterOpen
    <3>. QED
      BY <3>1, <3>2
  <2>4. FunctionIsCurrent'
    BY <2>1, <2>3 DEF FunctionIsCurrent
  <2>5. ReturnsLeaveTheirFunction'
    BY <2>1, ReturnsStay
  <2>. QED
    BY <2>1, <2>4, <2>5 DEF Linked, ReferencesKept, OnlyUnknownNamesDie
<1>9. CASE StatementBegin
  <2>1. /\ at <= Len(src) /\ src[at].kind \in {"if", "while", "ret", "estmt"}
        /\ ~aborted /\ aborted' = aborted
        /\ src' = src /\ at' = at + 1 /\ mCurrentFunc' = mCurrentFunc /\ decl' = decl
        /\ link' = IF src[at].kind = "ret" THEN [link EXCEPT ![at] = mCurrentFunc] ELSE link
    BY <1>9 DEF StatementBegin, Visits
  <2>2. CASE src[at].kind # "ret"
    BY <2>1, <2>2, LinksStay
  <2>3. CASE src[at].kind = "ret"
    <3>1. link' = [link EXCEPT ![at] = mCurrentFunc] /\ DOMAIN link = DOMAIN src
      BY <2>1, <2>3 DEF Linked
    <3>2. \A i \in DOMAIN src : link'[i] = IF i = at THEN mCurrentFunc ELSE link[i]
      BY <3>1
    <3>3. FunctionIsCurrent'
      BY <2>1, <2>3, FunctionStays
    <3>4. \A f \in Around(src, at) : src[f].kind = "fdef" => mCurrentFunc = f
      BY DEF Linked, FunctionIsCurrent
    <3>5. ReturnsLeaveTheirFunction'
      <4>1. ASSUME NEW i \in DOMAIN src, i < at + 1, i # at PROVE i < at
        BY <1>1, <4>1
      <4>. QED
        BY <2>1, <3>2, <3>4, <4>1 DEF Linked, ReturnsLeaveTheirFunction
    <3>. QED
      BY <2>1, <3>1, <3>3, <3>5 DEF Linked, ReferencesKept, OnlyUnknownNamesDie
  <2>. QED
    BY <2>2, <2>3
<1>10. CASE Jump
  <2>1. /\ at <= Len(src) /\ src[at].kind \in {"break", "continue"}
        /\ ~aborted /\ aborted' = aborted
        /\ src' = src /\ at' = at + 1 /\ mCurrentFunc' = mCurrentFunc /\ decl' = decl
        /\ link' = [link EXCEPT ![at] = mCurrentIter]
    BY <1>10 DEF Jump, Visits
  <2>2. DOMAIN link = DOMAIN src
    BY DEF Linked
  <2>3. \A i \in DOMAIN src : i < at => link'[i] = link[i]
    BY <1>1, <2>1, <2>2
  <2>4. FunctionIsCurrent' /\ ReturnsLeaveTheirFunction'
    BY <2>1, <2>3, FunctionStays, ReturnsStay
  <2>. QED
    BY <2>1, <2>2, <2>4 DEF Linked, ReferencesKept, OnlyUnknownNamesDie
<1>. QED
  BY <1>2, <1>3, <1>4, <1>5, <1>6, <1>7, <1>8, <1>9, <1>10 DEF Next

-----------------------------------------------------------------------------
(* Theorems. *)

\* Whatever the source file, the calls in progress are those of the subtrees around
\* the next token and the chain of maps has the scopes around it: Ast2Asg.cpp's
\* operator() overloads return in the order in which the tree closes.
THEOREM AlwaysWalk == Spec => []Walk
<1>1. Init => Walk
  BY WalkBegins
<1>2. Walk /\ [Next]_vars => Walk'
  BY WalkIsInductive
<1>. QED
  BY <1>1, <1>2, PTL DEF Spec

\* C's own declaration of a name is found, unless it is one that is not entered yet.
FindsWhatIsEntered ==
  \A name \in Names :
    Visible(src, at, name) \notin NotEntered(src, at) => Resolve(name) = Visible(src, at, name)

\* For every source file and every name, a lookup along the chain of symbol tables finds
\* what C's block scope makes visible at the next token.  A variable whose initialiser is
\* being visited and the parameters of a list are not entered yet (Ast2Asg.cpp:870-880):
\* where C means one of these, what it hides is found.
THEOREM AlwaysScopesAreLexical == Spec => [](ScopesAreLexical /\ FindsWhatIsEntered)
<1>1. ASSUME Walk, NEW name \in Names
      PROVE  /\ Resolve(name) = VisibleBut(src, at, name, NotEntered(src, at))
             /\ Visible(src, at, name) \notin NotEntered(src, at) =>
                  Resolve(name) = Visible(src, at, name)
  <2>1. src \in Seq(Token) /\ ParseTree(src) /\ at \in Nat
    BY <1>1, FilesAre
  <2>. QED
    BY <1>1, <2>1, LookupFinds, EnteredIsVisibleBut, EnteredIsVisible
<1>2. Walk => ScopesAreLexical /\ FindsWhatIsEntered
  BY <1>1 DEF ScopesAreLexical, FindsWhatIsEntered
<1>. QED
  BY <1>2, AlwaysWalk, PTL

\* A reference is linked to the declaration that C means, unless C means one that was not
\* entered when the reference was visited: then it is linked to what that one hides.
ReferencesDenote ==
  \A i \in DOMAIN src : decl[i] # 0 =>
    LET meant == Visible(src, i, src[i].text)
    IN IF meant \in NotEntered(src, i)
       THEN decl[i] = VisibleBut(src, i, src[i].text, NotEntered(src, i))
       ELSE decl[i] = meant

\* The walk gives up on a name only where C knows none, or one that is not entered.
NamesDieRightly ==
  aborted /\ src[at].kind = "ref" =>
    Visible(src, at, src[at].text) \in {0} \cup NotEntered(src, at)

\* For every source file, a reference that has been linked keeps the declaration that C
\* means, and the walk gives up on a name only where C knows none; in both, up to the
\* declarations that Ast2Asg enters later than C does (Ast2Asg.cpp:870-880).
THEOREM AlwaysReferencesDenote == Spec => [](ReferencesDenote /\ NamesDieRightly)
<1>1. Init => Linked
  BY LinkedBegins
<1>2. Walk /\ Linked /\ [Next]_vars => Linked'
  BY LinkedIsInductive
<1>3. Walk /\ Linked => ReferencesDenote /\ NamesDieRightly
  <2>. SUFFICES ASSUME Walk, Linked PROVE ReferencesDenote /\ NamesDieRightly
    OBVIOUS
  <2>1. /\ src \in Seq(Token) /\ ParseTree(src) /\ at \in Nat
        /\ \A i \in DOMAIN src : i \in Nat
    BY FilesAre
  <2>2. ReferencesDenote
    <3>1. ASSUME NEW i \in DOMAIN src, decl[i] # 0
          PROVE  /\ decl[i] = VisibleBut(src, i, src[i].text, NotEntered(src, i))
                 /\ Visible(src, i, src[i].text) \notin NotEntered(src, i) =>
                      decl[i] = Visible(src, i, src[i].text)
      <4>1. decl[i] = Entered(src, i, src[i].text) /\ i \in Nat
        BY <2>1, <3>1 DEF Linked, ReferencesKept
      <4>. QED
        BY <2>1, <4>1, EnteredIsVisibleBut, EnteredIsVisible
    <3>. QED
      BY <3>1 DEF ReferencesDenote
  <2>3. NamesDieRightly
    <3>1. ASSUME aborted, src[at].kind = "ref" PROVE Entered(src, at, src[at].text) = 0
      BY <3>1 DEF Linked, OnlyUnknownNamesDie
    <3>2. Visible(src, at, src[at].text) \notin NotEntered(src, at) =>
            Entered(src, at, src[at].text) = Visible(src, at, src[at].text)
      BY <2>1, EnteredIsVisible
    <3>. QED
      BY <3>1, <3>2 DEF NamesDieRightly
  <2>. QED
    BY <2>2, <2>3
<1>. QED
  BY <1>1, <1>2, <1>3, AlwaysWalk, PTL DEF Spec

\* For every source file, a ReturnStmt is linked to the function it stands in: that
\* mCurrentFunc is never reset does no harm.
THEOREM AlwaysReturnsLeaveTheirFunction == Spec => []ReturnsLeaveTheirFunction
<1>1. Init => Linked
  BY LinkedBegins
<1>2. Walk /\ Linked /\ [Next]_vars => Linked'
  BY LinkedIsInductive
<1>3. Linked => ReturnsLeaveTheirFunction
  BY DEF Linked
<1>. QED
  BY <1>1, <1>2, <1>3, AlwaysWalk, PTL DEF Spec

\* When a whole file has been visited every call has returned and the file's own map is
\* the only one left.
THEOREM AlwaysEndsClean ==
  Spec => [](at = Len(src) + 1 => calls = <<>> /\ Len(symtbl) = 1)
<1>1. Walk => (at = Len(src) + 1 => calls = <<>> /\ Len(symtbl) = 1)
  <2>. SUFFICES ASSUME Walk, at = Len(src) + 1 PROVE calls = <<>> /\ Len(symtbl) = 1
    OBVIOUS
  <2>1. src \in Seq(Token) /\ ParseTree(src) /\ at \in Nat /\ Len(src) \in Nat
    BY FilesAre
  <2>2. Around(src, at) = {}
    <3>1. ASSUME NEW o \in Opens(src), at < src[o].next PROVE FALSE
      BY <2>1, <3>1, OpensAre
    <3>. QED
      BY <3>1 DEF Around
  <2>3. Scopes(src, at) = {0}
    <3>1. ASSUME NEW s, IsScope(src, s), at < src[s].next PROVE FALSE
      <4>1. src[s].next - 1 \in DOMAIN src /\ src[s].next \in Nat
        BY <2>1, <3>1, ScopesEnd
      <4>2. DOMAIN src = 1 .. Len(src)
        BY FilesAre
      <4>. QED
        BY <2>1, <3>1, <4>1, <4>2
    <3>2. \A s : s \in Scopes(src, at) <=> s = 0
      BY <3>1, ScopesAre
    <3>. QED
      BY <3>2
  <2>4. calls = <<>>
    <3>1. Follow({}, calls)
      BY <2>2 DEF Walk
    <3>2. PICK V : calls \in Seq(Frame(V))
      BY <3>1 DEF Follow
    <3>3. DOMAIN calls = {}
      BY <3>1 DEF Follow
    <3>. QED
      BY <3>2, <3>3
  <2>5. PICK ss : Mirrors(src, {0}, at, symtbl, ss)
    BY <2>3 DEF Walk
  <2>6. Len(symtbl) = 1
    <3>1. /\ Len(ss) \in Nat /\ DOMAIN ss = 1 .. Len(ss) /\ Len(ss) > 0
          /\ \A k \in DOMAIN ss : ss[k] \in Nat
      BY <2>5, MirrorsAre
    <3>2. /\ Len(ss) = Len(symtbl)
          /\ \A k \in DOMAIN ss : ss[k] = 0
          /\ \A j, k \in DOMAIN ss : j < k => ss[k] < ss[j]
      BY <2>5 DEF Mirrors
    <3>3. CASE Len(ss) > 1
      <4>1. 1 \in DOMAIN ss /\ 2 \in DOMAIN ss
        BY <3>1, <3>3
      <4>. QED
        BY <3>2, <4>1
    <3>. QED
      BY <3>1, <3>2, <3>3
  <2>. QED
    BY <2>4, <2>6
<1>. QED
  BY <1>1, AlwaysWalk, PTL
=============================================================================
