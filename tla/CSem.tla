------------------------------- MODULE CSem -------------------------------
(***************************************************************************)
(* What an ASG means: the order in which one call of one of its functions  *)
(* evaluates its atoms, each with an outcome that the program cannot       *)
(* foretell.  It is read off the structure of the ASG (C17 6.5.13, 6.5.14, *)
(* 6.8), without blocks or branches, and is the specification that the     *)
(* emitted IR has to implement.                                            *)
(***************************************************************************)
EXTENDS Asg

VARIABLES
  nodes,  \* the visits of the ASG
  node    \* the atom to be evaluated next, or one of the two below

Idle == 0
Returned == Len(nodes) + 1

\* The statement that token i is part of.
Owner(i) ==
  Innermost({j \in Ancestors(nodes, i) : nodes[j].kind \in StmtKinds \cup {"func", "gvar"}})

\* The first atom evaluated when control reaches statement token i.
Go[i \in DOMAIN nodes] ==
  LET owner == Owner(i)
  IN CASE nodes[i].kind \in {"expr", "decl", "ret", "if", "while"} -> i + 1
       [] nodes[i].kind \in {"declu", "proto"} -> Go[i + 1]
       [] nodes[i].kind = "retv" -> Returned
       [] nodes[i].kind = "break" -> Go[nodes[EnclosingLoop(nodes, i)].next]
       [] nodes[i].kind = "continue" -> EnclosingLoop(nodes, i) + 1
       [] nodes[i].kind = "else" -> Go[nodes[owner].next]
       [] nodes[i].kind = "end" ->
            CASE nodes[owner].kind = "while" -> owner + 1
              [] nodes[owner].kind = "if" -> Go[i + 1]
              [] OTHER -> Returned

\* The atom evaluated after the expression that ends at token i with value v.
After[x \in (DOMAIN nodes) \X BOOLEAN] ==
  LET i == x[1]
      v == x[2]
      then == nodes[i + 1]   \* the token that follows the expression
      owner == nodes[Owner(i + 1)]
  IN CASE then.kind = "and" -> IF v THEN i + 2 ELSE After[<<then.next - 1, v>>]
       [] then.kind = "or" -> IF v THEN After[<<then.next - 1, v>>] ELSE i + 2
       [] then.kind = "endbin" -> After[<<i + 1, v>>]
       [] then.kind = "fin" ->
            CASE owner.kind \in {"ret", "gvar"} -> Returned
              [] owner.kind \in {"expr", "decl"} -> Go[i + 2]
              [] owner.kind = "while" -> IF v THEN Go[i + 2] ELSE Go[owner.next]
              [] owner.kind = "if" ->
                   CASE v -> Go[i + 2]
                     [] ~v /\ owner.alt # 0 -> Go[owner.alt + 1]
                     [] OTHER -> Go[owner.next]

Init == node = Idle

Called ==
  /\ node = Idle
  /\ \E f \in DOMAIN nodes :
       \/ nodes[f].kind = "func" /\ node' = Go[f + 1]
       \/ nodes[f].kind = "gvar" /\ node' = f + 1
  /\ UNCHANGED nodes

Evaluate ==
  /\ node \in DOMAIN nodes
  /\ \E v \in BOOLEAN : node' = After[<<node, v>>]
  /\ UNCHANGED nodes

Next == Called \/ Evaluate

Spec == Init /\ [][Next]_<<nodes, node>>
=============================================================================
