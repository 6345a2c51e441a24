----------------------------- MODULE CPGBuilder -----------------------------
(***************************************************************************)
(* The primitive every expression of the code property graph is built with *)
(* (CPGEmitter::resolveConnections over CPGProtoBuilder), as a discipline: *)
(* nodes are created one at a time, and a node is joined once with the     *)
(* expressions that become its children. The graph itself is append-only.  *)
(*                                                                         *)
(* A node is its id, 1 .. Len(entry); entry[i] is CPGProtoNode::entry, the *)
(* node where the control flow of i's expression starts (0: not set yet).  *)
(* ARGUMENT edges always accompany the AST edges of an expression, so ast  *)
(* stands for both.                                                        *)
(***************************************************************************)
EXTENDS Integers, Sequences

CONSTANTS MaxNodes,       \* bound on the size of the graph
          MaxChildren     \* bound on the children of one node

ASSUME BoundsAssumption == MaxNodes \in Nat /\ MaxChildren \in Nat

VARIABLES entry, ast, cfg

graph == <<entry, ast, cfg>>

Nodes == 1 .. Len(entry)

(* Variants that go wrong the way this code could.                         *)
FlowEdgesToSibling(p, kids) ==
  {<<kids[i], kids[i + 1]>> : i \in 1 .. Len(kids) - 1}
    \cup {<<kids[i], p>> : i \in {Len(kids)} \cap DOMAIN kids}

EntryIsParent(p, kids) == p

EntryNotSet(p, kids) == entry[p]

(* resolveConnections(parent, children), split as in the code: what it     *)
(* sets as the entry of the parent, and the edges it adds.                 *)
EntryOfParent(p, kids) == IF kids = <<>> THEN p ELSE entry[kids[1]]

ChildEdges(p, kids) == {<<p, kids[i]>> : i \in 1 .. Len(kids)}

FlowEdges(p, kids) ==
  {<<kids[i], entry[kids[i + 1]]>> : i \in 1 .. Len(kids) - 1}
    \cup {<<kids[i], p>> : i \in {Len(kids)} \cap DOMAIN kids}

----------------------------------------------------------------------------
HasParent(k) == \E p \in Nodes : <<p, k>> \in ast

HasChild(p) == \E k \in Nodes : <<p, k>> \in ast

(* The expressions not yet part of a larger one.                           *)
Roots == {r \in Nodes : entry[r] # 0 /\ ~HasParent(r)}

Init ==
  /\ entry = <<>>
  /\ ast = {}
  /\ cfg = {}

(* METHOD, BLOCK and the declarations take no part in expressions.         *)
Declares(n) ==
  /\ entry' = entry \o [i \in 1 .. n |-> 0]
  /\ UNCHANGED <<ast, cfg>>

Declare == \E n \in 1 .. MaxNodes - Len(entry) : Declares(n)

(* A node, its entry set to itself (a leaf, or an operator that is about   *)
(* to be joined) or not set yet (a call, created before its arguments).    *)
Creates(e) ==
  /\ entry' = Append(entry, e)
  /\ UNCHANGED <<ast, cfg>>

NewNode == Len(entry) < MaxNodes /\ \E e \in {0, Len(entry) + 1} : Creates(e)

Join(p, kids) ==
  /\ entry' = [entry EXCEPT ![p] = EntryOfParent(p, kids)]
  /\ ast' = ast \cup ChildEdges(p, kids)
  /\ cfg' = cfg \cup FlowEdges(p, kids)

(* p is the parent of nothing yet, and the kids are different expressions  *)
(* that are part of nothing yet.                                           *)
SharesKids(p, kids) ==
  /\ ~HasParent(p) /\ ~HasChild(p)
  /\ \A i, j \in DOMAIN kids : i # j => kids[i] # kids[j]
  /\ \A i \in DOMAIN kids : entry[kids[i]] # 0 /\ kids[i] # p

TakesUnfinished(p, kids) ==
  /\ ~HasParent(p) /\ ~HasChild(p)
  /\ \A i, j \in DOMAIN kids : i # j => kids[i] # kids[j]
  /\ \A i \in DOMAIN kids : ~HasParent(kids[i])

MayJoin(p, kids) ==
  /\ ~HasParent(p) /\ ~HasChild(p) /\ entry[p] \in {0, p}
  /\ \A i, j \in DOMAIN kids : i # j => kids[i] # kids[j]
  /\ \A i \in DOMAIN kids : kids[i] \in Roots \ {p}

Resolve ==
  \E p \in Nodes, n \in 0 .. MaxChildren : \E kids \in [1 .. n -> Nodes] :
    MayJoin(p, kids) /\ Join(p, kids)

Next == Declare \/ NewNode \/ Resolve

Spec == Init /\ [][Next]_graph

----------------------------------------------------------------------------
TypeOK ==
  /\ entry \in Seq(Nat)
  /\ \A i \in Nodes : entry[i] \in 0 .. Len(entry)
  /\ ast \subseteq Nodes \X Nodes
  /\ cfg \subseteq Nodes \X Nodes

(* No node is in two places of an expression, or in two expressions.       *)
OneParent ==
  \A k \in Nodes : \A p, q \in Nodes : <<p, k>> \in ast /\ <<q, k>> \in ast => p = q

(* No expression contains itself: in every set of nodes there is one whose *)
(* parent is not in the set.                                               *)
NoCycle ==
  \A S \in SUBSET Nodes : S # {} =>
    \E k \in S : \A p \in S : <<p, k>> \notin ast

(* Expressions are trees, and share no nodes.                              *)
AstIsForest == OneParent /\ NoCycle

(* The control flow within expressions never branches, and a finished      *)
(* expression leaves it open only at its root ...                          *)
FlowLeavesOnce ==
  \A a \in Nodes :
    /\ HasParent(a) <=> \E b \in Nodes : <<a, b>> \in cfg
    /\ \A b, c \in Nodes : <<a, b>> \in cfg /\ <<a, c>> \in cfg => b = c

(* ... and never merges: it enters every node of an expression once, from  *)
(* inside, except the entry of the whole.                                  *)
FlowEntersOnce ==
  /\ \A a, b, c \in Nodes : <<a, c>> \in cfg /\ <<b, c>> \in cfg => a = b /\ entry[c] # 0
  /\ \A r \in Roots : ~ \E a \in Nodes : <<a, entry[r]>> \in cfg
  /\ \A r, s \in Roots : entry[r] = entry[s] => r = s
  /\ \A c \in Nodes : entry[c] # 0 =>
       (\E a \in Nodes : <<a, c>> \in cfg) \/ (\E r \in Roots : entry[r] = c)

(* The control flow of an expression is a line that ends at its root.      *)
FlowIsLinear == FlowLeavesOnce /\ FlowEntersOnce

=============================================================================
