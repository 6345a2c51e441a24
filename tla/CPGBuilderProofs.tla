-------------------------- MODULE CPGBuilderProofs --------------------------
(***************************************************************************)
(* Whatever expressions are built, and however many: every node has one    *)
(* parent, no expression contains itself, and the control flow through an  *)
(* expression is a single line from its entry to its root.                 *)
(*                                                                         *)
(* The one thing the invariants of CPGBuilder lack to be inductive is that *)
(* the entry of an expression is itself a finished node.                   *)
(***************************************************************************)
EXTENDS CPGBuilder, TLAPS

EntryIsFinished == \A r \in Nodes : entry[r] # 0 => entry[entry[r]] # 0

BuilderInvariant ==
  /\ TypeOK
  /\ EntryIsFinished
  /\ OneParent
  /\ NoCycle
  /\ FlowLeavesOnce
  /\ FlowEntersOnce

----------------------------------------------------------------------------
(* A function on 1 .. n is a sequence of length n.                         *)
LEMMA FunctionIsSeq ==
  ASSUME NEW S, NEW n \in Nat, NEW s \in [1 .. n -> S]
  PROVE  s \in Seq(S) /\ Len(s) = n /\ DOMAIN s = 1 .. n
  OBVIOUS

LEMMA InitInvariant == Init => BuilderInvariant
<1> SUFFICES ASSUME Init PROVE BuilderInvariant
  OBVIOUS
<1>1. Nodes = {} /\ entry \in Seq(Nat)
  BY DEF Init, Nodes
<1> QED
  BY <1>1 DEF Init, BuilderInvariant, TypeOK, EntryIsFinished, OneParent, NoCycle,
              FlowLeavesOnce, FlowEntersOnce, HasParent, Roots

----------------------------------------------------------------------------
(* Appending nodes that are not connected to anything. A new node is its   *)
(* own entry or has none yet.                                              *)
LEMMA AppendStep ==
  ASSUME BuilderInvariant,
         Len(entry) <= Len(entry'),
         entry' \in Seq(Nat),
         \A i \in Nodes : entry'[i] = entry[i],
         \A i \in Nodes' \ Nodes : entry'[i] \in {0, i},
         UNCHANGED <<ast, cfg>>
  PROVE  BuilderInvariant'
<1> USE DEF BuilderInvariant
<1>1. /\ Nodes \subseteq Nodes'
      /\ ast \subseteq Nodes \X Nodes /\ cfg \subseteq Nodes \X Nodes
      /\ \A i \in Nodes : entry[i] \in {0} \cup Nodes
  BY DEF TypeOK, Nodes
<1>2. /\ \A a \in Nodes' : HasParent(a)' <=> (a \in Nodes /\ HasParent(a))
      /\ \A a \in Nodes' \ Nodes : \A b : <<a, b>> \notin cfg /\ <<b, a>> \notin cfg
      /\ \A a \in Nodes' \ Nodes : \A b : <<a, b>> \notin ast /\ <<b, a>> \notin ast
  BY <1>1 DEF HasParent
<1>3. /\ \A r \in Nodes : r \in Roots' <=> r \in Roots
      /\ \A r \in Roots' \ Nodes : entry'[r] = r
      /\ Roots \subseteq Nodes
  BY <1>1, <1>2 DEF Roots
<1>4. TypeOK'
  <2>1. \A i \in Nodes' : entry'[i] \in 0 .. Len(entry')
    BY DEF TypeOK, Nodes
  <2> QED
    BY <1>1, <2>1 DEF TypeOK
<1>5. EntryIsFinished'
  BY <1>1 DEF EntryIsFinished
<1>6. OneParent'
  BY <1>1 DEF OneParent
<1>7. NoCycle'
  <2> SUFFICES ASSUME NEW S \in SUBSET Nodes', S # {}
               PROVE  \E k \in S : \A p \in S : <<p, k>> \notin ast
    BY DEF NoCycle
  <2>1. CASE S \cap Nodes = {}
    BY <1>1, <2>1
  <2>2. CASE S \cap Nodes # {}
    <3>1. PICK k \in S \cap Nodes : \A p \in S \cap Nodes : <<p, k>> \notin ast
      BY <2>2 DEF NoCycle
    <3> QED
      BY <1>1, <3>1
  <2> QED
    BY <2>1, <2>2
<1>8. FlowLeavesOnce'
  BY <1>1, <1>2 DEF FlowLeavesOnce
<1>9. FlowEntersOnce'
  <2>1. \A a, b, c \in Nodes' : <<a, c>> \in cfg /\ <<b, c>> \in cfg => a = b /\ entry'[c] # 0
    BY <1>1 DEF FlowEntersOnce
  <2>2. \A r \in Roots' : ~ \E a \in Nodes' : <<a, entry'[r]>> \in cfg
    BY <1>1, <1>2, <1>3 DEF FlowEntersOnce, Roots
  <2>3. \A r, s \in Roots' : entry'[r] = entry'[s] => r = s
    <3>1. \A r \in Roots : entry'[r] \in Nodes
      BY <1>1, <1>3 DEF Roots
    <3> QED
      BY <1>3, <3>1 DEF FlowEntersOnce, Roots
  <2>4. \A c \in Nodes' : entry'[c] # 0 =>
          (\E a \in Nodes' : <<a, c>> \in cfg) \/ (\E r \in Roots' : entry'[r] = c)
    <3> SUFFICES ASSUME NEW c \in Nodes', entry'[c] # 0
                 PROVE  (\E a \in Nodes' : <<a, c>> \in cfg) \/ (\E r \in Roots' : entry'[r] = c)
      OBVIOUS
    <3>1. CASE c \in Nodes
      BY <1>1, <1>3, <3>1 DEF FlowEntersOnce
    <3>2. CASE c \notin Nodes
      BY <1>2, <3>2 DEF Roots
    <3> QED
      BY <3>1, <3>2
  <2> QED
    BY <2>1, <2>2, <2>3, <2>4 DEF FlowEntersOnce
<1> QED
  BY <1>4, <1>5, <1>6, <1>7, <1>8, <1>9

----------------------------------------------------------------------------
(* Joining a node with finished expressions.                               *)
LEMMA JoinStep ==
  ASSUME BuilderInvariant,
         NEW p \in Nodes, NEW n \in Nat, NEW kids \in [1 .. n -> Nodes],
         MayJoin(p, kids), Join(p, kids)
  PROVE  BuilderInvariant'
<1> USE DEF BuilderInvariant
<1> DEFINE kid(i) == kids[i]
           start(i) == entry[kids[i]]
<1>1. /\ entry' = [entry EXCEPT ![p] = EntryOfParent(p, kids)]
      /\ Nodes' = Nodes
      /\ \A i \in Nodes : i # p => entry'[i] = entry[i]
      /\ entry'[p] = IF n = 0 THEN p ELSE start(1)
      /\ ast' = ast \cup {<<p, kid(i)>> : i \in 1 .. n}
      /\ cfg' = cfg \cup {<<kid(i), start(i + 1)>> : i \in 1 .. n - 1}
                   \cup {<<kid(i), p>> : i \in {n} \cap 1 .. n}
      /\ Len(entry') = Len(entry)
  <2>1. kids \in Seq(Nodes) /\ Len(kids) = n /\ DOMAIN kids = 1 .. n
    BY FunctionIsSeq
  <2>2. kids = <<>> <=> n = 0
    BY <2>1
  <2>3. entry \in Seq(Nat) /\ DOMAIN entry = Nodes
    BY DEF TypeOK, Nodes
  <2>4. entry' = [entry EXCEPT ![p] = EntryOfParent(p, kids)]
    BY DEF Join
  <2>5. Len(entry') = Len(entry)
    BY <2>3, <2>4
  <2> QED
    BY <2>1, <2>2, <2>3, <2>4, <2>5
       DEF Join, EntryOfParent, ChildEdges, FlowEdges, Nodes
<1>2. /\ \A i \in Nodes : entry[i] \in {0} \cup Nodes
      /\ ast \subseteq Nodes \X Nodes /\ cfg \subseteq Nodes \X Nodes
      /\ 0 \notin Nodes
  BY DEF TypeOK, Nodes
<1>3. /\ ~HasParent(p) /\ ~HasChild(p) /\ entry[p] \in {0, p}
      /\ \A i, j \in 1 .. n : kid(i) = kid(j) => i = j
      /\ \A i \in 1 .. n : kid(i) \in Roots /\ kid(i) # p /\ kid(i) \in Nodes
      /\ \A i \in 1 .. n : ~HasParent(kid(i)) /\ start(i) \in Nodes /\ start(i) # 0
  BY <1>2 DEF MayJoin, Roots
(* The entries of the children are different, and neither they nor p are   *)
(* entered yet.                                                            *)
<1>4. /\ \A i, j \in 1 .. n : start(i) = start(j) => i = j
      /\ \A i \in 1 .. n, a \in Nodes : <<a, start(i)>> \notin cfg
      /\ \A i \in 1 .. n : entry[start(i)] # 0
  BY <1>3 DEF FlowEntersOnce, EntryIsFinished
<1>5. /\ \A r \in Roots : r # p => entry[r] # p
      /\ \A a \in Nodes : <<a, p>> \notin cfg
      /\ \A i \in 1 .. n : start(i) # p
  <2>1. CASE entry[p] = 0
    BY <1>3, <2>1 DEF FlowEntersOnce, EntryIsFinished, Roots
  <2>2. CASE entry[p] = p
    <3>1. p \in Roots
      BY <1>2, <1>3, <2>2 DEF Roots
    <3> QED
      BY <1>3, <2>2, <3>1 DEF FlowEntersOnce
  <2> QED
    BY <1>3, <2>1, <2>2
<1>6. /\ entry'[p] \in Nodes /\ entry'[p] # 0
      /\ n # 0 => 1 \in 1 .. n /\ n \in 1 .. n
  BY <1>1, <1>2, <1>3
<1>7. TypeOK'
  <2>1. entry' \in Seq(Nat)
    BY <1>1, <1>6 DEF TypeOK, Nodes
  <2>2. \A i \in Nodes' : entry'[i] \in 0 .. Len(entry')
    BY <1>1, <1>2, <1>6 DEF Nodes, TypeOK
  <2>3. ast' \subseteq Nodes' \X Nodes' /\ cfg' \subseteq Nodes' \X Nodes'
    BY <1>1, <1>2, <1>3
  <2> QED
    BY <2>1, <2>2, <2>3 DEF TypeOK
<1>8. EntryIsFinished'
  <2> SUFFICES ASSUME NEW r \in Nodes, entry'[r] # 0
               PROVE  entry'[entry'[r]] # 0
    BY <1>1 DEF EntryIsFinished
  <2>1. CASE r # p
    BY <1>1, <1>2, <1>6, <2>1 DEF EntryIsFinished
  <2>2. CASE r = p
    BY <1>1, <1>2, <1>4, <1>5, <1>6, <2>2
  <2> QED
    BY <2>1, <2>2
<1>9. OneParent'
  <2> SUFFICES ASSUME NEW k \in Nodes, NEW q \in Nodes, NEW r \in Nodes,
                      <<q, k>> \in ast', <<r, k>> \in ast'
               PROVE  q = r
    BY <1>1 DEF OneParent
  <2>1. CASE \E i \in 1 .. n : k = kid(i)
    <3>1. \A x \in Nodes : <<x, k>> \notin ast
      BY <1>3, <2>1 DEF HasParent
    <3> QED
      BY <1>1, <3>1
  <2>2. CASE \A i \in 1 .. n : k # kid(i)
    <3>1. <<q, k>> \in ast /\ <<r, k>> \in ast
      BY <1>1, <2>2
    <3> QED
      BY <3>1 DEF OneParent
  <2> QED
    BY <2>1, <2>2
<1>10. NoCycle'
  <2> SUFFICES ASSUME NEW S \in SUBSET Nodes, S # {}
               PROVE  \E k \in S : \A q \in S : <<q, k>> \notin ast'
    BY <1>1 DEF NoCycle
  <2>1. CASE p \in S
    <3>1. \A q \in S : <<q, p>> \notin ast'
      BY <1>1, <1>3 DEF HasParent
    <3> QED
      BY <2>1, <3>1
  <2>2. CASE p \notin S
    <3>1. PICK k \in S : \A q \in S : <<q, k>> \notin ast
      BY DEF NoCycle
    <3> QED
      BY <1>1, <2>2, <3>1
  <2> QED
    BY <2>1, <2>2
<1>11. \A a \in Nodes : HasParent(a)' <=> HasParent(a) \/ \E i \in 1 .. n : a = kid(i)
  BY <1>1 DEF HasParent
(* The flow out of a child goes to its sibling's entry or to p.            *)
<1>12. FlowLeavesOnce'
  <2> SUFFICES ASSUME NEW a \in Nodes
               PROVE  /\ HasParent(a)' <=> \E b \in Nodes : <<a, b>> \in cfg'
                      /\ \A b, c \in Nodes : <<a, b>> \in cfg' /\ <<a, c>> \in cfg' => b = c
    BY <1>1 DEF FlowLeavesOnce
  <2>1. CASE \A i \in 1 .. n : a # kid(i)
    <3>1. \A b \in Nodes : <<a, b>> \in cfg' <=> <<a, b>> \in cfg
      BY <1>1, <2>1
    <3> QED
      BY <1>11, <2>1, <3>1 DEF FlowLeavesOnce
  <2>2. CASE \E i \in 1 .. n : a = kid(i)
    <3>1. PICK i \in 1 .. n : a = kid(i)
      BY <2>2
    <3>2. \A b \in Nodes : <<a, b>> \notin cfg
      BY <1>3, <3>1 DEF FlowLeavesOnce
    <3>3. CASE i = n
      <4>1. \A b \in Nodes : <<a, b>> \in cfg' <=> b = p
        BY <1>1, <1>3, <3>1, <3>2, <3>3
      <4> QED
        BY <1>11, <3>1, <4>1
    <3>4. CASE i # n
      <4>1. i \in 1 .. n - 1 /\ i + 1 \in 1 .. n
        BY <3>4
      <4>2. \A b \in Nodes : <<a, b>> \in cfg' <=> b = start(i + 1)
        BY <1>1, <1>3, <3>1, <3>2, <3>4, <4>1
      <4>3. HasParent(a)' /\ start(i + 1) \in Nodes
        BY <1>3, <1>11, <3>1, <4>1
      <4> HIDE DEF start, BuilderInvariant
      <4> QED
        BY <4>2, <4>3
    <3> QED
      BY <3>3, <3>4
  <2> QED
    BY <2>1, <2>2
<1>13. Roots' = (Roots \ {kid(i) : i \in 1 .. n}) \cup {p}
  BY <1>1, <1>3, <1>6, <1>11 DEF Roots
<1>14. FlowEntersOnce'
  (* What is new is entered by one child only.                             *)
  <2>1. /\ \A a \in Nodes : <<a, p>> \in cfg' <=> n # 0 /\ a = kid(n)
        /\ \A i \in 1 .. n - 1, a \in Nodes : <<a, start(i + 1)>> \in cfg' <=> a = kid(i)
    <3>1. \A i \in 1 .. n - 1 : i + 1 \in 1 .. n
      OBVIOUS
    <3>2. \A i, j \in 1 .. n - 1 : start(i + 1) = start(j + 1) => i = j
      BY <1>4, <3>1
    <3> QED
      BY <1>1, <1>3, <1>4, <1>5, <1>6, <3>1, <3>2
  <2>2. \A a, c \in Nodes : c # p /\ (\A i \in 1 .. n - 1 : c # start(i + 1)) =>
          (<<a, c>> \in cfg' <=> <<a, c>> \in cfg)
    BY <1>1
  <2>3. \A a, b, c \in Nodes : <<a, c>> \in cfg' /\ <<b, c>> \in cfg' => a = b /\ entry'[c] # 0
    <3> SUFFICES ASSUME NEW a \in Nodes, NEW b \in Nodes, NEW c \in Nodes,
                        <<a, c>> \in cfg', <<b, c>> \in cfg'
                 PROVE  a = b /\ entry'[c] # 0
      OBVIOUS
    <3>1. CASE c = p
      BY <1>6, <2>1, <3>1
    <3>2. CASE c # p /\ \E i \in 1 .. n - 1 : c = start(i + 1)
      <4>1. PICK i \in 1 .. n - 1 : c = start(i + 1)
        BY <3>2
      <4>2. i + 1 \in 1 .. n
        OBVIOUS
      <4>3. a = kid(i) /\ b = kid(i)
        BY <2>1, <4>1
      <4>4. entry[c] # 0 /\ c \in Nodes
        BY <1>4, <4>1, <4>2
      <4>5. entry'[c] = entry[c]
        BY <1>1, <3>2
      <4> QED
        BY <4>3, <4>4, <4>5
    <3>3. CASE c # p /\ \A i \in 1 .. n - 1 : c # start(i + 1)
      BY <1>1, <2>2, <3>3 DEF FlowEntersOnce
    <3> QED
      BY <3>1, <3>2, <3>3
  <2>4. entry'[p] = p \/ \E i \in 1 .. n : i = 1 /\ entry'[p] = start(i)
    BY <1>1, <1>6
  <2>5. \A r \in Roots' : ~ \E a \in Nodes : <<a, entry'[r]>> \in cfg'
    <3> SUFFICES ASSUME NEW r \in Roots', NEW a \in Nodes, <<a, entry'[r]>> \in cfg'
                 PROVE  FALSE
      OBVIOUS
    <3>1. CASE r = p
      <4>1. CASE n = 0
        BY <1>1, <2>1, <3>1, <4>1
      <4>2. CASE n # 0
        <5>1. entry'[p] = start(1) /\ 1 \in 1 .. n /\ \A i \in 1 .. n - 1 : i + 1 \in 1 .. n /\ i + 1 # 1
          BY <1>1, <4>2
        <5>2. entry'[p] # p /\ \A i \in 1 .. n - 1 : entry'[p] # start(i + 1)
          BY <1>4, <1>5, <5>1
        <5> QED
          BY <1>4, <1>6, <2>2, <3>1, <5>1, <5>2
      <4> QED
        BY <4>1, <4>2
    <3>2. CASE r # p
      <4>1. r \in Roots /\ r \in Nodes /\ entry'[r] = entry[r] /\ \A i \in 1 .. n : r # kid(i)
        BY <1>1, <1>13, <3>2 DEF Roots
      <4>2. entry[r] # p /\ \A i \in 1 .. n : entry[r] # start(i)
        BY <1>3, <1>5, <3>2, <4>1 DEF FlowEntersOnce
      <4>3. \A i \in 1 .. n - 1 : i + 1 \in 1 .. n
        OBVIOUS
      <4>4. entry[r] \in Nodes
        BY <1>2, <4>1 DEF Roots
      <4> QED
        BY <2>2, <4>1, <4>2, <4>3, <4>4 DEF FlowEntersOnce
    <3> QED
      BY <3>1, <3>2
  <2>6. \A r, s \in Roots' : entry'[r] = entry'[s] => r = s
    <3>1. \A s \in Roots' : s # p =>
            /\ s \in Roots /\ entry'[s] = entry[s] /\ entry[s] # p
            /\ \A i \in 1 .. n : entry[s] # start(i)
      BY <1>1, <1>3, <1>5, <1>13 DEF FlowEntersOnce, Roots
    <3>2. \A s \in Roots' : s # p => entry'[s] # entry'[p]
      BY <2>4, <3>1
    <3> QED
      BY <3>1, <3>2 DEF FlowEntersOnce
  <2>7. \A c \in Nodes : entry'[c] # 0 =>
          (\E a \in Nodes : <<a, c>> \in cfg') \/ (\E r \in Roots' : entry'[r] = c)
    <3> SUFFICES ASSUME NEW c \in Nodes, entry'[c] # 0
                 PROVE  (\E a \in Nodes : <<a, c>> \in cfg') \/ (\E r \in Roots' : entry'[r] = c)
      OBVIOUS
    <3>1. CASE c = p
      BY <1>1, <1>3, <1>6, <1>13, <2>1, <3>1
    <3>2. CASE c # p /\ \E a \in Nodes : <<a, c>> \in cfg
      BY <1>1, <3>2
    <3>3. CASE c # p /\ \E r \in Roots : entry[r] = c
      <4>1. PICK r \in Roots : entry[r] = c
        BY <3>3
      <4>2. CASE \A i \in 1 .. n : r # kid(i)
        <5>1. r # p \/ n = 0
          BY <1>2, <1>3, <3>3, <4>1 DEF Roots
        <5> QED
          BY <1>1, <1>3, <1>13, <3>3, <4>1, <4>2, <5>1 DEF Roots
      <4>3. CASE \E i \in 1 .. n : r = kid(i)
        <5>1. PICK i \in 1 .. n : r = kid(i)
          BY <4>3
        <5>2. CASE i = 1
          BY <1>1, <1>13, <4>1, <5>1, <5>2
        <5>3. CASE i # 1
          <6>1. i - 1 \in 1 .. n - 1 /\ i - 1 \in 1 .. n /\ (i - 1) + 1 = i
            BY <5>3
          <6> QED
            BY <1>3, <2>1, <4>1, <5>1, <6>1
        <5> QED
          BY <5>2, <5>3
      <4> QED
        BY <4>2, <4>3
    <3> QED
      BY <1>1, <3>1, <3>2, <3>3 DEF FlowEntersOnce
  <2>8. Nodes' = Nodes
    BY <1>1
  <2> HIDE DEF BuilderInvariant
  <2> QED
    BY <2>3, <2>5, <2>6, <2>7, <2>8 DEF FlowEntersOnce
<1> QED
  BY <1>7, <1>8, <1>9, <1>10, <1>12, <1>14

----------------------------------------------------------------------------
LEMMA DeclaresStep ==
  ASSUME BuilderInvariant, NEW n \in Nat, Declares(n)
  PROVE  BuilderInvariant'
<1>1. entry \in Seq(Nat) /\ Nodes = 1 .. Len(entry) /\ Len(entry) \in Nat
  BY DEF BuilderInvariant, TypeOK, Nodes
<1> DEFINE new == [i \in 1 .. n |-> 0]
<1>2. new \in Seq(Nat) /\ Len(new) = n
  <2>1. new \in [1 .. n -> Nat]
    OBVIOUS
  <2> HIDE DEF new
  <2> QED
    BY <2>1, FunctionIsSeq
<1>3. entry' = entry \o new /\ UNCHANGED <<ast, cfg>>
  BY DEF Declares
<1>4. /\ entry' \in Seq(Nat) /\ Len(entry') = Len(entry) + n
      /\ \A i \in 1 .. Len(entry') :
           entry'[i] = IF i <= Len(entry) THEN entry[i] ELSE new[i - Len(entry)]
  <2> HIDE DEF new
  <2> QED
    BY <1>1, <1>2, <1>3 DEF new
<1>5. \A i \in 1 .. Len(entry') : i > Len(entry) => entry'[i] = 0
  BY <1>1, <1>4
<1> QED
  BY <1>1, <1>3, <1>4, <1>5, AppendStep DEF Nodes

LEMMA CreatesStep ==
  ASSUME BuilderInvariant, NEW e \in {0, Len(entry) + 1}, Creates(e)
  PROVE  BuilderInvariant'
<1>1. entry \in Seq(Nat) /\ Nodes = 1 .. Len(entry) /\ Len(entry) \in Nat
  BY DEF BuilderInvariant, TypeOK, Nodes
<1>2. entry' = Append(entry, e) /\ UNCHANGED <<ast, cfg>>
  BY DEF Creates
<1>3. /\ entry' \in Seq(Nat) /\ Len(entry') = Len(entry) + 1
      /\ \A i \in 1 .. Len(entry) : entry'[i] = entry[i]
      /\ entry'[Len(entry) + 1] = e
  BY <1>1, <1>2
<1> QED
  BY <1>1, <1>2, <1>3, AppendStep DEF Nodes

LEMMA BuilderStepInvariant == BuilderInvariant /\ [Next]_graph => BuilderInvariant'
<1> SUFFICES ASSUME BuilderInvariant, [Next]_graph PROVE BuilderInvariant'
  OBVIOUS
<1>1. entry \in Seq(Nat) /\ Nodes = 1 .. Len(entry) /\ Len(entry) \in Nat
  BY DEF BuilderInvariant, TypeOK, Nodes
<1>2. CASE Declare
  <2>1. PICK n \in 1 .. MaxNodes - Len(entry) : Declares(n)
    BY <1>2 DEF Declare
  <2>2. n \in Nat
    BY <1>1, BoundsAssumption
  <2> QED
    BY <2>1, <2>2, DeclaresStep
<1>3. CASE NewNode
  BY <1>3, CreatesStep DEF NewNode
<1>4. CASE Resolve
  <2>1. PICK p \in Nodes, n \in 0 .. MaxChildren :
          \E kids \in [1 .. n -> Nodes] : MayJoin(p, kids) /\ Join(p, kids)
    BY <1>4 DEF Resolve
  <2>2. n \in Nat
    BY BoundsAssumption
  <2> QED
    BY <2>1, <2>2, JoinStep
<1>5. CASE UNCHANGED graph
  <2>1. entry' = entry /\ UNCHANGED <<ast, cfg>> /\ Nodes' = Nodes
    BY <1>5 DEF graph, Nodes
  <2> QED
    BY <1>1, <2>1, AppendStep
<1> QED
  BY <1>2, <1>3, <1>4, <1>5 DEF Next

(* Every expression the emitter may build is a tree, and its control flow  *)
(* (CPGEmitter::resolveCFGConnections) a line through all of its nodes.    *)
THEOREM BuilderInvariantHolds == Spec => []BuilderInvariant
<1>1. Init => BuilderInvariant
  BY InitInvariant
<1>2. BuilderInvariant /\ [Next]_graph => BuilderInvariant'
  BY BuilderStepInvariant
<1> QED
  BY <1>1, <1>2, PTL DEF Spec

(* The types: entry ids are ids of nodes, edges are between nodes.         *)
THEOREM BuilderTypeCorrect == Spec => []TypeOK
<1>1. BuilderInvariant => TypeOK
  BY DEF BuilderInvariant
<1> QED
  BY <1>1, BuilderInvariantHolds, PTL

(* A node is an operand once: expressions are trees and never share nodes. *)
THEOREM ExpressionsAreTrees == Spec => []AstIsForest
<1>1. BuilderInvariant => AstIsForest
  BY DEF BuilderInvariant, AstIsForest
<1> QED
  BY <1>1, BuilderInvariantHolds, PTL

(* Control flow neither branches nor merges within an expression.          *)
THEOREM FlowIsALine == Spec => []FlowIsLinear
<1>1. BuilderInvariant => FlowIsLinear
  BY DEF BuilderInvariant, FlowIsLinear
<1> QED
  BY <1>1, BuilderInvariantHolds, PTL

=============================================================================
