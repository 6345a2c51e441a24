------------------------- MODULE MethodEmitterProofs -------------------------
(***************************************************************************)
(* For every well-formed function: the types of MethodEmitter, that what   *)
(* CPGInstVisitor collected and what the emitter refers to agree, that     *)
(* every step of the emitter is a step of CPGBuilder, so that the          *)
(* expressions it builds are trees with a linear control flow, and that    *)
(* the control flow of the finished method is that of the LLVM function.   *)
(***************************************************************************)
EXTENDS MethodFlow, FiniteSetTheorems, FunctionTheorems, SequenceTheorems,
        WellFoundedInduction, TLAPS

BP == INSTANCE CPGBuilderProofs WITH MaxNodes <- 100, MaxChildren <- 4

----------------------------------------------------------------------------
(* Induction, for sets: a set of numbers has a least one.                  *)
LEMMA Least ==
  ASSUME NEW S \in SUBSET Nat, S # {}
  PROVE  \E k \in S : \A j \in S : k <= j
<1>1. \E R : IsWellFoundedOn(R, Nat) /\ \A x, y \in Nat : x < y => <<x, y>> \in R
  <2>1. IsWellFoundedOn(OpToRel(<, Nat), Nat)
    BY NatLessThanWellFounded
  <2>2. \A x, y \in Nat : x < y => <<x, y>> \in OpToRel(<, Nat)
    BY DEF OpToRel
  <2> HIDE DEF OpToRel
  <2> QED
    BY <2>1, <2>2, Zenon
<1>2. ASSUME NEW R, IsWellFoundedOn(R, Nat), \A x, y \in Nat : x < y => <<x, y>> \in R
      PROVE  \E k \in S : \A j \in S : k <= j
  <2>1. S \subseteq Nat
    OBVIOUS
  <2>2. \E x \in S : \A y \in S : ~ (<<y, x>> \in R)
    <3>1. \A RR, SS, TT : IsWellFoundedOn(RR, SS) /\ TT \subseteq SS /\ TT # {}
              => \E x \in TT : \A y \in TT : ~ (<<y, x>> \in RR)
      BY WFMin, Zenon
    <3>2. IsWellFoundedOn(R, Nat) /\ S \subseteq Nat /\ S # {}
      BY <1>2, <2>1
    <3> HIDE DEF IsWellFoundedOn
    <3> QED
      BY <3>1, <3>2, Zenon
  <2>3. \A x, y \in S : ~ (<<y, x>> \in R) => x <= y
    BY <1>2, <2>1
  <2> QED
    BY <2>2, <2>3
<1> QED
  BY <1>1, <1>2

LEMMA Inductive ==
  ASSUME NEW S, 0 \in S, \A n \in Nat : n \in S => n + 1 \in S
  PROVE  \A n \in Nat : n \in S
<1> DEFINE Bad == {n \in Nat : n \notin S}
<1> SUFFICES ASSUME Bad # {} PROVE FALSE
  OBVIOUS
<1>1. Bad \in SUBSET Nat
  OBVIOUS
<1>2. \E k \in Bad : \A j \in Bad : k <= j
  <2> HIDE DEF Bad
  <2> QED
    BY <1>1, Least
<1>3. PICK k \in Bad : \A j \in Bad : k <= j
  BY <1>2
<1>4. k \in Nat /\ k # 0
  BY <1>3
<1>5. k - 1 \in Nat /\ ~ (k <= k - 1)
  BY <1>4
<1>6. k - 1 \in S
  BY <1>3, <1>5
<1>7. (k - 1) + 1 \in S
  BY <1>5, <1>6
<1>8. (k - 1) + 1 = k
  BY <1>4
<1> QED
  BY <1>3, <1>7, <1>8

(* What there is to do with a value, step by step.                         *)
Steps(S) == [Nat -> [S -> S]]

Iterates(f, S, a, G) ==
  /\ f \in [Nat -> S]
  /\ f[0] = a
  /\ \A n \in Nat : f[n + 1] = G[n][f[n]]

(* A value that is changed by a function n times: what recursion over the  *)
(* numbers defines exists.                                                 *)
LEMMA Iteration ==
  ASSUME NEW S, NEW a \in S, NEW G \in Steps(S)
  PROVE  \E f : Iterates(f, S, a, G)
<1> USE DEF Steps
<1> DEFINE Upto(n, f) == /\ f \in [0 .. n -> S] /\ f[0] = a
                         /\ \A i \in 0 .. n - 1 : f[i + 1] = G[i][f[i]]
<1>1. \A n \in Nat : \E f : Upto(n, f)
  <2> DEFINE Some == {n \in Nat : \E f : Upto(n, f)}
  <2>1. 0 \in Some
    <3>1. Upto(0, [i \in 0 .. 0 |-> a])
      OBVIOUS
    <3> QED
      BY <3>1
  <2>2. ASSUME NEW n \in Nat, n \in Some PROVE n + 1 \in Some
    <3>1. PICK f : Upto(n, f)
      BY <2>2
    <3> DEFINE g == [i \in 0 .. n + 1 |-> IF i = n + 1 THEN G[n][f[n]] ELSE f[i]]
    <3>2. f[n] \in S /\ G[n][f[n]] \in S
      BY <3>1
    <3>3. g \in [0 .. n + 1 -> S] /\ g[0] = a
      BY <3>1, <3>2
    <3>4. ASSUME NEW i \in 0 .. (n + 1) - 1 PROVE g[i + 1] = G[i][g[i]]
      <4>1. CASE i = n
        <5>1. i \in 0 .. n + 1 /\ i + 1 \in 0 .. n + 1 /\ i # n + 1 /\ i + 1 = n + 1
          BY <4>1
        <5>2. g[i + 1] = G[n][f[n]] /\ g[i] = f[i]
          BY <5>1
        <5> HIDE DEF g
        <5> QED
          BY <4>1, <5>2
      <4>2. CASE i # n
        <5>1. i \in 0 .. n - 1 /\ i + 1 \in 0 .. n + 1 /\ i \in 0 .. n + 1
               /\ i # n + 1 /\ i + 1 # n + 1
          BY <4>2
        <5>2. g[i + 1] = f[i + 1] /\ g[i] = f[i]
          BY <5>1
        <5>3. f[i + 1] = G[i][f[i]]
          BY <3>1, <5>1
        <5> HIDE DEF g
        <5> QED
          BY <5>2, <5>3
      <4> QED
        BY <4>1, <4>2
    <3>5. Upto(n + 1, g)
      BY <3>3, <3>4
    <3>6. n + 1 \in Nat
      OBVIOUS
    <3> HIDE DEF g, Upto
    <3> QED
      BY <3>5, <3>6
  <2> HIDE DEF Some
  <2>3. \A n \in Nat : n \in Some
    BY <2>1, <2>2, Inductive
  <2> QED
    BY <2>3 DEF Some
<1>2. \A n, m \in Nat : \A f, g : n <= m /\ Upto(n, f) /\ Upto(m, g) => f[n] = g[n]
  <2> SUFFICES ASSUME NEW n \in Nat, NEW m \in Nat, NEW f, NEW g,
                      n <= m, Upto(n, f), Upto(m, g)
               PROVE  f[n] = g[n]
    <3> HIDE DEF Upto
    <3> QED
      BY Zenon
  <2> DEFINE Same == {i \in Nat : i <= n => f[i] = g[i]}
  <2>1. 0 \in Same
    OBVIOUS
  <2>2. ASSUME NEW i \in Nat, i \in Same PROVE i + 1 \in Same
    <3> SUFFICES ASSUME i + 1 <= n PROVE f[i + 1] = g[i + 1]
      OBVIOUS
    <3>1. i \in 0 .. n - 1 /\ i \in 0 .. m - 1 /\ f[i] = g[i]
      BY <2>2
    <3> QED
      BY <3>1
  <2>3. \A i \in Nat : i \in Same
    <3> HIDE DEF Same
    <3> QED
      BY <2>1, <2>2, Inductive
  <2> QED
    BY <2>3
<1>3. PICK step : \A n \in Nat : Upto(n, step[n])
  <2> HIDE DEF Upto
  <2>1. \A n \in Nat : Upto(n, [k \in Nat |-> CHOOSE f : Upto(k, f)][n])
    BY <1>1
  <2> QED
    BY <2>1
<1> DEFINE g == [n \in Nat |-> step[n][n]]
<1>4. g \in [Nat -> S] /\ g[0] = a
  <2>1. \A n \in Nat : n \in 0 .. n
    OBVIOUS
  <2> QED
    BY <1>3, <2>1
<1>5. ASSUME NEW n \in Nat PROVE g[n + 1] = G[n][g[n]]
  <2>1. Upto(n, step[n]) /\ Upto(n + 1, step[n + 1])
    BY <1>3
  <2>2. step[n][n] = step[n + 1][n]
    <3>1. n \in Nat /\ n + 1 \in Nat /\ n <= n + 1
      OBVIOUS
    <3> HIDE DEF Upto
    <3> QED
      BY <1>2, <2>1, <3>1
  <2>3. step[n + 1][n + 1] = G[n][step[n + 1][n]]
    <3>1. n \in 0 .. (n + 1) - 1
      OBVIOUS
    <3> QED
      BY <2>1, <3>1
  <2> QED
    BY <2>2, <2>3
<1> QED
  BY <1>4, <1>5 DEF Iterates

Recurses(f, S, a, G, b, m) ==
  /\ f \in [b .. m -> S]
  /\ f = [k \in b .. m |-> IF k = b THEN a ELSE G[k][f[k - 1]]]

(* What a recursive definition over b .. m defines is what it says.        *)
LEMMA Recursion ==
  ASSUME NEW S, NEW a \in S, NEW G \in Steps(S), NEW b \in Nat, NEW m \in Nat
  PROVE  \E f : Recurses(f, S, a, G, b, m)
<1> DEFINE H == [n \in Nat |-> G[n + b + 1]]
<1>1. H \in Steps(S)
  BY DEF Steps
<1>2. PICK g : Iterates(g, S, a, H)
  <2> HIDE DEF H
  <2> QED
    BY <1>1, Iteration, Zenon
<1> DEFINE f == [k \in b .. m |-> g[k - b]]
<1>3. ASSUME NEW k \in b .. m, k # b PROVE f[k] = G[k][f[k - 1]]
  <2> DEFINE n == (k - b) - 1
  <2>1. n \in Nat /\ n + 1 = k - b /\ n + b + 1 = k /\ k - 1 \in b .. m /\ (k - 1) - b = n
    BY <1>3
  <2>2. f[k] = g[n + 1] /\ f[k - 1] = g[n]
    BY <2>1
  <2>3. H[n][g[n]] = G[n + b + 1][g[n]]
    BY <2>1, <1>2 DEF Iterates
  <2> HIDE DEF n, f, H
  <2> QED
    BY <1>2, <2>1, <2>2, <2>3 DEF Iterates
<1>4. ASSUME b \in b .. m PROVE f[b] = a
  <2>1. b - b = 0
    OBVIOUS
  <2>2. f[b] = g[b - b]
    BY <1>4
  <2> QED
    BY <1>2, <2>1, <2>2 DEF Iterates
<1>5. f = [k \in b .. m |-> IF k = b THEN a ELSE G[k][f[k - 1]]]
  <2>1. \A k \in b .. m : f[k] = IF k = b THEN a ELSE G[k][f[k - 1]]
    BY <1>3, <1>4
  <2>2. f = [k \in b .. m |-> f[k]]
    OBVIOUS
  <2> HIDE DEF f
  <2> QED
    BY <2>1, <2>2
<1>6. f \in [b .. m -> S]
  <2>1. \A k \in b .. m : k - b \in Nat
    OBVIOUS
  <2> QED
    BY <1>2, <2>1 DEF Iterates
<1> HIDE DEF f
<1> QED
  BY <1>5, <1>6 DEF Recurses

----------------------------------------------------------------------------
(***************************************************************************)
(* What is left to do, seen from vals: the shape of vals is the number n   *)
(* of its nodes, which of them are calls that have been begun, and whether *)
(* the last one was created by the task before. Effect is what a task      *)
(* needs of the shape and does to it; a value is an expression, which will *)
(* be one more node.                                                       *)
(***************************************************************************)
Shapes == [n : Nat, open : SUBSET Nat, fresh : {0, 1}]

Shape(n, open, fresh) == [n |-> n, open |-> open, fresh |-> fresh]

Effect(t, a, b) ==
  \/ /\ t.do = "resolve"
     /\ a.fresh = 1 /\ t.n < a.n
     /\ \A k \in a.n - t.n .. a.n : k \notin a.open
     /\ b = Shape(a.n - t.n, a.open, 0)
  \/ /\ a.fresh = 0
     /\ \/ t.do = "node" /\ b \in {Shape(a.n + 1, a.open, 0), Shape(a.n + 1, a.open, 1)}
        \/ t.do = "value" /\ b = Shape(a.n + 1, a.open, 0)
        \/ t.do = "begin" /\ b = Shape(a.n + 1, a.open \cup {a.n + 1}, 0)
        \/ /\ t.do = "close"
           /\ t.n < a.n /\ a.n - t.n \in a.open
           /\ \A k \in a.n - t.n + 1 .. a.n : k \notin a.open
           /\ b = Shape(a.n - t.n, a.open \ {a.n - t.n}, 0)
        \/ /\ t.do = "swap"
           /\ a.n >= 2 /\ a.n - 1 \notin a.open /\ a.n \notin a.open
           /\ b = Shape(a.n, a.open, 0)
        \/ /\ t.do = "receiver"
           /\ a.n >= 2
           /\ b = Shape(a.n, a.open, 0)

Runs(s, a, b) ==
  \E p \in [0 .. Len(s) -> Shapes] :
    /\ p[0] = a /\ p[Len(s)] = b
    /\ \A i \in 1 .. Len(s) : Effect(s[i], p[i - 1], p[i])

LEMMA RunsNothing ==
  /\ \A a \in Shapes : Runs(<<>>, a, a)
  /\ \A a, b : Runs(<<>>, a, b) => a = b
<1>1. ASSUME NEW a \in Shapes PROVE Runs(<<>>, a, a)
  <2> DEFINE p == [i \in 0 .. Len(<<>>) |-> a]
  <2>1. p \in [0 .. Len(<<>>) -> Shapes] /\ p[0] = a /\ p[Len(<<>>)] = a
    OBVIOUS
  <2>2. \A i \in 1 .. Len(<<>>) : Effect(<<>>[i], p[i - 1], p[i])
    OBVIOUS
  <2> HIDE DEF p
  <2> QED
    BY <2>1, <2>2 DEF Runs
<1>2. ASSUME NEW a, NEW b, Runs(<<>>, a, b) PROVE a = b
  BY <1>2 DEF Runs
<1> QED
  BY <1>1, <1>2

LEMMA RunsTask ==
  ASSUME NEW t, NEW a \in Shapes, NEW b \in Shapes, Effect(t, a, b)
  PROVE  Runs(<<t>>, a, b)
<1> DEFINE p == [i \in 0 .. Len(<<t>>) |-> IF i = 0 THEN a ELSE b]
<1>1. Len(<<t>>) = 1
  OBVIOUS
<1>2. p \in [0 .. Len(<<t>>) -> Shapes] /\ p[0] = a /\ p[Len(<<t>>)] = b
  BY <1>1
<1>3. ASSUME NEW i \in 1 .. Len(<<t>>) PROVE Effect(<<t>>[i], p[i - 1], p[i])
  <2>1. i = 1 /\ i - 1 = 0
    BY <1>1
  <2>2. p[i - 1] = a /\ p[i] = b /\ <<t>>[i] = t
    BY <1>1, <2>1
  <2> HIDE DEF p
  <2> QED
    BY <2>2
<1> HIDE DEF p
<1> QED
  BY <1>2, <1>3 DEF Runs

LEMMA RunsHead ==
  ASSUME NEW T, NEW s \in Seq(T), s # <<>>, NEW a, NEW b, Runs(s, a, b)
  PROVE  /\ a \in Shapes
         /\ \E c \in Shapes : Effect(Head(s), a, c) /\ Runs(Tail(s), c, b)
<1>1. PICK p \in [0 .. Len(s) -> Shapes] :
        /\ p[0] = a /\ p[Len(s)] = b
        /\ \A i \in 1 .. Len(s) : Effect(s[i], p[i - 1], p[i])
  BY DEF Runs
<1>2. Len(s) \in Nat /\ Len(s) >= 1 /\ Head(s) = s[1] /\ Len(Tail(s)) = Len(s) - 1
  OBVIOUS
<1>3. Effect(Head(s), a, p[1]) /\ p[1] \in Shapes /\ a \in Shapes
  <2>1. 1 \in 1 .. Len(s) /\ 1 \in 0 .. Len(s) /\ 0 \in 0 .. Len(s) /\ 1 - 1 = 0
    BY <1>2
  <2> QED
    BY <1>1, <1>2, <2>1
<1> DEFINE q == [i \in 0 .. Len(s) - 1 |-> p[i + 1]]
<1>4. q \in [0 .. Len(s) - 1 -> Shapes] /\ q[0] = p[1] /\ q[Len(s) - 1] = b
  BY <1>1, <1>2
<1>5. ASSUME NEW i \in 1 .. Len(s) - 1 PROVE Effect(Tail(s)[i], q[i - 1], q[i])
  <2>1. i + 1 \in 1 .. Len(s) /\ (i + 1) - 1 = i /\ (i - 1) + 1 = i
        /\ i - 1 \in 0 .. Len(s) - 1 /\ i \in 0 .. Len(s) - 1
    BY <1>2
  <2>2. q[i - 1] = p[i] /\ q[i] = p[i + 1]
    BY <2>1
  <2>3. Tail(s)[i] = s[i + 1]
    BY <1>2
  <2>4. Effect(s[i + 1], p[(i + 1) - 1], p[i + 1])
    BY <1>1, <2>1
  <2> HIDE DEF q
  <2> QED
    BY <2>1, <2>2, <2>3, <2>4
<1>6. Runs(Tail(s), p[1], b)
  <2> HIDE DEF q
  <2> QED
    BY <1>2, <1>4, <1>5 DEF Runs
<1> QED
  BY <1>3, <1>6

LEMMA RunsBoth ==
  ASSUME NEW T, NEW s \in Seq(T), NEW t \in Seq(T), NEW a, NEW b, NEW c,
         Runs(s, a, b), Runs(t, b, c)
  PROVE  Runs(s \o t, a, c)
<1>1. PICK p \in [0 .. Len(s) -> Shapes] :
        /\ p[0] = a /\ p[Len(s)] = b
        /\ \A i \in 1 .. Len(s) : Effect(s[i], p[i - 1], p[i])
  BY DEF Runs
<1>2. PICK q \in [0 .. Len(t) -> Shapes] :
        /\ q[0] = b /\ q[Len(t)] = c
        /\ \A i \in 1 .. Len(t) : Effect(t[i], q[i - 1], q[i])
  BY DEF Runs
<1> DEFINE m == Len(s)
           n == Len(t)
           r == [i \in 0 .. m + n |-> IF i <= m THEN p[i] ELSE q[i - m]]
<1>3. m \in Nat /\ n \in Nat /\ Len(s \o t) = m + n
  OBVIOUS
<1>4. \A i \in 1 .. m + n : (s \o t)[i] = IF i <= m THEN s[i] ELSE t[i - m]
  OBVIOUS
<1>5. /\ \A i \in 0 .. m : r[i] = p[i]
      /\ \A i \in m .. m + n : r[i] = q[i - m]
  <2>1. \A i \in 0 .. m : r[i] = p[i]
    BY <1>3
  <2>2. ASSUME NEW i \in m .. m + n PROVE r[i] = q[i - m]
    <3>1. CASE i = m
      BY <1>1, <1>2, <1>3, <3>1
    <3>2. CASE i # m
      BY <1>3, <3>2
    <3> QED
      BY <3>1, <3>2
  <2> QED
    BY <2>1, <2>2
<1>6. r \in [0 .. m + n -> Shapes] /\ r[0] = a /\ r[m + n] = c
  <2>1. 0 \in 0 .. m /\ m + n \in m .. m + n /\ (m + n) - m = n
    BY <1>3
  <2>2. r[0] = a /\ r[m + n] = c
    <3> HIDE DEF r
    <3> QED
      BY <1>1, <1>2, <1>5, <2>1
  <2>3. ASSUME NEW i \in 0 .. m + n PROVE r[i] \in Shapes
    <3>1. i \in 0 .. m \/ (i \in m .. m + n /\ i - m \in 0 .. n)
      BY <1>3
    <3> HIDE DEF r, m, n
    <3> QED
      BY <1>1, <1>2, <1>5, <3>1 DEF m, n
  <2> QED
    BY <2>2, <2>3
<1>7. ASSUME NEW i \in 1 .. m + n PROVE Effect((s \o t)[i], r[i - 1], r[i])
  <2>1. CASE i <= m
    <3>1. i \in 1 .. m /\ i \in 0 .. m /\ i - 1 \in 0 .. m
      BY <1>3, <2>1
    <3> HIDE DEF r, m, n
    <3> QED
      BY <1>1, <1>4, <1>5, <2>1, <3>1 DEF m
  <2>2. CASE ~ (i <= m)
    <3>1. i - m \in 1 .. n /\ i \in m .. m + n /\ i - 1 \in m .. m + n
          /\ (i - 1) - m = (i - m) - 1
      BY <1>3, <2>2
    <3>2. Effect(t[i - m], q[(i - m) - 1], q[i - m])
      BY <1>2, <3>1
    <3> HIDE DEF r, m, n
    <3> QED
      BY <1>4, <1>5, <2>2, <3>1, <3>2
  <2> QED
    BY <2>1, <2>2
<1> HIDE DEF r
<1> QED
  BY <1>3, <1>6, <1>7 DEF Runs

----------------------------------------------------------------------------
(* The values with a declaration, and those emitRefOrConstant is given:    *)
(* what has a value was collected by CPGInstVisitor or is inlined.         *)
LocalsDomain == LocalVariables \cup {Parameter : i \in 1 .. fn.params}

Operands ==
  {v \in Extern .. fn.n :
     /\ v > 0 => v \in LocalVariables \cup fn.inlined
     /\ v = Parameter => fn.params > 0
     /\ v # Field}

(* An IDENTIFIER stands for a value with a declaration (or Extern), and no *)
(* LITERAL for an instruction.                                             *)
Created ==
  {t \in [do : {"node", "begin"}, name : Names, of : Extern .. fn.n,
          type : {"CALL", "RETURN", "IDENTIFIER", "LITERAL", "FIELD_IDENTIFIER", "UNKNOWN"}] :
     /\ t.type = "IDENTIFIER" => t.of \in LocalsDomain \cup {Extern}
     /\ t.type = "LITERAL" => t.of \in {Constant, Global}}

Tasks ==
  Created \cup [do : {"value"}, of : Operands] \cup [do : {"resolve", "close"}, n : Nat]
          \cup [do : {"swap", "receiver"}]

(* s takes the last i nodes of vals, all complete, and leaves j instead.   *)
Turns(s, i, j) ==
  /\ s \in Seq(Tasks)
  /\ \A n \in Nat : \A open \in SUBSET (1 .. n) :
       Runs(s, Shape(n + i, open, 0), Shape(n + j, open, 0))

Builds(s, j) == Turns(s, 0, j)

LEMMA ShapeIsShape ==
  ASSUME NEW n \in Nat, NEW open \in SUBSET (1 .. n), NEW f \in {0, 1}
  PROVE  /\ Shape(n, open, f) \in Shapes
         /\ Shape(n, open, f).n = n /\ Shape(n, open, f).open = open
         /\ Shape(n, open, f).fresh = f
         /\ \A k \in Int : k > n => k \notin open
  BY DEF Shape, Shapes

LEMMA TurnsBoth ==
  ASSUME NEW s, NEW t, NEW i, NEW j, NEW k, Turns(s, i, j), Turns(t, j, k)
  PROVE  Turns(s \o t, i, k)
<1>1. s \in Seq(Tasks) /\ t \in Seq(Tasks)
  BY DEF Turns
<1>2. s \o t \in Seq(Tasks)
  BY <1>1
<1>3. ASSUME NEW n \in Nat, NEW open \in SUBSET (1 .. n)
      PROVE  Runs(s \o t, Shape(n + i, open, 0), Shape(n + k, open, 0))
  <2>1. /\ Runs(s, Shape(n + i, open, 0), Shape(n + j, open, 0))
        /\ Runs(t, Shape(n + j, open, 0), Shape(n + k, open, 0))
    BY DEF Turns
  <2> QED
    BY <1>1, <2>1, RunsBoth
<1> QED
  BY <1>2, <1>3 DEF Turns

(* Nodes further down do not matter.                                       *)
LEMMA TurnsAbove ==
  ASSUME NEW s, NEW i \in Nat, NEW j \in Nat, NEW k \in Nat, Turns(s, i, j)
  PROVE  Turns(s, k + i, k + j)
<1>1. ASSUME NEW n \in Nat, NEW open \in SUBSET (1 .. n)
      PROVE  Runs(s, Shape(n + (k + i), open, 0), Shape(n + (k + j), open, 0))
  <2>1. n + k \in Nat /\ open \in SUBSET (1 .. n + k)
    OBVIOUS
  <2>2. Runs(s, Shape((n + k) + i, open, 0), Shape((n + k) + j, open, 0))
    BY <2>1 DEF Turns
  <2>3. (n + k) + i = n + (k + i) /\ (n + k) + j = n + (k + j)
    OBVIOUS
  <2> QED
    BY <2>2, <2>3
<1> QED
  BY <1>1 DEF Turns

LEMMA BuildsBoth ==
  ASSUME NEW s, NEW t, NEW j \in Nat, NEW k \in Nat, Builds(s, j), Builds(t, k)
  PROVE  Builds(s \o t, j + k)
<1>1. Turns(t, j + 0, j + k)
  BY TurnsAbove DEF Builds
<1>2. j + 0 = j
  OBVIOUS
<1> QED
  BY <1>1, <1>2, TurnsBoth DEF Builds

LEMMA BuildsNothing == Builds(<<>>, 0)
<1>1. ASSUME NEW n \in Nat, NEW open \in SUBSET (1 .. n)
      PROVE  Runs(<<>>, Shape(n + 0, open, 0), Shape(n + 0, open, 0))
  BY RunsNothing, ShapeIsShape
<1> QED
  BY <1>1 DEF Builds, Turns

LEMMA BuildsNode ==
  ASSUME NEW t \in Created, t.do = "node"
  PROVE  Builds(<<t>>, 1)
<1>1. ASSUME NEW n \in Nat, NEW open \in SUBSET (1 .. n)
      PROVE  Runs(<<t>>, Shape(n + 0, open, 0), Shape(n + 1, open, 0))
  <2>1. Shape(n + 0, open, 0) \in Shapes /\ Shape(n + 1, open, 0) \in Shapes
        /\ Shape(n + 0, open, 0).n + 1 = n + 1 /\ Shape(n + 0, open, 0).open = open
        /\ Shape(n + 0, open, 0).fresh = 0
    BY ShapeIsShape
  <2>2. Effect(t, Shape(n + 0, open, 0), Shape(n + 1, open, 0))
    BY <2>1 DEF Effect
  <2> QED
    BY <2>1, <2>2, RunsTask
<1>2. <<t>> \in Seq(Tasks)
  BY DEF Tasks
<1> QED
  BY <1>1, <1>2 DEF Builds, Turns

LEMMA BuildsValue ==
  ASSUME NEW v \in Operands
  PROVE  Builds(Value(v), 1)
<1> DEFINE t == [do |-> "value", of |-> v]
<1>1. t.do = "value" /\ t \in Tasks /\ Value(v) = <<t>>
  BY DEF Tasks, Value
<1> HIDE DEF t
<1>2. ASSUME NEW n \in Nat, NEW open \in SUBSET (1 .. n)
      PROVE  Runs(<<t>>, Shape(n + 0, open, 0), Shape(n + 1, open, 0))
  <2>1. Shape(n + 0, open, 0) \in Shapes /\ Shape(n + 1, open, 0) \in Shapes
        /\ Shape(n + 0, open, 0).n + 1 = n + 1 /\ Shape(n + 0, open, 0).open = open
        /\ Shape(n + 0, open, 0).fresh = 0
    BY ShapeIsShape
  <2>2. Effect(t, Shape(n + 0, open, 0), Shape(n + 1, open, 0))
    BY <1>1, <2>1 DEF Effect
  <2> QED
    BY <2>1, <2>2, RunsTask
<1>3. <<t>> \in Seq(Tasks)
  BY <1>1
<1> QED
  BY <1>1, <1>2, <1>3 DEF Builds, Turns

(* An operator joined with the last j nodes.                               *)
LEMMA TurnsJoin ==
  ASSUME NEW t \in Created, t.do = "node", NEW j \in Nat
  PROVE  Turns(<<t>> \o Resolve(j), j, 1)
<1> DEFINE r == [do |-> "resolve", n |-> j]
<1>1. r.do = "resolve" /\ r.n = j /\ r \in Tasks /\ t \in Tasks /\ Resolve(j) = <<r>>
  BY DEF Tasks, Resolve
<1> HIDE DEF r
<1>2. <<t>> \in Seq(Tasks) /\ <<r>> \in Seq(Tasks)
  BY <1>1
<1>3. ASSUME NEW n \in Nat, NEW open \in SUBSET (1 .. n)
      PROVE  Runs(<<t>> \o <<r>>, Shape(n + j, open, 0), Shape(n + 1, open, 0))
  <2> DEFINE a == Shape(n + j, open, 0)
             b == Shape(n + j + 1, open, 1)
             c == Shape(n + 1, open, 0)
  <2>1. /\ a \in Shapes /\ a.n = n + j /\ a.open = open /\ a.fresh = 0
        /\ b \in Shapes /\ b.n = n + j + 1 /\ b.open = open /\ b.fresh = 1
        /\ c \in Shapes
    <3>1. /\ n + j \in Nat /\ n + j + 1 \in Nat /\ n + 1 \in Nat
          /\ open \in SUBSET (1 .. n + j) /\ open \in SUBSET (1 .. n + j + 1)
          /\ open \in SUBSET (1 .. n + 1)
      OBVIOUS
    <3> QED
      BY <3>1, ShapeIsShape
  <2>2. Effect(t, a, b)
    <3>1. b = Shape(a.n + 1, a.open, 1)
      BY <2>1
    <3> HIDE DEF a, b
    <3> QED
      BY <2>1, <3>1 DEF Effect
  <2>3. Effect(r, b, c)
    <3>1. b.n - j = n + 1 /\ j < b.n /\ \A k \in b.n - j .. b.n : k \notin b.open
      BY <2>1
    <3>2. c = Shape(b.n - r.n, b.open, 0)
      BY <1>1, <2>1, <3>1
    <3> HIDE DEF b, c
    <3> QED
      BY <1>1, <2>1, <3>1, <3>2 DEF Effect
  <2> HIDE DEF a, b, c
  <2>4. Runs(<<t>>, a, b) /\ Runs(<<r>>, b, c)
    BY <2>1, <2>2, <2>3, RunsTask
  <2> QED
    BY <1>2, <2>4, RunsBoth DEF a, c
<1>4. <<t>> \o <<r>> \in Seq(Tasks)
  BY <1>2
<1> QED
  BY <1>1, <1>3, <1>4 DEF Turns

LEMMA TurnsSwap == Turns(Swap, 2, 2)
<1> DEFINE t == [do |-> "swap"]
<1>1. t.do = "swap" /\ t \in Tasks /\ Swap = <<t>>
  BY DEF Tasks, Swap
<1> HIDE DEF t
<1>2. ASSUME NEW n \in Nat, NEW open \in SUBSET (1 .. n)
      PROVE  Runs(<<t>>, Shape(n + 2, open, 0), Shape(n + 2, open, 0))
  <2> DEFINE a == Shape(n + 2, open, 0)
  <2>1. a \in Shapes /\ a.n = n + 2 /\ a.open = open /\ a.fresh = 0
    <3>1. n + 2 \in Nat /\ open \in SUBSET (1 .. n + 2)
      OBVIOUS
    <3> QED
      BY <3>1, ShapeIsShape
  <2>2. a.n >= 2 /\ a.n - 1 \notin open /\ a.n \notin open
    BY <2>1
  <2>3. a = Shape(a.n, a.open, 0)
    BY <2>1
  <2> HIDE DEF a
  <2>4. Effect(t, a, a)
    BY <1>1, <2>1, <2>2, <2>3 DEF Effect
  <2> QED
    BY <2>1, <2>4, RunsTask DEF a
<1> QED
  BY <1>1, <1>2 DEF Turns

(* The arguments of a call that has been begun.                            *)
Fills(s, j) ==
  /\ s \in Seq(Tasks)
  /\ \A n \in Nat \ {0} : \A open \in SUBSET (1 .. n) :
       Runs(s, Shape(n, open, 0), Shape(n + j, open, 0))

LEMMA FillsBuilt ==
  ASSUME NEW s, NEW j \in Nat, Builds(s, j)
  PROVE  Fills(s, j)
<1>1. ASSUME NEW n \in Nat \ {0}, NEW open \in SUBSET (1 .. n)
      PROVE  Runs(s, Shape(n, open, 0), Shape(n + j, open, 0))
  <2>1. Runs(s, Shape(n + 0, open, 0), Shape(n + j, open, 0)) /\ n + 0 = n
    BY DEF Builds, Turns
  <2> QED
    BY <2>1
<1> QED
  BY <1>1 DEF Fills, Builds, Turns

LEMMA FillsBoth ==
  ASSUME NEW s, NEW t, NEW j \in Nat, NEW k \in Nat, Fills(s, j), Fills(t, k)
  PROVE  Fills(s \o t, j + k)
<1>1. s \in Seq(Tasks) /\ t \in Seq(Tasks)
  BY DEF Fills
<1>2. s \o t \in Seq(Tasks)
  BY <1>1
<1>3. ASSUME NEW n \in Nat \ {0}, NEW open \in SUBSET (1 .. n)
      PROVE  Runs(s \o t, Shape(n, open, 0), Shape(n + (j + k), open, 0))
  <2>1. n + j \in Nat \ {0} /\ open \in SUBSET (1 .. n + j) /\ (n + j) + k = n + (j + k)
    OBVIOUS
  <2>2. /\ Runs(s, Shape(n, open, 0), Shape(n + j, open, 0))
        /\ Runs(t, Shape(n + j, open, 0), Shape((n + j) + k, open, 0))
    BY <2>1 DEF Fills
  <2> QED
    BY <1>1, <2>1, <2>2, RunsBoth
<1> QED
  BY <1>2, <1>3 DEF Fills

(* The callee of an indirect call is its receiver.                         *)
LEMMA FillsReceiver ==
  ASSUME NEW v \in Operands
  PROVE  Fills(Value(v) \o Receive, 1)
<1> DEFINE t == [do |-> "receiver"]
<1>1. t.do = "receiver" /\ t \in Tasks /\ Receive = <<t>>
  BY DEF Tasks, Receive
<1> HIDE DEF t
<1>2. Value(v) \in Seq(Tasks) /\ <<t>> \in Seq(Tasks)
  BY <1>1, BuildsValue DEF Builds, Turns
<1>3. ASSUME NEW n \in Nat \ {0}, NEW open \in SUBSET (1 .. n)
      PROVE  Runs(Value(v) \o <<t>>, Shape(n, open, 0), Shape(n + 1, open, 0))
  <2> DEFINE a == Shape(n + 1, open, 0)
  <2>1. a \in Shapes /\ a.n = n + 1 /\ a.open = open /\ a.fresh = 0
    <3>1. n + 1 \in Nat /\ open \in SUBSET (1 .. n + 1)
      OBVIOUS
    <3> QED
      BY <3>1, ShapeIsShape
  <2>2. a.n >= 2 /\ a = Shape(a.n, a.open, 0)
    BY <2>1
  <2>3. Runs(Value(v), Shape(n, open, 0), a)
    BY BuildsValue, FillsBuilt DEF Fills
  <2> HIDE DEF a
  <2>4. Runs(<<t>>, a, a)
    <3>1. Effect(t, a, a)
      BY <1>1, <2>1, <2>2 DEF Effect
    <3> QED
      BY <2>1, <3>1, RunsTask
  <2> QED
    BY <1>2, <2>3, <2>4, RunsBoth DEF a
<1>4. Value(v) \o <<t>> \in Seq(Tasks)
  BY <1>2
<1> QED
  BY <1>1, <1>3, <1>4 DEF Fills

(* A call is created, filled, and joined with its j arguments.             *)
LEMMA BuildsCall ==
  ASSUME NEW t \in Created, t.do = "begin", NEW s, NEW j \in Nat, Fills(s, j)
  PROVE  Builds((<<t>> \o s) \o Close(j), 1)
<1> DEFINE r == [do |-> "close", n |-> j]
<1>1. r.do = "close" /\ r.n = j /\ r \in Tasks /\ t \in Tasks /\ Close(j) = <<r>>
  BY DEF Tasks, Close
<1> HIDE DEF r
<1>2. <<t>> \in Seq(Tasks) /\ <<r>> \in Seq(Tasks) /\ s \in Seq(Tasks)
  BY <1>1 DEF Fills
<1>3. ASSUME NEW n \in Nat, NEW open \in SUBSET (1 .. n)
      PROVE  Runs((<<t>> \o s) \o <<r>>, Shape(n + 0, open, 0), Shape(n + 1, open, 0))
  <2> DEFINE more == open \cup {n + 1}
             a == Shape(n + 0, open, 0)
             b == Shape(n + 1, more, 0)
             c == Shape((n + 1) + j, more, 0)
             d == Shape(n + 1, open, 0)
  <2>1. /\ n + 1 \in Nat \ {0} /\ (n + 1) + j \in Nat
        /\ more \in SUBSET (1 .. n + 1) /\ more \in SUBSET (1 .. (n + 1) + j)
        /\ open \in SUBSET (1 .. n + 1) /\ n + 0 = n /\ n + 1 \notin open
    OBVIOUS
  <2>2. /\ a \in Shapes /\ a.n = n /\ a.open = open /\ a.fresh = 0
        /\ b \in Shapes /\ d \in Shapes
        /\ c \in Shapes /\ c.n = (n + 1) + j /\ c.open = more /\ c.fresh = 0
    BY <2>1, ShapeIsShape
  <2>3. Effect(t, a, b)
    <3>1. b = Shape(a.n + 1, a.open \cup {a.n + 1}, 0)
      BY <2>2
    <3> HIDE DEF a, b
    <3> QED
      BY <2>2, <3>1 DEF Effect
  <2>4. Effect(r, c, d)
    <3>1. /\ j < c.n /\ c.n - j = n + 1 /\ c.n - j \in c.open
          /\ \A k \in c.n - j + 1 .. c.n : k \notin c.open
          /\ c.open \ {c.n - j} = open
      <4>1. j < c.n /\ c.n - j = n + 1
        BY <2>1, <2>2
      <4> HIDE DEF c
      <4> QED
        BY <2>1, <2>2, <4>1
    <3>2. d = Shape(c.n - r.n, c.open \ {c.n - r.n}, 0)
      BY <1>1, <3>1
    <3> HIDE DEF c, d
    <3> QED
      BY <1>1, <2>2, <3>1, <3>2 DEF Effect
  <2>5. Runs(s, b, c)
    BY <2>1 DEF Fills
  <2> HIDE DEF a, b, c, d
  <2>6. Runs(<<t>>, a, b) /\ Runs(<<r>>, c, d)
    BY <2>2, <2>3, <2>4, RunsTask
  <2>7. Runs(<<t>> \o s, a, c)
    BY <1>2, <2>5, <2>6, RunsBoth
  <2>8. <<t>> \o s \in Seq(Tasks)
    BY <1>2
  <2> QED
    BY <1>2, <2>6, <2>7, <2>8, RunsBoth DEF a, d
<1>4. (<<t>> \o s) \o <<r>> \in Seq(Tasks)
  BY <1>2
<1> QED
  BY <1>1, <1>3, <1>4 DEF Builds, Turns

----------------------------------------------------------------------------
LEMMA Associative ==
  \A s, t, u \in Seq(Tasks) : (s \o t) \o u = s \o (t \o u)
OBVIOUS

LEMMA BuildsJoined ==
  ASSUME NEW s, NEW i \in Nat, NEW j \in Nat, Builds(s, i + j),
         NEW t \in Created, t.do = "node"
  PROVE  /\ Builds(s \o (<<t>> \o Resolve(j)), i + 1)
         /\ Builds((s \o <<t>>) \o Resolve(j), i + 1)
<1>1. Turns(<<t>> \o Resolve(j), i + j, i + 1)
  BY TurnsJoin, TurnsAbove
<1>2. Builds(s \o (<<t>> \o Resolve(j)), i + 1)
  BY <1>1, TurnsBoth DEF Builds
<1>3. s \in Seq(Tasks) /\ <<t>> \in Seq(Tasks) /\ Resolve(j) \in Seq(Tasks)
  BY DEF Builds, Turns, Tasks, Resolve
<1>4. (s \o <<t>>) \o Resolve(j) = s \o (<<t>> \o Resolve(j))
  BY <1>3, Associative
<1> QED
  BY <1>2, <1>4

LEMMA BuildsValues ==
  ASSUME NEW args \in Seq(Operands)
  PROVE  Builds(Values(args), Len(args))
<1> DEFINE m == Len(args)
           S == Seq(Tasks)
           G == [k \in Nat |-> [s \in S |-> IF k \in 1 .. m THEN s \o Value(args[k]) ELSE s]]
           Body(f) == [k \in 0 .. m |-> IF k = 0 THEN <<>> ELSE f[k - 1] \o Value(args[k])]
           F == CHOOSE f : f = Body(f)
<1>1. Values(args) = F[m]
  BY DEF Values
<1>2. m \in Nat /\ \A k \in 1 .. m : args[k] \in Operands
  OBVIOUS
<1>3. \A k \in 1 .. m : Builds(Value(args[k]), 1) /\ Value(args[k]) \in S
  BY <1>2, BuildsValue DEF Builds, Turns
<1>4. \E f : f = Body(f)
  <2>1. G \in Steps(S) /\ <<>> \in S
    BY <1>3 DEF Steps
  <2> HIDE DEF G
  <2>2. PICK f : Recurses(f, S, <<>>, G, 0, m)
    <3>1. 0 \in Nat /\ m \in Nat /\ G \in Steps(S) /\ <<>> \in S
      BY <1>2, <2>1
    <3> HIDE DEF S, m
    <3> QED
      BY <3>1, Recursion, Zenon
  <2>3. ASSUME NEW k \in 0 .. m, k # 0 PROVE G[k][f[k - 1]] = f[k - 1] \o Value(args[k])
    <3>1. k \in 1 .. m /\ k \in Nat /\ k - 1 \in 0 .. m
      BY <1>2, <2>3
    <3>2. f[k - 1] \in S
      BY <2>2, <3>1 DEF Recurses
    <3> QED
      BY <3>1, <3>2 DEF G
  <2>4. f = Body(f)
    BY <2>2, <2>3 DEF Recurses
  <2> QED
    BY <2>4
<1>5. F = Body(F)
  <2> HIDE DEF Body
  <2> QED
    BY <1>4
<1> HIDE DEF F, S
<1> DEFINE Good == {k \in Nat : k <= m => Builds(F[k], k)}
<1>6. 0 \in Good
  <2>1. 0 \in 0 .. m
    BY <1>2
  <2>2. F[0] = <<>>
    BY <1>5, <2>1
  <2> QED
    BY <2>2, BuildsNothing
<1>7. ASSUME NEW k \in Nat, k \in Good PROVE k + 1 \in Good
  <2> SUFFICES ASSUME k + 1 <= m PROVE Builds(F[k + 1], k + 1)
    OBVIOUS
  <2>1. k + 1 \in 0 .. m /\ k + 1 # 0 /\ (k + 1) - 1 = k /\ k + 1 \in 1 .. m /\ k <= m
    BY <1>2
  <2>2. F[k + 1] = F[k] \o Value(args[k + 1])
    BY <1>5, <2>1
  <2>3. Builds(F[k], k)
    BY <1>7, <2>1
  <2>4. Builds(F[k] \o Value(args[k + 1]), k + 1)
    <3> HIDE DEF Good, m
    <3> QED
      BY <1>3, <2>1, <2>3, BuildsBoth
  <2> QED
    BY <2>2, <2>4
<1>8. m \in Good
  <2> HIDE DEF Good
  <2> QED
    BY <1>2, <1>6, <1>7, Inductive
<1> QED
  BY <1>1, <1>2, <1>8

(* Every value of fn may be what a node stands for.                        *)
LEMMA BuildsOp ==
  ASSUME NEW name \in Names, NEW of \in Extern .. fn.n,
         NEW s, NEW i \in Nat, NEW j \in Nat, Builds(s, i + j)
  PROVE  /\ Builds(s \o (Op(name, of) \o Resolve(j)), i + 1)
         /\ Builds((s \o Op(name, of)) \o Resolve(j), i + 1)
<1> DEFINE t == [do |-> "node", type |-> "CALL", name |-> name, of |-> of]
<1>1. t \in Created /\ t.do = "node" /\ Op(name, of) = <<t>>
  BY DEF Created, Op, Node
<1> HIDE DEF t
<1> QED
  BY <1>1, BuildsJoined

LEMMA BuildsIndex ==
  ASSUME NEW v \in Operands \cup {Field}, fn.n \in Nat
  PROVE  Builds(Index(v), 1)
<1>1. CASE v = Field
  <2> DEFINE t == [do |-> "node", type |-> "FIELD_IDENTIFIER", name |-> "field", of |-> v]
  <2>1. v \in Extern .. fn.n
    BY <1>1 DEF Field, Extern
  <2>2. t \in Created /\ t.do = "node" /\ Index(v) = <<t>>
    BY <1>1, <2>1 DEF Created, Index, Node, Names
  <2> HIDE DEF t
  <2> QED
    BY <2>2, BuildsNode
<1>2. CASE v # Field
  BY <1>2, BuildsValue DEF Index
<1> QED
  BY <1>1, <1>2

(* emitGEP and emitExtractValue leave the last access.                     *)
LEMMA BuildsAccesses ==
  ASSUME NEW i \in 1 .. fn.n, NEW first \in {1, 2}, fn.n \in Nat,
         fn.args[i] \in Seq(Operands \cup {Field}), Len(fn.args[i]) >= first,
         \A k \in 1 .. first : fn.args[i][k] \in Operands
  PROVE  Builds(Accesses(i, first), 1)
<1> DEFINE args == fn.args[i]
           m == Len(args)
           S == Seq(Tasks)
           start == Value(args[1]) \o (IF first = 2
                      THEN (Value(args[2]) \o Op("pointerShift", i)) \o Resolve(2) ELSE <<>>)
           more(s, k) == ((s \o Index(args[k])) \o Op("access", i)) \o Resolve(2)
           G == [k \in Nat |-> [s \in S |-> IF k \in 1 .. m THEN more(s, k) ELSE s]]
           Body(f) == [k \in first .. m |-> IF k = first THEN start ELSE more(f[k - 1], k)]
           F == CHOOSE f : f = Body(f)
<1>1. Accesses(i, first) = F[m]
  BY DEF Accesses
<1>2. m \in Nat /\ first \in Nat /\ first <= m /\ i \in Extern .. fn.n
      /\ \A k \in 1 .. m : args[k] \in Operands \cup {Field}
  BY DEF Extern
<1>3. Builds(start, 1)
  <2>1. Builds(Value(args[1]), 1)
    BY BuildsValue
  <2>2. CASE first = 2
    <3>1. args[2] \in Operands
      BY <2>2
    <3>2. Builds(Value(args[1]) \o Value(args[2]), 1 + 1)
      BY <2>1, <3>1, BuildsValue, BuildsBoth
    <3> DEFINE op == Op("pointerShift", i)
    <3>3. Builds((Value(args[1]) \o Value(args[2])) \o (op \o Resolve(2)), 1)
      <4>1. 1 + 1 = 0 + 2 /\ 0 + 1 = 1 /\ "pointerShift" \in Names
        BY DEF Names
      <4> QED
        BY <1>2, <3>2, <4>1, BuildsOp
    <3>4. Value(args[1]) \in S /\ Value(args[2]) \in S /\ op \in S /\ Resolve(2) \in S
      <4>1. Value(args[1]) \in S /\ Value(args[2]) \in S
        BY <2>1, <3>1, BuildsValue DEF Builds, Turns
      <4>2. op \in S
        BY <1>2 DEF Op, Node, Tasks, Created, Names
      <4>3. Resolve(2) \in S
        BY DEF Resolve, Tasks
      <4> QED
        BY <4>1, <4>2, <4>3
    <3> HIDE DEF S, op
    <3>5. op \o Resolve(2) \in S
      BY <3>4 DEF S
    <3>6. (Value(args[1]) \o Value(args[2])) \o (op \o Resolve(2))
            = Value(args[1]) \o (Value(args[2]) \o (op \o Resolve(2)))
      <4>1. Value(args[1]) \in Seq(Tasks) /\ Value(args[2]) \in Seq(Tasks)
            /\ op \o Resolve(2) \in Seq(Tasks)
        BY <3>4, <3>5 DEF S
      <4> QED
        BY <4>1, Associative
    <3>7. Value(args[2]) \o (op \o Resolve(2)) = (Value(args[2]) \o op) \o Resolve(2)
      <4>1. /\ Value(args[2]) \in Seq(Tasks) /\ op \in Seq(Tasks)
            /\ Resolve(2) \in Seq(Tasks)
        BY <3>4 DEF S
      <4> QED
        BY <4>1, Associative
    <3> QED
      BY <2>2, <3>3, <3>6, <3>7 DEF op
  <2>3. CASE first = 1
    <3>1. Builds(Value(args[1]) \o <<>>, 1 + 0)
      BY <2>1, BuildsNothing, BuildsBoth
    <3>2. 1 + 0 = 1
      OBVIOUS
    <3> QED
      BY <2>3, <3>1, <3>2
  <2> QED
    BY <2>2, <2>3
<1> HIDE DEF start
<1>4. ASSUME NEW s, NEW k \in 1 .. m, Builds(s, 1) PROVE Builds(more(s, k), 1)
  <2>1. Builds(s \o Index(args[k]), 1 + 1)
    BY <1>2, <1>4, BuildsIndex, BuildsBoth
  <2>2. 1 + 1 = 0 + 2 /\ 0 + 1 = 1 /\ "access" \in Names
    BY DEF Names
  <2> QED
    BY <1>2, <2>1, <2>2, BuildsOp
<1>5. \A s \in S : \A k \in 1 .. m : more(s, k) \in S
  <2> SUFFICES ASSUME NEW s \in S, NEW k \in 1 .. m PROVE more(s, k) \in S
    OBVIOUS
  <2>1. Index(args[k]) \in S
    BY <1>2, BuildsIndex DEF Builds, Turns
  <2>2. Op("access", i) \in S
    BY <1>2 DEF Op, Node, Tasks, Created, Names
  <2>3. Resolve(2) \in S
    BY DEF Resolve, Tasks
  <2> QED
    BY <2>1, <2>2, <2>3
<1> HIDE DEF more
<1>6. \E f : f = Body(f)
  <2>1. G \in Steps(S) /\ start \in S
    BY <1>3, <1>5 DEF Steps, Builds, Turns
  <2> HIDE DEF G
  <2>2. PICK f : Recurses(f, S, start, G, first, m)
    <3> HIDE DEF S, m
    <3> QED
      BY <1>2, <2>1, Recursion, Zenon
  <2>3. ASSUME NEW k \in first .. m, k # first PROVE G[k][f[k - 1]] = more(f[k - 1], k)
    <3>1. k \in 1 .. m /\ k \in Nat /\ k - 1 \in first .. m
      BY <1>2, <2>3
    <3>2. f[k - 1] \in S
      BY <2>2, <3>1 DEF Recurses
    <3> QED
      BY <3>1, <3>2 DEF G
  <2>4. f = Body(f)
    BY <2>2, <2>3 DEF Recurses
  <2> QED
    BY <2>4
<1>7. F = Body(F)
  <2> HIDE DEF Body
  <2> QED
    BY <1>6
<1> HIDE DEF F, S
<1> DEFINE Good == {k \in Nat : k + first <= m => Builds(F[k + first], 1)}
<1>8. 0 \in Good
  <2>1. first \in first .. m /\ 0 + first = first
    BY <1>2
  <2>2. F[first] = start
    BY <1>7, <2>1
  <2> QED
    BY <1>3, <2>1, <2>2
<1>9. ASSUME NEW k \in Nat, k \in Good PROVE k + 1 \in Good
  <2> SUFFICES ASSUME k + 1 + first <= m PROVE Builds(F[k + 1 + first], 1)
    OBVIOUS
  <2>1. /\ k + 1 + first \in first .. m /\ k + 1 + first # first
        /\ (k + 1 + first) - 1 = k + first /\ k + 1 + first \in 1 .. m /\ k + first <= m
    BY <1>2
  <2>2. F[k + 1 + first] = more(F[k + first], k + 1 + first)
    BY <1>7, <2>1
  <2>3. Builds(F[k + first], 1)
    BY <1>9, <2>1
  <2> QED
    BY <1>4, <2>1, <2>2, <2>3
<1>10. m - first \in Good
  <2>1. m - first \in Nat
    BY <1>2
  <2> HIDE DEF Good
  <2> QED
    BY <1>8, <1>9, <2>1, Inductive
<1>11. (m - first) + first = m
  BY <1>2
<1> QED
  BY <1>1, <1>2, <1>10, <1>11

LEMMA OperandsOf ==
  ASSUME WellFormed(fn), NEW i \in 1 .. fn.n
  PROVE  /\ fn.n \in Nat /\ i \in Extern .. fn.n
         /\ fn.kind[i] \in Kinds
         /\ fn.args[i] \in Seq(Operands \cup {Field})
         /\ Len(fn.args[i]) \in Nat /\ Len(fn.args[i]) >= Arity(fn.kind[i])
         /\ fn.kind[i] \notin {"gep", "extract"} => fn.args[i] \in Seq(Operands)
         /\ \A k \in 1 .. Len(fn.args[i]) :
              k = 1 \/ (k = 2 /\ fn.kind[i] = "gep") => fn.args[i][k] \in Operands
<1> DEFINE args == fn.args[i]
           m == Len(args)
<1>1. /\ fn.n \in Nat /\ i \in Extern .. fn.n
      /\ args \in Seq(Extern .. fn.n) /\ m \in Nat /\ m >= Arity(fn.kind[i])
      /\ DOMAIN args = 1 .. m
      /\ \A k \in 1 .. m : args[k] \in Extern .. fn.n /\ IsOperand(fn, i, k)
      /\ fn.kind[i] \in Kinds
  <2>1. /\ fn.n \in Nat /\ fn.args \in [1 .. fn.n -> Seq(Extern .. fn.n)]
        /\ fn.kind \in [1 .. fn.n -> Kinds]
        /\ m >= Arity(fn.kind[i]) /\ \A k \in DOMAIN args : IsOperand(fn, i, k)
    BY DEF WellFormed
  <2>2. args \in Seq(Extern .. fn.n) /\ fn.kind[i] \in Kinds
    BY <2>1
  <2>3. i \in Extern .. fn.n
    BY <2>1 DEF Extern
  <2>4. m \in Nat /\ DOMAIN args = 1 .. m /\ \A k \in 1 .. m : args[k] \in Extern .. fn.n
    <3>1. \A S : args \in Seq(S) =>
            m \in Nat /\ DOMAIN args = 1 .. m /\ \A k \in 1 .. m : args[k] \in S
      <4> HIDE DEF args
      <4> QED
        OBVIOUS
    <3> QED
      BY <2>2, <3>1
  <2> HIDE DEF args
  <2> QED
    BY <2>1, <2>2, <2>3, <2>4 DEF args
<1>2. ASSUME NEW k \in 1 .. m, args[k] # Field PROVE args[k] \in Operands
  <2>1. args[k] > 0 => args[k] \in 1 .. fn.n /\ fn.kind[args[k]] \in HaveValue \cup {"alloca"}
    BY <1>1 DEF IsOperand, Extern
  <2>2. args[k] > 0 => args[k] \in LocalVariables \cup fn.inlined
    BY <2>1 DEF LocalVariables
  <2> QED
    BY <1>1, <1>2, <2>2 DEF Operands, IsOperand
<1>3. ASSUME NEW k \in 1 .. m,
             fn.kind[i] \notin {"gep", "extract"} \/ k = 1 \/ (k = 2 /\ fn.kind[i] = "gep")
      PROVE  args[k] # Field
  BY <1>1, <1>3 DEF IsOperand
<1>4. args \in Seq(Operands \cup {Field})
  BY <1>1, <1>2
<1>5. fn.kind[i] \notin {"gep", "extract"} => args \in Seq(Operands)
  BY <1>1, <1>2, <1>3
<1> QED
  BY <1>1, <1>2, <1>3, <1>4, <1>5

(* What emits a tree: whatever is not without a node, and not a statement  *)
(* of another form.                                                        *)
Emitted == HaveValue \cup {"vcall", "fence", "resume"}

LEMMA BuildsExpression ==
  ASSUME WellFormed(fn), NEW i \in 1 .. fn.n, fn.kind[i] \in Emitted
  PROVE  Builds(Expression(i), 1)
<1> DEFINE args == fn.args[i]
           kind == fn.kind[i]
           m == Len(args)
<1>1. /\ fn.n \in Nat /\ i \in Extern .. fn.n /\ m \in Nat /\ m >= Arity(kind)
      /\ args \in Seq(Operands \cup {Field})
      /\ kind \notin {"gep", "extract"} => args \in Seq(Operands)
      /\ \A k \in 1 .. m : k = 1 \/ (k = 2 /\ kind = "gep") => args[k] \in Operands
  BY OperandsOf
<1>2. m = 0 + m /\ 1 + 1 = 0 + 2 /\ 1 = 0 + 1
  BY <1>1
<1>3. CASE kind = "load"
  <2>1. Arity(kind) = 1 /\ "indirection" \in Names
    BY <1>3 DEF Arity, Names
  <2>2. Builds(Value(args[1]), 0 + 1)
    BY <1>1, <1>2, <2>1, BuildsValue
  <2>3. Expression(i) = (Value(args[1]) \o Op("indirection", i)) \o Resolve(1)
    BY <1>3 DEF Expression
  <2> QED
    BY <1>1, <1>2, <2>1, <2>2, <2>3, BuildsOp
<1>4. CASE kind = "cast"
  <2>1. Arity(kind) = 1 /\ "cast" \in Names
    BY <1>4 DEF Arity, Names
  <2>2. Builds(Value(args[1]), 1)
    BY <1>1, <2>1, BuildsValue
  <2>3. Builds(Node("UNKNOWN", "type", i), 1)
    <3> DEFINE t == [do |-> "node", type |-> "UNKNOWN", name |-> "type", of |-> i]
    <3>1. t \in Created /\ t.do = "node" /\ Node("UNKNOWN", "type", i) = <<t>>
      BY <1>1 DEF Created, Node, Names
    <3> HIDE DEF t
    <3> QED
      BY <3>1, BuildsNode
  <2>4. Builds(Node("UNKNOWN", "type", i) \o Value(args[1]), 0 + 2)
    BY <1>2, <2>2, <2>3, BuildsBoth
  <2>5. Expression(i) = ((Node("UNKNOWN", "type", i) \o Value(args[1])) \o Op("cast", i))
                          \o Resolve(2)
    BY <1>4 DEF Expression
  <2> QED
    BY <1>1, <1>2, <2>1, <2>4, <2>5, BuildsOp
<1>5. CASE kind = "gep"
  <2>1. Arity(kind) = 2 /\ Expression(i) = Accesses(i, 2)
    BY <1>5 DEF Arity, Expression
  <2>2. \A k \in 1 .. 2 : k \in 1 .. m /\ args[k] \in Operands
    BY <1>1, <1>5, <2>1
  <2> QED
    BY <1>1, <2>1, <2>2, BuildsAccesses
<1>6. CASE kind = "extract"
  <2>1. Arity(kind) = 1 /\ Expression(i) = Accesses(i, 1)
    BY <1>6 DEF Arity, Expression
  <2>2. \A k \in 1 .. 1 : k \in 1 .. m /\ args[k] \in Operands
    BY <1>1, <1>6, <2>1
  <2> QED
    BY <1>1, <2>1, <2>2, BuildsAccesses
<1>7. CASE kind = "op"
  <2>1. Expression(i) = (Values(args) \o Op("op", i)) \o Resolve(m) /\ "op" \in Names
    BY <1>7 DEF Expression, Names
  <2>2. Builds(Values(args), 0 + m)
    BY <1>1, <1>2, <1>7, BuildsValues
  <2> QED
    BY <1>1, <1>2, <2>1, <2>2, BuildsOp
<1>8. CASE kind \in {"call", "vcall", "invoke", "icall"}
  <2> DEFINE t == [do |-> "begin", type |-> "CALL", name |-> "call", of |-> i]
  <2>1. t \in Created /\ t.do = "begin" /\ Begin("CALL", "call", i) = <<t>>
    BY <1>1 DEF Created, Begin, Names
  <2> HIDE DEF t
  <2>2. args \in Seq(Operands)
    BY <1>1, <1>8
  <2>3. CASE kind # "icall"
    <3>1. Expression(i) = (Begin("CALL", "call", i) \o Values(args)) \o Close(m)
      BY <1>8, <2>3 DEF Expression
    <3>2. Fills(Values(args), m)
      BY <1>1, <2>2, BuildsValues, FillsBuilt
    <3> QED
      BY <1>1, <2>1, <3>1, <3>2, BuildsCall
  <2>4. CASE kind = "icall"
    <3> DEFINE fst == Value(args[1]) \o Receive
               rest == Values(Tail(args))
    <3>1. Arity(kind) = 1 /\ m >= 1 /\ m - 1 \in Nat /\ 1 + (m - 1) = m
      BY <1>1, <2>4 DEF Arity
    <3>2. args[1] \in Operands /\ Tail(args) \in Seq(Operands) /\ Len(Tail(args)) = m - 1
      BY <2>2, <3>1
    <3>3. Fills(rest, m - 1)
      BY <3>1, <3>2, BuildsValues, FillsBuilt
    <3>4. Fills(fst, 1)
      BY <3>2, FillsReceiver
    <3>5. Expression(i) = (((Begin("CALL", "call", i) \o Value(args[1])) \o Receive)
                             \o rest) \o Close(m)
      BY <2>4 DEF Expression
    <3>6. /\ <<t>> \in Seq(Tasks) /\ Value(args[1]) \in Seq(Tasks) /\ Receive \in Seq(Tasks)
          /\ fst \in Seq(Tasks) /\ rest \in Seq(Tasks)
      <4>1. <<t>> \in Seq(Tasks) /\ Receive \in Seq(Tasks)
        BY <2>1 DEF Tasks, Receive
      <4>2. Value(args[1]) \in Seq(Tasks)
        BY <3>2, BuildsValue DEF Builds, Turns
      <4> QED
        BY <3>3, <3>4, <4>1, <4>2 DEF Fills
    <3>7. (<<t>> \o Value(args[1])) \o Receive = <<t>> \o fst
      BY <3>6, Associative
    <3> HIDE DEF fst, rest
    <3>8. (<<t>> \o fst) \o rest = <<t>> \o (fst \o rest)
      BY <3>6, Associative
    <3>9. Fills(fst \o rest, m)
      <4>1. Fills(fst \o rest, 1 + (m - 1))
        BY <3>1, <3>3, <3>4, FillsBoth
      <4> QED
        BY <3>1, <4>1
    <3>10. Expression(i) = (<<t>> \o (fst \o rest)) \o Close(m)
      BY <2>1, <3>5, <3>7, <3>8
    <3> QED
      BY <1>1, <2>1, <3>9, <3>10, BuildsCall
  <2> QED
    BY <2>3, <2>4
<1>9. CASE kind \in {"unhandled", "fence", "resume"}
  <2> DEFINE t == [do |-> "node", type |-> "CALL", name |-> "op", of |-> i]
  <2>1. t \in Created /\ t.do = "node" /\ Op("op", i) = <<t>>
    BY <1>1 DEF Created, Op, Node, Names
  <2>2. Expression(i) = Op("op", i) \o Resolve(0)
    BY <1>9 DEF Expression
  <2> HIDE DEF t
  <2> QED
    BY <2>1, <2>2, TurnsJoin DEF Builds
<1> QED
  BY <1>3, <1>4, <1>5, <1>6, <1>7, <1>8, <1>9 DEF Emitted, HaveValue

(* emitRefOrConstant.                                                      *)
LEMMA BuildsRefOrConstant ==
  ASSUME WellFormed(fn), DOMAIN locals = LocalsDomain, NEW v \in Operands
  PROVE  Builds(RefOrConstant(v), 1)
<1>1. /\ v \in Extern .. fn.n /\ fn.n \in Nat /\ v # Field
      /\ v > 0 => v \in LocalVariables \cup fn.inlined
      /\ v = Parameter => fn.params > 0
      /\ fn.params \in Nat
      /\ \A i \in fn.inlined : i \in 1 .. fn.n /\ fn.kind[i] \in {"gep", "cast", "load"}
  BY DEF Operands, WellFormed
<1> DEFINE leaf(type) == [do |-> "node", type |-> type, name |-> "leaf", of |-> v]
<1>2. \A type : Node(type, "leaf", v) = <<leaf(type)>> /\ leaf(type).do = "node"
  BY DEF Node
<1>3. v \in LocalsDomain \cup {Extern} => leaf("IDENTIFIER") \in Created
  BY <1>1 DEF Created, Names
<1>4. v \in {Constant, Global} => leaf("LITERAL") \in Created
  BY <1>1 DEF Created, Names
<1> HIDE DEF leaf
<1>5. CASE IsInlined(v)
  <2>1. v \in 1 .. fn.n /\ fn.kind[v] \in Emitted
    BY <1>1, <1>5 DEF IsInlined, Emitted, HaveValue
  <2>2. RefOrConstant(v) = Expression(v)
    BY <1>5 DEF RefOrConstant
  <2> QED
    BY <2>1, <2>2, BuildsExpression
<1>6. CASE ~ IsInlined(v) /\ v = Global
  <2>1. RefOrConstant(v) = (Node("LITERAL", "leaf", v) \o Op("addressOf", v)) \o Resolve(1)
    BY <1>6 DEF RefOrConstant
  <2>2. Builds(Node("LITERAL", "leaf", v), 0 + 1)
    <3>1. 0 + 1 = 1
      OBVIOUS
    <3> QED
      BY <1>2, <1>4, <1>6, <3>1, BuildsNode
  <2>3. "addressOf" \in Names /\ 0 + 1 = 1
    BY DEF Names
  <2> QED
    BY <1>1, <2>1, <2>2, <2>3, BuildsOp
<1>7. CASE ~ IsInlined(v) /\ v # Global /\ v \in LocalsDomain \cup {Extern}
  <2>1. RefOrConstant(v) = Node("IDENTIFIER", "leaf", v)
    BY <1>7 DEF RefOrConstant
  <2> QED
    BY <1>2, <1>3, <1>7, <2>1, BuildsNode
<1>8. CASE ~ IsInlined(v) /\ v # Global /\ v \notin LocalsDomain \cup {Extern}
  <2>1. RefOrConstant(v) = Node("LITERAL", "leaf", v)
    BY <1>8 DEF RefOrConstant
  <2>2. v <= 0
    BY <1>1, <1>8 DEF IsInlined, LocalsDomain, Extern
  <2>3. v # Parameter
    <3>1. v = Parameter => v \in {Parameter : i \in 1 .. fn.params}
      BY <1>1
    <3> QED
      BY <1>8, <3>1 DEF LocalsDomain
  <2>4. v = Constant
    BY <1>1, <1>8, <2>2, <2>3 DEF Extern, Parameter, Global, Field, Constant
  <2> QED
    BY <1>2, <1>4, <2>1, <2>4, BuildsNode
<1> QED
  BY <1>5, <1>6, <1>7, <1>8

LEMMA BuildsAssignment ==
  ASSUME NEW s, Builds(s, 2), NEW i \in Extern .. fn.n
  PROVE  /\ Builds(s \o (Op("assignment", i) \o Resolve(2)), 1)
         /\ Builds((s \o Swap) \o (Op("assignment", i) \o Resolve(2)), 1)
         /\ Builds(((s \o Swap) \o Op("assignment", i)) \o Resolve(2), 1)
<1>1. "assignment" \in Names /\ 0 + 2 = 2 /\ 0 + 1 = 1
  BY DEF Names
<1>2. Builds(s \o Swap, 2)
  BY TurnsSwap, TurnsBoth DEF Builds
<1> QED
  BY <1>1, <1>2, BuildsOp

(* Every statement is one tree.                                            *)
LEMMA BuildsStatement ==
  ASSUME WellFormed(fn), NEW i \in 1 .. fn.n, ~ IsInlined(i), fn.kind[i] \notin NoNode,
         NEW s \in Statement(i)
  PROVE  Builds(s, 1)
<1> DEFINE args == fn.args[i]
           kind == fn.kind[i]
           m == Len(args)
<1>1. /\ fn.n \in Nat /\ i \in Extern .. fn.n /\ m \in Nat /\ m >= Arity(kind)
      /\ kind \notin {"gep", "extract"} => args \in Seq(Operands)
      /\ kind \in Kinds
  BY OperandsOf
<1>2. CASE kind \in HaveValue
  <2>1. i \in Operands
    <3>1. i \in LocalVariables
      BY <1>2 DEF LocalVariables, IsInlined
    <3> QED
      BY <1>1, <3>1 DEF Operands, Parameter, Field
  <2>2. Builds(Value(i), 1) /\ Builds(Expression(i), 1)
    BY <1>2, <2>1, BuildsValue, BuildsExpression DEF Emitted
  <2>3. Builds(Value(i) \o Expression(i), 2) /\ Builds(Expression(i) \o Value(i), 2)
    <3>1. 1 + 1 = 2
      OBVIOUS
    <3>2. Builds(Value(i) \o Expression(i), 1 + 1) /\ Builds(Expression(i) \o Value(i), 1 + 1)
      BY <2>2, BuildsBoth
    <3> QED
      BY <3>1, <3>2
  <2>4. s \in Assignment(i)
    BY <1>2 DEF Statement, HaveValue
  <2> QED
    BY <1>1, <2>3, <2>4, BuildsAssignment DEF Assignment
<1>3. CASE kind = "store"
  <2> DEFINE both == Value(args[1]) \o Value(args[2])
             addressed == (both \o Op("indirection", i)) \o Resolve(1)
  <2>1. s = ((addressed \o Swap) \o Op("assignment", i)) \o Resolve(2)
    BY <1>3 DEF Statement, HaveValue
  <2>2. args[1] \in Operands /\ args[2] \in Operands
    <3>1. Arity(kind) = 2 /\ args \in Seq(Operands)
      BY <1>1, <1>3 DEF Arity
    <3> QED
      BY <1>1, <3>1
  <2>3. Builds(both, 1 + 1)
    BY <2>2, BuildsValue, BuildsBoth
  <2>4. "indirection" \in Names /\ 1 + 1 = 2
    BY DEF Names
  <2> HIDE DEF both
  <2>5. Builds(addressed, 2)
    <3>1. Builds(addressed, 1 + 1)
      BY <1>1, <2>3, <2>4, BuildsOp
    <3> HIDE DEF addressed
    <3> QED
      BY <2>4, <3>1
  <2> HIDE DEF addressed
  <2> QED
    BY <1>1, <2>1, <2>5, BuildsAssignment
<1>4. CASE kind = "ret"
  <2> DEFINE t == [do |-> "begin", type |-> "RETURN", name |-> "return", of |-> i]
  <2>1. t \in Created /\ t.do = "begin" /\ Begin("RETURN", "return", i) = <<t>>
    BY <1>1 DEF Created, Begin, Names
  <2> HIDE DEF t
  <2>2. s = (Begin("RETURN", "return", i) \o Values(args)) \o Close(m)
    BY <1>4 DEF Statement, HaveValue
  <2>3. Fills(Values(args), m)
    BY <1>1, <1>4, BuildsValues, FillsBuilt
  <2> QED
    BY <1>1, <2>1, <2>2, <2>3, BuildsCall
<1>5. CASE kind = "unreachable"
  <2> DEFINE t == [do |-> "node", type |-> "UNKNOWN", name |-> "unreachable", of |-> i]
  <2>1. t \in Created /\ t.do = "node" /\ Node("UNKNOWN", "unreachable", i) = <<t>>
    BY <1>1 DEF Created, Node, Names
  <2> HIDE DEF t
  <2>2. s = Node("UNKNOWN", "unreachable", i)
    BY <1>5 DEF Statement, HaveValue
  <2> QED
    BY <2>1, <2>2, BuildsNode
<1>6. CASE kind \notin HaveValue \cup {"store", "ret", "unreachable"}
  <2>1. kind \in Emitted
    BY <1>1, <1>6 DEF Kinds, Terminators, HaveValue, NoNode, Emitted
  <2>2. s = Expression(i)
    BY <1>6 DEF Statement
  <2> QED
    BY <2>1, <2>2, BuildsExpression
<1> QED
  BY <1>2, <1>3, <1>4, <1>5, <1>6

----------------------------------------------------------------------------
(***************************************************************************)
(* The inductive invariant. TypeOK does not say why the ids are there: the *)
(* tasks left must find the nodes they join on vals, complete and part of  *)
(* nothing, and end with the one root of the statement.                    *)
(***************************************************************************)
NodeRecords ==
  [type : {"METHOD", "METHOD_RETURN", "BLOCK", "METHOD_PARAMETER_IN", "LOCAL", "CALL",
           "RETURN", "IDENTIFIER", "LITERAL", "FIELD_IDENTIFIER", "UNKNOWN"},
   name : Names, of : Extern .. fn.n]

Typed ==
  /\ fn \in Functions
  /\ blk \in 1 .. NBlocks + 1 /\ cur \in 1 .. fn.n + 1
  /\ node \in Seq(NodeRecords)
  /\ order \in [DOMAIN node -> Nat]
  /\ entry \in Seq(Nat) /\ Len(entry) = Len(node)
  /\ topLevelOrder \in Nat
  /\ work \in Seq(Tasks)

ParentsFinished == \A p, k \in DOMAIN node : <<p, k>> \in ast => entry[p] # 0

Edges ==
  /\ ref \cup receiver \cup members \subseteq (DOMAIN node) \X (DOMAIN node)
  /\ flow \in Seq((DOMAIN node) \X (DOMAIN node))

Declared ==
  /\ locals \in [DOMAIN locals -> DOMAIN node]
  /\ phase # "prologue" =>
       /\ Len(node) >= 3
       /\ DOMAIN locals = LocalsDomain
       /\ \A v \in LocalsDomain :
            /\ locals[v] \in DOMAIN node
            /\ node[locals[v]].type \in {"LOCAL", "METHOD_PARAMETER_IN"}
            /\ node[locals[v]].of = v

Finished == {k \in DOMAIN node : entry[k] # 0}

Statements ==
  nodes \in Seq(Finished) /\ entryPoints \in Seq(Finished) /\ exitPoints \in Seq(Finished)

(* The roots of what is being built.                                       *)
Loose ==
  /\ vals \in Seq(DOMAIN node)
  /\ \A i, j \in 1 .. Len(vals) : i # j => vals[i] # vals[j]
  /\ \A i \in 1 .. Len(vals) : \A p \in DOMAIN node : <<p, vals[i]>> \notin ast

Open == {i \in 1 .. Len(vals) : entry[vals[i]] = 0}

(* The last of vals may become the parent of others.                       *)
Fresh ==
  LET p == vals[Len(vals)]
  IN Len(vals) > 0 /\ entry[p] = p /\ \A k \in DOMAIN node : <<p, k>> \notin ast

WorkFits ==
  \E f \in {0, 1} : /\ Runs(work, Shape(Len(vals), Open, f), Shape(1, {}, 0))
                    /\ f = 1 => Fresh

Control ==
  \/ /\ phase = "prologue" /\ blk = 1
     /\ node = <<>> /\ vals = <<>> /\ nodes = <<>> /\ entryPoints = <<>> /\ exitPoints = <<>>
  \/ /\ phase = "visit" /\ vals = <<>> /\ blk \in 1 .. NBlocks
     /\ Len(entryPoints) = blk - 1 /\ Len(exitPoints) = blk - 1
  \/ /\ phase = "expression" /\ WorkFits /\ blk \in 1 .. NBlocks /\ cur \in InBlock(blk)
     /\ Len(entryPoints) = blk - 1 /\ Len(exitPoints) = blk - 1
  \/ /\ phase \in {"method", "terminators"} /\ vals = <<>> /\ blk \in 1 .. NBlocks
     /\ Len(entryPoints) = NBlocks /\ Len(exitPoints) = NBlocks
  \/ phase = "done" /\ vals = <<>>

Graph == BP!BuilderInvariant /\ ParentsFinished

EmitterInvariant ==
  /\ Typed /\ Graph /\ Edges /\ Declared /\ LocalsAgree /\ Statements /\ Loose /\ Control

LEMMA SeqMember ==
  ASSUME NEW S, NEW s \in Seq(S)
  PROVE  /\ Len(s) \in Nat /\ DOMAIN s = 1 .. Len(s)
         /\ \A i \in 1 .. Len(s) : s[i] \in S
         /\ (s = <<>> <=> Len(s) = 0)
OBVIOUS

LEMMA SeqIsFunction ==
  ASSUME NEW S, NEW n \in Nat, NEW s
  PROVE  s \in [1 .. n -> S] <=> s \in Seq(S) /\ Len(s) = n
OBVIOUS

LEMMA Segment ==
  ASSUME NEW S, NEW s \in Seq(S), NEW a \in Nat, NEW b \in Nat,
         1 <= a, a <= b + 1, b <= Len(s)
  PROVE  /\ SubSeq(s, a, b) \in Seq(S) /\ Len(SubSeq(s, a, b)) = b - a + 1
         /\ \A i \in 1 .. b - a + 1 : SubSeq(s, a, b)[i] = s[a + i - 1]
<1>1. \A i \in a .. b : s[i] \in S
  BY SeqMember
<1>2. a \in Int /\ b \in Int
  OBVIOUS
<1> QED
  BY <1>1, <1>2, SubSeqProperties

LEMMA NodeDomain ==
  ASSUME Typed
  PROVE  /\ WellFormed(fn) /\ fn.n \in Nat /\ NBlocks \in Nat
         /\ Len(node) \in Nat /\ DOMAIN node = 1 .. Len(node)
         /\ DOMAIN entry = DOMAIN node /\ New = Len(entry) + 1
         /\ BP!Nodes = DOMAIN node /\ Builder!Nodes = DOMAIN node
<1>1. WellFormed(fn)
  BY FunctionsAssumption DEF Typed
<1>2. fn.n \in Nat /\ NBlocks \in Nat
  <2>1. fn.n \in Nat /\ fn.succ \in Seq(Seq(1 .. Len(fn.succ)))
    BY <1>1 DEF WellFormed
  <2> QED
    BY <2>1, SeqMember DEF NBlocks
<1>3. Len(node) \in Nat /\ DOMAIN node = 1 .. Len(node)
  BY SeqMember DEF Typed
<1>4. DOMAIN entry = 1 .. Len(entry) /\ Len(entry) = Len(node)
  BY SeqMember DEF Typed
<1> QED
  BY <1>1, <1>2, <1>3, <1>4 DEF New, BP!Nodes, Builder!Nodes

(* Sequences of ids stay sequences of ids while the graph grows.           *)
LEMMA SeqGrows ==
  ASSUME NEW S, NEW T, S \subseteq T, NEW s \in Seq(S)
  PROVE  s \in Seq(T)
OBVIOUS

THEOREM InitInvariant == Init => EmitterInvariant
<1> SUFFICES ASSUME Init PROVE EmitterInvariant
  OBVIOUS
<1> USE DEF Init
<1>1. Typed
  <2>1. WellFormed(fn)
    BY FunctionsAssumption
  <2>2. blk \in 1 .. NBlocks + 1 /\ cur \in 1 .. fn.n + 1
    BY <2>1 DEF WellFormed, NBlocks
  <2> QED
    BY <2>2 DEF Typed
<1>2. Graph
  <2>1. BP!BuilderInvariant
    BY BP!InitInvariant DEF BP!Init
  <2> QED
    BY <2>1 DEF Graph, ParentsFinished
<1>3. Edges /\ Declared /\ LocalsAgree /\ Statements /\ Loose /\ Control
  BY DEF Edges, Declared, LocalsAgree, Statements, Loose, Control
<1> QED
  BY <1>1, <1>2, <1>3 DEF EmitterInvariant

----------------------------------------------------------------------------
LEMMA FunctionSame ==
  ASSUME fn' = fn
  PROVE  /\ Tasks' = Tasks /\ NodeRecords' = NodeRecords /\ LocalsDomain' = LocalsDomain
         /\ NBlocks' = NBlocks
BY DEF Tasks, Created, Operands, LocalsDomain, LocalVariables, NodeRecords, NBlocks

(* Steps that do not touch the expressions.                                *)
LEMMA SameGraph ==
  ASSUME EmitterInvariant, UNCHANGED <<fn, node, graph, ref, locals>>, phase # "prologue"
  PROVE  Graph' /\ LocalsAgree' /\ Declared' /\ Finished' = Finished
<1>1. fn' = fn /\ node' = node /\ entry' = entry /\ ast' = ast /\ cfg' = cfg /\ ref' = ref
      /\ locals' = locals
  BY DEF graph
<1>2. BP!BuilderInvariant'
  <2>1. BP!graph' = BP!graph
    BY <1>1 DEF BP!graph
  <2> QED
    BY <2>1, BP!BuilderStepInvariant DEF EmitterInvariant, Graph
<1>3. ParentsFinished'
  BY <1>1 DEF EmitterInvariant, Graph, ParentsFinished
<1>4. LocalsAgree'
  BY <1>1 DEF EmitterInvariant, LocalsAgree
<1>5. Declared'
  BY <1>1, FunctionSame DEF EmitterInvariant, Declared
<1>6. Finished' = Finished
  BY <1>1 DEF Finished
<1> QED
  BY <1>2, <1>3, <1>4, <1>5, <1>6 DEF Graph

LEMMA SameEdges ==
  ASSUME EmitterInvariant, UNCHANGED <<node, ref, receiver, members, flow>>
  PROVE  Edges'
BY DEF EmitterInvariant, Edges

LEMMA SameTypes ==
  ASSUME EmitterInvariant, UNCHANGED <<fn, blk, node, order, entry>>,
         cur' \in 1 .. fn.n + 1, topLevelOrder' \in Nat, work' \in Seq(Tasks)
  PROVE  Typed'
BY FunctionSame DEF EmitterInvariant, Typed

LEMMA SameStatements ==
  ASSUME EmitterInvariant, Finished' = Finished, UNCHANGED <<nodes, entryPoints, exitPoints>>
  PROVE  Statements'
BY DEF EmitterInvariant, Statements

LEMMA SameVals ==
  ASSUME EmitterInvariant, UNCHANGED <<node, entry, ast, vals>>
  PROVE  Loose' /\ Open' = Open /\ Fresh' = Fresh /\ Len(vals') = Len(vals)
BY DEF EmitterInvariant, Loose, Open, Fresh

LEMMA NoVals ==
  ASSUME vals' = <<>>
  PROVE  Loose'
BY DEF Loose

LEMMA StutterStep ==
  ASSUME EmitterInvariant, UNCHANGED vars
  PROVE  EmitterInvariant'
<1>1. UNCHANGED <<fn, phase, blk, cur, work, vals, node, order, ref, receiver, members,
                  flow, locals, nodes, topLevelOrder, entryPoints, exitPoints>>
      /\ entry' = entry /\ ast' = ast /\ cfg' = cfg
  BY DEF vars
<1>2. BP!BuilderInvariant'
  <2>1. BP!graph' = BP!graph
    BY <1>1 DEF BP!graph
  <2> QED
    BY <2>1, BP!BuilderStepInvariant DEF EmitterInvariant, Graph
<1>3. Graph' /\ LocalsAgree' /\ Declared' /\ Finished' = Finished
  BY <1>1, <1>2, FunctionSame
     DEF EmitterInvariant, Graph, ParentsFinished, LocalsAgree, Declared, Finished
<1>4. Typed' /\ Edges' /\ Statements' /\ Loose'
  BY <1>1, <1>3, FunctionSame, SameEdges, SameStatements, SameVals DEF EmitterInvariant, Typed
<1>5. Control'
  <2>1. NBlocks' = NBlocks /\ InBlock(blk)' = InBlock(blk) /\ WorkFits' = WorkFits
    BY <1>1, FunctionSame, SameVals DEF InBlock, WorkFits
  <2> QED
    BY <1>1, <2>1 DEF EmitterInvariant, Control
<1> QED
  BY <1>3, <1>4, <1>5 DEF EmitterInvariant

----------------------------------------------------------------------------
LEMMA VisitStep ==
  ASSUME EmitterInvariant, VisitInstruction
  PROVE  EmitterInvariant'
<1>1. /\ phase = "visit" /\ cur \in InBlock(blk)
      /\ UNCHANGED <<fn, blk, vals, node, order, graph, ref, receiver, members, flow, locals,
                     nodes, topLevelOrder, entryPoints, exitPoints>>
  BY DEF VisitInstruction, blockState
<1>2. /\ vals = <<>> /\ blk \in 1 .. NBlocks
      /\ Len(entryPoints) = blk - 1 /\ Len(exitPoints) = blk - 1
  BY <1>1 DEF EmitterInvariant, Control
<1>3. WellFormed(fn) /\ fn.n \in Nat /\ cur \in 1 .. fn.n
  BY <1>1, NodeDomain DEF EmitterInvariant, InBlock
<1>4. Graph' /\ LocalsAgree' /\ Declared' /\ Finished' = Finished
  BY <1>1, SameGraph
<1>5. Edges' /\ Statements' /\ Loose'
  BY <1>1, <1>2, <1>4, SameEdges, SameStatements, NoVals
<1>6. cur' \in 1 .. fn.n + 1 /\ topLevelOrder' \in Nat
  BY <1>1, <1>3 DEF VisitInstruction, EmitterInvariant, Typed
<1>7. UNCHANGED <<fn, blk, node, order, entry>>
  BY <1>1 DEF graph
<1>8. NBlocks' = NBlocks /\ InBlock(blk)' = InBlock(blk)
  BY <1>1, FunctionSame DEF InBlock
<1>9. CASE IsInlined(cur) \/ fn.kind[cur] \in NoNode
  <2>1. phase' = phase /\ work' = work
    BY <1>9 DEF VisitInstruction
  <2>2. Typed'
    BY <1>6, <1>7, <2>1, SameTypes DEF EmitterInvariant, Typed
  <2>3. Control'
    BY <1>1, <1>2, <1>8, <2>1 DEF Control
  <2> QED
    BY <1>4, <1>5, <2>2, <2>3 DEF EmitterInvariant
<1>10. CASE ~ (IsInlined(cur) \/ fn.kind[cur] \in NoNode)
  <2>1. phase' = "expression" /\ work' \in Statement(cur) /\ cur' = cur
    BY <1>10 DEF VisitInstruction
  <2>2. Builds(work', 1)
    BY <1>3, <1>10, <2>1, BuildsStatement
  <2>3. Typed'
    <3>1. work' \in Seq(Tasks)
      BY <2>2 DEF Builds, Turns
    <3> QED
      BY <1>6, <1>7, <3>1, SameTypes
  <2>4. WorkFits'
    <3>1. Runs(work', Shape(0 + 0, {}, 0), Shape(0 + 1, {}, 0))
      BY <2>2 DEF Builds, Turns
    <3>2. 0 + 0 = 0 /\ 0 + 1 = 1 /\ Len(vals') = 0 /\ Open' = {}
      BY <1>1, <1>2 DEF Open
    <3>3. Runs(work', Shape(Len(vals'), Open', 0), Shape(1, {}, 0))
      BY <3>1, <3>2
    <3> QED
      BY <3>3 DEF WorkFits
  <2>5. Control'
    <3>1. cur' \in InBlock(blk)' /\ blk' \in 1 .. NBlocks'
          /\ Len(entryPoints') = blk' - 1 /\ Len(exitPoints') = blk' - 1
      BY <1>1, <1>2, <1>8, <2>1
    <3> QED
      BY <2>1, <2>4, <3>1 DEF Control
  <2> QED
    BY <1>4, <1>5, <2>3, <2>5 DEF EmitterInvariant
<1> QED
  BY <1>9, <1>10

(* What a step finds that does the first of the tasks left.                *)
LEMMA FirstTask ==
  ASSUME EmitterInvariant, NEW what, Todo(what)
  PROVE  /\ phase = "expression" /\ blk \in 1 .. NBlocks /\ cur \in InBlock(blk)
         /\ Len(entryPoints) = blk - 1 /\ Len(exitPoints) = blk - 1
         /\ work \in Seq(Tasks) /\ work # <<>> /\ Tail(work) \in Seq(Tasks)
         /\ Head(work) \in Tasks /\ Head(work).do = what
         /\ Len(vals) \in Nat /\ Open \in SUBSET (1 .. Len(vals))
         /\ \E f \in {0, 1}, c \in Shapes :
              /\ Effect(Head(work), Shape(Len(vals), Open, f), c)
              /\ Runs(Tail(work), c, Shape(1, {}, 0))
              /\ f = 1 => Fresh
<1>1. /\ phase = "expression" /\ work # <<>> /\ Head(work).do = what
      /\ work \in Seq(Tasks) /\ vals \in Seq(DOMAIN node)
  BY DEF Todo, EmitterInvariant, Typed, Loose
<1>2. /\ WorkFits /\ blk \in 1 .. NBlocks /\ cur \in InBlock(blk)
      /\ Len(entryPoints) = blk - 1 /\ Len(exitPoints) = blk - 1
  BY <1>1 DEF EmitterInvariant, Control
<1>3. PICK f \in {0, 1} : /\ Runs(work, Shape(Len(vals), Open, f), Shape(1, {}, 0))
                          /\ f = 1 => Fresh
  BY <1>2 DEF WorkFits
<1>4. \E c \in Shapes : /\ Effect(Head(work), Shape(Len(vals), Open, f), c)
                        /\ Runs(Tail(work), c, Shape(1, {}, 0))
  BY <1>1, <1>3, RunsHead
<1>5. Head(work) \in Tasks /\ Tail(work) \in Seq(Tasks) /\ Len(vals) \in Nat
  BY <1>1
<1>6. Open \in SUBSET (1 .. Len(vals))
  BY DEF Open
<1> QED
  BY <1>1, <1>2, <1>3, <1>4, <1>5, <1>6

(* A step that leaves the shape for the tasks left.                        *)
LEMMA NextTask ==
  ASSUME EmitterInvariant, phase = "expression",
         UNCHANGED <<fn, phase, blk, cur, entryPoints, exitPoints>>,
         NEW f \in {0, 1}, NEW c, c = Shape(Len(vals'), Open', f),
         Runs(work', c, Shape(1, {}, 0)), f = 1 => Fresh'
  PROVE  Control'
<1>1. /\ blk \in 1 .. NBlocks /\ cur \in InBlock(blk)
      /\ Len(entryPoints) = blk - 1 /\ Len(exitPoints) = blk - 1
  BY DEF EmitterInvariant, Control
<1>2. NBlocks' = NBlocks /\ InBlock(blk)' = InBlock(blk)
  BY FunctionSame DEF InBlock
<1>3. WorkFits'
  BY DEF WorkFits
<1> QED
  BY <1>1, <1>2, <1>3 DEF Control

LEMMA ValueStep ==
  ASSUME EmitterInvariant, EmitValue
  PROVE  EmitterInvariant'
<1>1. /\ Todo("value") /\ work' = RefOrConstant(Head(work).of) \o Tail(work)
      /\ UNCHANGED <<fn, phase, blk, cur, vals, node, order, graph, ref, receiver, members,
                     flow, locals, nodes, topLevelOrder, entryPoints, exitPoints>>
  BY DEF EmitValue, blockState
<1>2. /\ phase = "expression" /\ Head(work) \in Tasks /\ Head(work).do = "value"
      /\ Tail(work) \in Seq(Tasks)
      /\ Len(vals) \in Nat /\ Open \in SUBSET (1 .. Len(vals))
  BY <1>1, FirstTask
<1>3. PICK f \in {0, 1}, c \in Shapes :
        /\ Effect(Head(work), Shape(Len(vals), Open, f), c)
        /\ Runs(Tail(work), c, Shape(1, {}, 0))
  BY <1>1, FirstTask
<1>4. c = Shape(Len(vals) + 1, Open, 0)
  BY <1>2, <1>3 DEF Effect, Shape
<1> DEFINE v == Head(work).of
<1>5. v \in Operands
  BY <1>2 DEF Tasks, Created
<1>6. Builds(RefOrConstant(v), 1)
  BY <1>2, <1>5, NodeDomain, BuildsRefOrConstant DEF EmitterInvariant, Declared
<1>7. RefOrConstant(v) \in Seq(Tasks)
  BY <1>6 DEF Builds, Turns
<1>8. Runs(work', Shape(Len(vals), Open, 0), Shape(1, {}, 0))
  <2>1. Runs(RefOrConstant(v), Shape(Len(vals) + 0, Open, 0), Shape(Len(vals) + 1, Open, 0))
    BY <1>2, <1>6 DEF Builds, Turns
  <2>2. Len(vals) + 0 = Len(vals)
    BY <1>2
  <2>3. Runs(RefOrConstant(v), Shape(Len(vals), Open, 0), c)
    BY <1>4, <2>1, <2>2
  <2> HIDE DEF v
  <2>4. Runs(RefOrConstant(v) \o Tail(work), Shape(Len(vals), Open, 0), Shape(1, {}, 0))
    BY <1>2, <1>3, <1>7, <2>3, RunsBoth
  <2> QED
    BY <1>1, <2>4 DEF v
<1>9. Graph' /\ LocalsAgree' /\ Declared' /\ Finished' = Finished
  BY <1>1, <1>2, SameGraph
<1>10. Edges' /\ Statements' /\ Loose' /\ Open' = Open /\ Len(vals') = Len(vals)
  BY <1>1, <1>9, SameEdges, SameStatements, SameVals DEF graph
<1>11. work' \in Seq(Tasks)
  BY <1>1, <1>2, <1>7
<1>12. Typed'
  BY <1>1, <1>11, SameTypes DEF graph, EmitterInvariant, Typed
<1>13. Control'
  BY <1>1, <1>2, <1>8, <1>10, NextTask
<1> QED
  BY <1>9, <1>10, <1>12, <1>13 DEF EmitterInvariant

LEMMA ReceiverStep ==
  ASSUME EmitterInvariant, ConnectReceiver
  PROVE  EmitterInvariant'
<1>1. /\ Todo("receiver") /\ work' = Tail(work)
      /\ receiver' = receiver \cup {<<vals[Len(vals) - 1], vals[Len(vals)]>>}
      /\ UNCHANGED <<fn, phase, blk, cur, vals, node, order, graph, ref, members,
                     flow, locals, nodes, topLevelOrder, entryPoints, exitPoints>>
  BY DEF ConnectReceiver, blockState
<1>2. /\ phase = "expression" /\ Head(work).do = "receiver" /\ Tail(work) \in Seq(Tasks)
      /\ Len(vals) \in Nat
  BY <1>1, FirstTask
<1>3. PICK f \in {0, 1}, c \in Shapes :
        /\ Effect(Head(work), Shape(Len(vals), Open, f), c)
        /\ Runs(Tail(work), c, Shape(1, {}, 0))
  BY <1>1, FirstTask
<1>4. c = Shape(Len(vals), Open, 0) /\ Len(vals) >= 2
  BY <1>2, <1>3 DEF Effect, Shape
<1>5. vals[Len(vals) - 1] \in DOMAIN node /\ vals[Len(vals)] \in DOMAIN node
  <2>1. \A i \in 1 .. Len(vals) : vals[i] \in DOMAIN node
    BY SeqMember DEF EmitterInvariant, Loose
  <2> QED
    BY <1>2, <1>4, <2>1
<1>6. Graph' /\ LocalsAgree' /\ Declared' /\ Finished' = Finished
  BY <1>1, <1>2, SameGraph
<1>7. Edges'
  <2> DEFINE x == vals[Len(vals) - 1]
             y == vals[Len(vals)]
  <2>1. x \in DOMAIN node /\ y \in DOMAIN node /\ receiver' = receiver \cup {<<x, y>>}
    BY <1>1, <1>5
  <2> HIDE DEF x, y
  <2>2. node' = node /\ ref' = ref /\ members' = members /\ flow' = flow
    BY <1>1
  <2>3. ref \cup receiver \cup members \subseteq (DOMAIN node) \X (DOMAIN node)
        /\ flow \in Seq((DOMAIN node) \X (DOMAIN node))
    BY DEF EmitterInvariant, Edges
  <2>4. <<x, y>> \in (DOMAIN node) \X (DOMAIN node)
    BY <2>1
  <2> DEFINE ids == (DOMAIN node) \X (DOMAIN node)
  <2> HIDE DEF ids
  <2> QED
    BY <2>1, <2>2, <2>3, <2>4 DEF Edges, ids
<1>8. Statements' /\ Loose' /\ Open' = Open /\ Len(vals') = Len(vals)
  BY <1>1, <1>6, SameStatements, SameVals DEF graph
<1>9. Typed'
  BY <1>1, <1>2, SameTypes DEF graph, EmitterInvariant, Typed
<1>10. Control'
  BY <1>1, <1>2, <1>3, <1>4, <1>8, NextTask
<1> QED
  BY <1>6, <1>7, <1>8, <1>9, <1>10 DEF EmitterInvariant

LEMMA SwapStep ==
  ASSUME EmitterInvariant, SwapOperands
  PROVE  /\ EmitterInvariant' /\ Len(vals) >= 2
         /\ Len(vals') = Len(vals)
         /\ \A i \in 1 .. Len(vals) :
              vals'[i] = IF i = Len(vals) THEN vals[Len(vals) - 1]
                         ELSE IF i = Len(vals) - 1 THEN vals[Len(vals)] ELSE vals[i]
<1> DEFINE m == Len(vals)
<1>1. /\ Todo("swap") /\ work' = Tail(work)
      /\ vals' = SubSeq(vals, 1, m - 2) \o <<vals[m], vals[m - 1]>>
      /\ UNCHANGED <<fn, phase, blk, cur, node, order, graph, ref, receiver, members,
                     flow, locals, nodes, topLevelOrder, entryPoints, exitPoints>>
  BY DEF SwapOperands, blockState
<1>2. /\ phase = "expression" /\ Head(work).do = "swap" /\ Tail(work) \in Seq(Tasks)
      /\ m \in Nat
  BY <1>1, FirstTask
<1>3. PICK f \in {0, 1}, c \in Shapes :
        /\ Effect(Head(work), Shape(m, Open, f), c)
        /\ Runs(Tail(work), c, Shape(1, {}, 0))
  BY <1>1, FirstTask
<1>4. c = Shape(m, Open, 0) /\ m >= 2 /\ m - 1 \notin Open /\ m \notin Open
  BY <1>2, <1>3 DEF Effect, Shape
<1>5. /\ vals \in Seq(DOMAIN node)
      /\ \A i \in 1 .. m : vals[i] \in DOMAIN node
      /\ \A i, j \in 1 .. m : i # j => vals[i] # vals[j]
      /\ \A i \in 1 .. m : \A p \in DOMAIN node : <<p, vals[i]>> \notin ast
  BY SeqMember DEF EmitterInvariant, Loose
<1>6. /\ vals' \in Seq(DOMAIN node) /\ Len(vals') = m
      /\ \A i \in 1 .. m : vals'[i] = IF i = m THEN vals[m - 1]
                                       ELSE IF i = m - 1 THEN vals[m] ELSE vals[i]
  <2> DEFINE first == SubSeq(vals, 1, m - 2)
             last == <<vals[m], vals[m - 1]>>
  <2>1. first \in Seq(DOMAIN node) /\ Len(first) = m - 2
        /\ \A i \in 1 .. m - 2 : first[i] = vals[i]
    <3>1. 1 \in Nat /\ m - 2 \in Nat /\ 1 <= (m - 2) + 1 /\ (m - 2) - 1 + 1 = m - 2
          /\ \A i \in 1 .. m - 2 : 1 + i - 1 = i
      BY <1>2, <1>4
    <3> QED
      BY <1>5, <3>1, Segment
  <2>2. last \in Seq(DOMAIN node) /\ Len(last) = 2 /\ last[1] = vals[m] /\ last[2] = vals[m - 1]
    BY <1>2, <1>4, <1>5
  <2> HIDE DEF first, last
  <2>3. first \o last \in Seq(DOMAIN node) /\ Len(first \o last) = m
        /\ \A i \in 1 .. m : (first \o last)[i] = IF i <= m - 2 THEN first[i] ELSE last[i - (m - 2)]
    <3>1. Len(first) + Len(last) = m
      BY <1>2, <1>4, <2>1, <2>2
    <3>2. /\ first \o last \in Seq(DOMAIN node) /\ Len(first \o last) = Len(first) + Len(last)
          /\ \A i \in 1 .. Len(first) + Len(last) :
               (first \o last)[i] = IF i <= Len(first) THEN first[i] ELSE last[i - Len(first)]
      BY <2>1, <2>2, ConcatProperties
    <3> QED
      BY <2>1, <3>1, <3>2
  <2>4. vals' = first \o last
    BY <1>1 DEF first, last
  <2> HIDE DEF m
  <2>5. ASSUME NEW i \in 1 .. m
        PROVE  \/ i <= m - 2 /\ i \in 1 .. m - 2 /\ i # m /\ i # m - 1
               \/ ~ (i <= m - 2) /\ i = m - 1 /\ i - (m - 2) = 1 /\ i # m
               \/ ~ (i <= m - 2) /\ i = m /\ i - (m - 2) = 2
    BY <1>2, <1>4
  <2> QED
    BY <2>1, <2>2, <2>3, <2>4, <2>5
<1> HIDE DEF m
<1>7. Loose'
  <2>1. node' = node /\ ast' = ast
    BY <1>1 DEF graph
  <2>2. \A i, j \in 1 .. m : i # j => vals'[i] # vals'[j]
    BY <1>2, <1>4, <1>5, <1>6
  <2>3. \A i \in 1 .. m : \A p \in DOMAIN node : <<p, vals'[i]>> \notin ast
    BY <1>2, <1>4, <1>5, <1>6
  <2> QED
    BY <1>6, <2>1, <2>2, <2>3 DEF Loose
<1>8. Open' = Open
  <2>1. Open' = {i \in 1 .. m : entry[vals'[i]] = 0}
    BY <1>1, <1>6 DEF Open, graph
  <2>2. Open = {i \in 1 .. m : entry[vals[i]] = 0}
    BY DEF Open, m
  <2>3. entry[vals[m]] # 0 /\ entry[vals[m - 1]] # 0
    BY <1>2, <1>4, <2>2
  <2> QED
    BY <1>2, <1>4, <1>6, <2>1, <2>2, <2>3
<1>9. Graph' /\ LocalsAgree' /\ Declared' /\ Finished' = Finished
  BY <1>1, <1>2, SameGraph
<1>10. Edges' /\ Statements'
  BY <1>1, <1>9, SameEdges, SameStatements
<1>11. Typed'
  BY <1>1, <1>2, SameTypes DEF graph, EmitterInvariant, Typed
<1>12. Control'
  BY <1>1, <1>2, <1>3, <1>4, <1>6, <1>8, NextTask
<1> QED
  BY <1>4, <1>6, <1>7, <1>9, <1>10, <1>11, <1>12 DEF EmitterInvariant, m

(* Control flow starts in a finished expression at a node.                 *)
LEMMA EntryIds ==
  ASSUME EmitterInvariant
  PROVE  /\ \A k \in DOMAIN node : entry[k] \in {0} \cup DOMAIN node
         /\ \A k \in Finished : k \in DOMAIN node /\ entry[k] \in DOMAIN node
<1>1. DOMAIN node = 1 .. Len(node) /\ Len(node) \in Nat /\ BP!Nodes = DOMAIN node
      /\ Len(entry) = Len(node)
  BY NodeDomain DEF EmitterInvariant, Typed
<1>2. \A k \in BP!Nodes : entry[k] \in 0 .. Len(entry)
  BY DEF EmitterInvariant, Graph, BP!BuilderInvariant, BP!TypeOK
<1>3. \A k \in DOMAIN node : entry[k] \in {0} \cup DOMAIN node
  BY <1>1, <1>2
<1> QED
  BY <1>3 DEF Finished

LEMMA EndStatementStep ==
  ASSUME EmitterInvariant, EndStatement
  PROVE  EmitterInvariant'
<1>1. /\ phase = "expression" /\ work = <<>>
      /\ order' = [order EXCEPT ![vals[1]] = topLevelOrder]
      /\ topLevelOrder' = topLevelOrder + 1 /\ nodes' = nodes \o vals /\ vals' = <<>>
      /\ phase' = "visit" /\ cur' = cur + 1
      /\ UNCHANGED <<fn, blk, work, node, graph, ref, receiver, members, flow, locals,
                     entryPoints, exitPoints>>
  BY DEF EndStatement
<1>2. /\ WorkFits /\ blk \in 1 .. NBlocks /\ cur \in InBlock(blk)
      /\ Len(entryPoints) = blk - 1 /\ Len(exitPoints) = blk - 1
  BY <1>1 DEF EmitterInvariant, Control
<1>3. vals \in Seq(Finished)
  <2>1. PICK f \in {0, 1} : Runs(<<>>, Shape(Len(vals), Open, f), Shape(1, {}, 0))
    BY <1>1, <1>2 DEF WorkFits
  <2>2. Len(vals) = 1 /\ Open = {}
    BY <2>1, RunsNothing DEF Shape
  <2>3. vals \in Seq(DOMAIN node)
    BY DEF EmitterInvariant, Loose
  <2>4. \A i \in 1 .. Len(vals) : vals[i] \in Finished
    BY <2>2, <2>3, SeqMember DEF Open, Finished
  <2> QED
    BY <2>3, <2>4
<1>4. Graph' /\ LocalsAgree' /\ Declared' /\ Finished' = Finished
  BY <1>1, SameGraph
<1>5. Statements'
  <2>1. nodes \in Seq(Finished)
    BY DEF EmitterInvariant, Statements
  <2>2. nodes \o vals \in Seq(Finished)
    BY <1>3, <2>1
  <2> QED
    BY <1>1, <1>4, <2>2 DEF EmitterInvariant, Statements
<1>6. Typed'
  <2>1. cur' \in 1 .. fn.n + 1
    BY <1>1, <1>2, NodeDomain DEF EmitterInvariant, InBlock
  <2>2. order' \in [DOMAIN node -> Nat] /\ topLevelOrder' \in Nat
    <3>1. order \in [DOMAIN node -> Nat] /\ topLevelOrder \in Nat
      BY DEF EmitterInvariant, Typed
    <3>2. \A D, f, x : f \in [D -> Nat] => [f EXCEPT ![x] = topLevelOrder] \in [D -> Nat]
      BY <3>1
    <3> QED
      BY <1>1, <3>1, <3>2
  <2> QED
    BY <1>1, <2>1, <2>2, FunctionSame DEF graph, EmitterInvariant, Typed
<1>7. Edges' /\ Loose'
  BY <1>1, SameEdges, NoVals
<1>8. Control'
  BY <1>1, <1>2, FunctionSame DEF Control
<1> QED
  BY <1>4, <1>5, <1>6, <1>7, <1>8 DEF EmitterInvariant

LEMMA EndBlockStep ==
  ASSUME EmitterInvariant, EndBlock
  PROVE  EmitterInvariant'
<1> DEFINE ids == DOMAIN node
           m == Len(nodes)
           new == [i \in 1 .. m - 1 |-> <<nodes[i], entry[nodes[i + 1]]>>]
<1>1. /\ phase = "visit" /\ nodes # <<>>
      /\ entryPoints' = Append(entryPoints, nodes[1])
      /\ exitPoints' = Append(exitPoints, nodes[m])
      /\ members' = members \cup {<<BLOCK, k>> : k \in Elements(nodes)}
      /\ flow' = flow \o new /\ nodes' = <<>>
      /\ UNCHANGED <<fn, cur, work, vals, node, order, graph, ref, receiver, locals,
                     topLevelOrder>>
  BY DEF EndBlock
<1>2. /\ vals = <<>> /\ blk \in 1 .. NBlocks /\ NBlocks \in Nat
      /\ Len(entryPoints) = blk - 1 /\ Len(exitPoints) = blk - 1
  BY <1>1, NodeDomain DEF EmitterInvariant, Control
<1>3. /\ nodes \in Seq(Finished) /\ m \in Nat /\ m >= 1
      /\ \A i \in 1 .. m : nodes[i] \in Finished
      /\ entryPoints \in Seq(Finished) /\ exitPoints \in Seq(Finished)
  BY <1>1, SeqMember DEF EmitterInvariant, Statements
<1>4. Graph' /\ LocalsAgree' /\ Declared' /\ Finished' = Finished
  BY <1>1, SameGraph
<1>5. Statements' /\ Len(entryPoints') = blk /\ Len(exitPoints') = blk
  <2>1. nodes[1] \in Finished /\ nodes[m] \in Finished
    BY <1>3
  <2>2. /\ entryPoints' \in Seq(Finished) /\ Len(entryPoints') = Len(entryPoints) + 1
        /\ exitPoints' \in Seq(Finished) /\ Len(exitPoints') = Len(exitPoints) + 1
    BY <1>1, <1>3, <2>1
  <2> QED
    BY <1>1, <1>2, <1>4, <2>2 DEF Statements
<1>6. Edges'
  <2>1. \A k \in Finished : k \in ids /\ entry[k] \in ids
    BY EntryIds
  <2>2. BLOCK \in ids
    BY <1>1, NodeDomain DEF EmitterInvariant, Declared, BLOCK
  <2>3. {<<BLOCK, k>> : k \in Elements(nodes)} \subseteq ids \X ids
    BY <1>3, <2>1, <2>2 DEF Elements
  <2>4. new \in Seq(ids \X ids)
    <3>1. \A i \in 1 .. m - 1 : <<nodes[i], entry[nodes[i + 1]]>> \in ids \X ids
      BY <1>3, <2>1
    <3> QED
      BY <1>3, <3>1
  <2>5. /\ ref \cup receiver \cup members \subseteq ids \X ids
        /\ flow \in Seq(ids \X ids)
    BY DEF EmitterInvariant, Edges
  <2> DEFINE pairs == ids \X ids
  <2>6. /\ ref' \cup receiver' \cup members' \subseteq ids \X ids
    BY <1>1, <2>3, <2>5
  <2>7. flow' \in Seq(ids \X ids)
    <3> HIDE DEF new, pairs
    <3>1. flow \in Seq(pairs) /\ new \in Seq(pairs)
      BY <2>4, <2>5 DEF pairs
    <3> QED
      BY <1>1, <3>1 DEF pairs
  <2> QED
    BY <1>1, <2>6, <2>7 DEF Edges
<1>7. Loose'
  BY <1>1, <1>2, NoVals
<1>8. \/ blk = NBlocks /\ phase' = "method" /\ blk' = blk
      \/ blk # NBlocks /\ blk' = blk + 1 /\ phase' = phase
  BY DEF EndBlock
<1>9. Typed'
  <2>1. blk' \in 1 .. NBlocks + 1
    BY <1>2, <1>8
  <2> QED
    BY <1>1, <2>1, FunctionSame DEF graph, EmitterInvariant, Typed
<1>10. Control'
  BY <1>1, <1>2, <1>5, <1>8, FunctionSame DEF Control
<1> QED
  BY <1>4, <1>5, <1>6, <1>7, <1>9, <1>10 DEF EmitterInvariant

LEMMA ConnectMethodStep ==
  ASSUME EmitterInvariant, ConnectMethod
  PROVE  EmitterInvariant'
<1>1. /\ phase = "method" /\ phase' = "terminators" /\ blk' = 1
      /\ flow' = Append(flow, <<METHOD, entry[entryPoints[1]]>>)
      /\ UNCHANGED <<fn, cur, work, vals, node, order, graph, ref, receiver, members, locals,
                     nodes, topLevelOrder, entryPoints, exitPoints>>
  BY DEF ConnectMethod, blockState
<1>2. /\ vals = <<>> /\ blk \in 1 .. NBlocks /\ NBlocks \in Nat
      /\ Len(entryPoints) = NBlocks /\ Len(exitPoints) = NBlocks
  BY <1>1, NodeDomain DEF EmitterInvariant, Control
<1>3. Graph' /\ LocalsAgree' /\ Declared' /\ Finished' = Finished
  BY <1>1, SameGraph
<1>4. Statements' /\ Loose'
  BY <1>1, <1>2, <1>3, SameStatements, NoVals
<1>5. Edges'
  <2> DEFINE ids == DOMAIN node
             e == entry[entryPoints[1]]
  <2>1. METHOD \in ids
    BY <1>1, NodeDomain DEF EmitterInvariant, Declared, METHOD
  <2>2. e \in ids
    <3>1. entryPoints[1] \in Finished
      BY <1>2, SeqMember DEF EmitterInvariant, Statements
    <3> QED
      BY <3>1, EntryIds
  <2>3. flow \in Seq(ids \X ids) /\ flow' = Append(flow, <<METHOD, e>>)
        /\ ref \cup receiver \cup members \subseteq ids \X ids
    BY <1>1 DEF EmitterInvariant, Edges
  <2> HIDE DEF e
  <2>4. flow' \in Seq(ids \X ids)
    BY <2>1, <2>2, <2>3
  <2> QED
    BY <1>1, <2>3, <2>4 DEF Edges
<1>6. Typed'
  <2>1. blk' \in 1 .. NBlocks + 1
    BY <1>1, <1>2
  <2> QED
    BY <1>1, <2>1, FunctionSame DEF graph, EmitterInvariant, Typed
<1>7. Control'
  BY <1>1, <1>2, FunctionSame DEF Control
<1> QED
  BY <1>3, <1>4, <1>5, <1>6, <1>7 DEF EmitterInvariant

LEMMA ConnectTerminatorStep ==
  ASSUME EmitterInvariant, ConnectTerminator
  PROVE  EmitterInvariant'
<1> DEFINE ids == DOMAIN node
           targets == IF fn.kind[Terminator(blk)] = "ret" THEN <<METHOD_RETURN>>
                      ELSE [j \in DOMAIN fn.succ[blk] |-> entry[entryPoints[fn.succ[blk][j]]]]
           new == [j \in DOMAIN targets |-> <<exitPoints[blk], targets[j]>>]
<1>1. /\ phase = "terminators" /\ flow' = flow \o new
      /\ \/ blk = NBlocks /\ phase' = "done" /\ blk' = blk
         \/ blk # NBlocks /\ blk' = blk + 1 /\ phase' = phase
      /\ UNCHANGED <<fn, cur, work, vals, node, order, graph, ref, receiver, members, locals,
                     nodes, topLevelOrder, entryPoints, exitPoints>>
  BY DEF ConnectTerminator, blockState
<1>2. /\ vals = <<>> /\ blk \in 1 .. NBlocks /\ NBlocks \in Nat
      /\ Len(entryPoints) = NBlocks /\ Len(exitPoints) = NBlocks
  BY <1>1, NodeDomain DEF EmitterInvariant, Control
<1>3. Graph' /\ LocalsAgree' /\ Declared' /\ Finished' = Finished
  BY <1>1, SameGraph
<1>4. Statements' /\ Loose'
  BY <1>1, <1>2, <1>3, SameStatements, NoVals
<1>5. /\ \A b \in 1 .. NBlocks : entry[entryPoints[b]] \in ids /\ exitPoints[b] \in ids
  <2>1. \A b \in 1 .. NBlocks : entryPoints[b] \in Finished /\ exitPoints[b] \in Finished
    BY <1>2, SeqMember DEF EmitterInvariant, Statements
  <2> QED
    BY <2>1, EntryIds
<1>6. targets \in Seq(ids)
  <2>1. CASE fn.kind[Terminator(blk)] = "ret"
    <3>1. METHOD_RETURN \in ids
      <4>1. Len(node) >= 3
        BY <1>1 DEF EmitterInvariant, Declared
      <4> HIDE DEF targets
      <4> QED
        BY <4>1, NodeDomain DEF EmitterInvariant, METHOD_RETURN
    <3> QED
      BY <2>1, <3>1
  <2>2. CASE fn.kind[Terminator(blk)] # "ret"
    <3>1. fn.succ[blk] \in Seq(1 .. NBlocks)
      <4>1. fn.succ \in Seq(Seq(1 .. NBlocks))
        BY NodeDomain DEF EmitterInvariant, WellFormed, NBlocks
      <4> QED
        BY <1>2, <4>1, SeqMember DEF NBlocks
    <3> DEFINE succ == fn.succ[blk]
    <3>2. Len(succ) \in Nat /\ DOMAIN succ = 1 .. Len(succ)
          /\ \A j \in 1 .. Len(succ) : succ[j] \in 1 .. NBlocks
      BY <3>1, SeqMember
    <3>3. targets = [j \in 1 .. Len(succ) |-> entry[entryPoints[succ[j]]]]
      BY <2>2, <3>2
    <3> HIDE DEF succ, targets
    <3>4. \A j \in 1 .. Len(succ) : entry[entryPoints[succ[j]]] \in ids
      BY <1>5, <3>2
    <3> QED
      BY <3>2, <3>3, <3>4
  <2> QED
    BY <2>1, <2>2
<1> HIDE DEF targets
<1>7. Edges'
  <2>1. new \in Seq(ids \X ids)
    <3>1. Len(targets) \in Nat /\ DOMAIN targets = 1 .. Len(targets)
          /\ \A j \in 1 .. Len(targets) : targets[j] \in ids
      BY <1>6, SeqMember
    <3>2. \A j \in 1 .. Len(targets) : <<exitPoints[blk], targets[j]>> \in ids \X ids
      BY <1>2, <1>5, <3>1
    <3> QED
      BY <3>1, <3>2
  <2> DEFINE pairs == ids \X ids
  <2>2. /\ ref \cup receiver \cup members \subseteq pairs /\ flow \in Seq(pairs)
        /\ new \in Seq(pairs)
    BY <2>1 DEF EmitterInvariant, Edges
  <2> HIDE DEF new, pairs
  <2>3. flow' \in Seq(pairs)
    BY <1>1, <2>2
  <2> QED
    BY <1>1, <2>2, <2>3 DEF Edges, pairs
<1>8. Typed'
  <2>1. blk' \in 1 .. NBlocks + 1
    BY <1>1, <1>2
  <2> QED
    BY <1>1, <2>1, FunctionSame DEF graph, EmitterInvariant, Typed
<1>9. Control'
  BY <1>1, <1>2, FunctionSame DEF Control
<1> QED
  BY <1>3, <1>4, <1>7, <1>8, <1>9 DEF EmitterInvariant

----------------------------------------------------------------------------
(* A new node. An IDENTIFIER gets its REF edge at once.                    *)
LEMMA Grown ==
  ASSUME EmitterInvariant, phase # "prologue",
         NEW t \in NodeRecords, NEW e \in {0, New}, NEW o \in Nat,
         node' = Append(node, t), entry' = Append(entry, e), order' = Append(order, o),
         UNCHANGED <<fn, phase, ast, cfg, locals>>,
         ref' = ref \cup {<<New, locals[v]>> : v \in DOMAIN locals \cap
                              {t.of : x \in {t.type} \cap {"IDENTIFIER"}}},
         t.type = "IDENTIFIER" => t.of \in LocalsDomain \cup {Extern},
         t.type = "LITERAL" => t.of \in {Constant, Global}
  PROVE  /\ DOMAIN node' = DOMAIN node \cup {New} /\ New \notin DOMAIN node
         /\ entry'[New] = e /\ \A k \in DOMAIN node : entry'[k] = entry[k]
         /\ node' \in Seq(NodeRecords) /\ order' \in [DOMAIN node' -> Nat]
         /\ entry' \in Seq(Nat) /\ Len(entry') = Len(node') /\ Len(entry') = Len(entry) + 1
         /\ Builder!Creates(e)
         /\ ref' \subseteq (DOMAIN node') \X (DOMAIN node')
         /\ Graph' /\ LocalsAgree' /\ Declared'
         /\ Finished \subseteq Finished' /\ (e # 0 => New \in Finished')
<1> DEFINE ids == DOMAIN node
           m == Len(node)
<1>1. /\ m \in Nat /\ ids = 1 .. m /\ New = m + 1 /\ New = Len(entry) + 1 /\ Len(entry) = m
      /\ BP!Nodes = ids /\ node \in Seq(NodeRecords) /\ entry \in Seq(Nat)
      /\ order \in [1 .. m -> Nat]
  BY NodeDomain DEF EmitterInvariant, Typed
<1>2. /\ node' \in Seq(NodeRecords) /\ Len(node') = m + 1 /\ DOMAIN node' = 1 .. m + 1
      /\ node'[m + 1] = t /\ \A k \in 1 .. m : node'[k] = node[k]
  BY <1>1
<1>3. /\ entry' \in Seq(Nat) /\ Len(entry') = m + 1
      /\ entry'[m + 1] = e /\ \A k \in 1 .. m : entry'[k] = entry[k]
  BY <1>1
<1>4. order' \in [1 .. m + 1 -> Nat]
  <2> HIDE DEF m
  <2>1. order \in Seq(Nat) /\ Len(order) = m
    BY <1>1, SeqIsFunction
  <2>2. order' \in Seq(Nat) /\ Len(order') = m + 1 /\ m + 1 \in Nat
    BY <1>1, <2>1
  <2> QED
    BY <2>2, SeqIsFunction
<1> HIDE DEF m
<1>5. DOMAIN node' = ids \cup {New} /\ New \notin ids /\ m + 1 = New
  BY <1>1, <1>2
<1>6. Builder!Creates(e) /\ BP!Creates(e)
  BY <1>1 DEF Builder!Creates, BP!Creates
<1>7. Graph'
  <2>1. BP!BuilderInvariant'
    <3>1. e \in {0, Len(entry) + 1} /\ BP!BuilderInvariant
      BY <1>1 DEF EmitterInvariant, Graph
    <3> QED
      BY <1>6, <3>1, BP!CreatesStep
  <2>2. ParentsFinished'
    <3>1. \A p, k \in ids : <<p, k>> \in ast => entry[p] # 0
      BY DEF EmitterInvariant, Graph, ParentsFinished
    <3>2. ast \subseteq ids \X ids
      BY <1>1 DEF EmitterInvariant, Graph, BP!BuilderInvariant, BP!TypeOK
    <3>3. \A p, k : <<p, k>> \in ast => p \in ids /\ k \in ids
      BY <3>2
    <3>4. \A k \in ids : entry'[k] = entry[k]
      BY <1>1, <1>3
    <3> QED
      BY <3>1, <3>3, <3>4 DEF ParentsFinished
  <2> QED
    BY <2>1, <2>2 DEF Graph
<1>8. Finished \subseteq Finished' /\ (e # 0 => New \in Finished')
  BY <1>1, <1>3, <1>5 DEF Finished
<1>9. /\ DOMAIN locals = LocalsDomain
      /\ \A v \in LocalsDomain : /\ locals[v] \in ids
                                 /\ node[locals[v]].type \in {"LOCAL", "METHOD_PARAMETER_IN"}
                                 /\ node[locals[v]].of = v
      /\ Len(node) >= 3
  BY DEF EmitterInvariant, Declared
<1>10. \A k \in ids : node'[k] = node[k]
  BY <1>1, <1>2
<1>11. Declared'
  <2>1. Len(node') >= 3
    BY <1>1, <1>2, <1>9 DEF m
  <2>2. LocalsDomain' = LocalsDomain
    BY FunctionSame
  <2>3. locals' \in [DOMAIN locals' -> DOMAIN node']
    <3>1. locals \in [DOMAIN locals -> ids] /\ ids \subseteq DOMAIN node'
      BY <1>5 DEF EmitterInvariant, Declared
    <3>2. \A D, f, x, y : f \in [D -> x] /\ x \subseteq y => f \in [D -> y]
      OBVIOUS
    <3> QED
      BY <3>1, <3>2
  <2> QED
    BY <1>5, <1>9, <1>10, <2>1, <2>2, <2>3 DEF Declared
<1> DEFINE new == {<<New, locals[v]>> : v \in DOMAIN locals \cap
                              {t.of : x \in {t.type} \cap {"IDENTIFIER"}}}
<1>12. /\ ref' = ref \cup new /\ ref \subseteq ids \X ids
       /\ t.type # "IDENTIFIER" => new = {}
       /\ t.type = "IDENTIFIER" /\ t.of \notin LocalsDomain => new = {}
       /\ t.type = "IDENTIFIER" /\ t.of \in LocalsDomain => new = {<<New, locals[t.of]>>}
  <2>1. ref \subseteq ids \X ids
    BY DEF EmitterInvariant, Edges
  <2>2. t.type # "IDENTIFIER" => {t.of : x \in {t.type} \cap {"IDENTIFIER"}} = {}
    OBVIOUS
  <2>3. t.type = "IDENTIFIER" => {t.of : x \in {t.type} \cap {"IDENTIFIER"}} = {t.of}
    OBVIOUS
  <2>4. \A v : v \in LocalsDomain => LocalsDomain \cap {v} = {v}
    OBVIOUS
  <2>5. \A v : v \notin LocalsDomain => LocalsDomain \cap {v} = {}
    OBVIOUS
  <2> DEFINE values == DOMAIN locals \cap {t.of : x \in {t.type} \cap {"IDENTIFIER"}}
  <2>6. /\ t.type # "IDENTIFIER" => values = {}
        /\ t.type = "IDENTIFIER" /\ t.of \notin LocalsDomain => values = {}
        /\ t.type = "IDENTIFIER" /\ t.of \in LocalsDomain => values = {t.of}
    BY <1>9, <2>2, <2>3, <2>4, <2>5
  <2>7. new = {<<New, locals[v]>> : v \in values}
    OBVIOUS
  <2> HIDE DEF values, new
  <2>8. values = {} => new = {}
    BY <2>7
  <2>9. \A v : values = {v} => new = {<<New, locals[v]>>}
    BY <2>7
  <2>10. ref' = ref \cup new
    BY DEF new
  <2> QED
    BY <2>1, <2>6, <2>8, <2>9, <2>10
<1> HIDE DEF new
<1>13. ref' \subseteq (DOMAIN node') \X (DOMAIN node')
  BY <1>5, <1>9, <1>12
<1>14. LocalsAgree'
  <2>1. /\ \A k \in ids : node[k].type = "IDENTIFIER" =>
             /\ node[k].of # Extern => \E d \in ids : <<k, d>> \in ref
             /\ \A d \in ids : <<k, d>> \in ref =>
                  /\ node[d].type \in {"LOCAL", "METHOD_PARAMETER_IN"}
                  /\ node[d].of = node[k].of
        /\ \A k \in ids : node[k].type = "LITERAL" => node[k].of \in {Constant, Global}
    BY DEF EmitterInvariant, LocalsAgree
  <2>2. \A k, d : <<k, d>> \in ref => k \in ids /\ d \in ids
    BY <1>12
  <2>3. node'[New] = t
    BY <1>2, <1>5
  <2>4. ASSUME NEW k \in DOMAIN node', node'[k].type = "LITERAL"
        PROVE  node'[k].of \in {Constant, Global}
    BY <1>5, <1>10, <2>1, <2>3, <2>4
  <2>5. ASSUME NEW k \in DOMAIN node', node'[k].type = "IDENTIFIER"
        PROVE  /\ node'[k].of # Extern => \E d \in DOMAIN node' : <<k, d>> \in ref'
               /\ \A d \in DOMAIN node' : <<k, d>> \in ref' =>
                    /\ node'[d].type \in {"LOCAL", "METHOD_PARAMETER_IN"}
                    /\ node'[d].of = node'[k].of
    <3>1. CASE k = New
      <4>1. t.type = "IDENTIFIER" /\ node'[k].of = t.of
        BY <2>3, <2>5, <3>1
      <4>2. CASE t.of \in LocalsDomain
        <5>1. new = {<<New, locals[t.of]>>} /\ locals[t.of] \in ids
          BY <1>9, <1>12, <4>1, <4>2
        <5>2. \A d : <<k, d>> \in ref' <=> d = locals[t.of]
          BY <1>5, <1>12, <2>2, <3>1, <5>1
        <5> QED
          BY <1>5, <1>9, <1>10, <4>1, <4>2, <5>1, <5>2
      <4>3. CASE t.of \notin LocalsDomain
        <5>1. t.of = Extern /\ new = {}
          BY <1>12, <4>1, <4>3
        <5>2. \A d : <<k, d>> \notin ref'
          BY <1>5, <1>12, <2>2, <3>1, <5>1
        <5> QED
          BY <4>1, <5>1, <5>2
      <4> QED
        BY <4>2, <4>3
    <3>2. CASE k # New
      <4>1. k \in ids /\ node'[k] = node[k]
        BY <1>5, <1>10, <3>2
      <4>2. \A d : <<k, d>> \in ref' <=> <<k, d>> \in ref
        BY <1>12, <3>2
      <4>3. /\ node[k].of # Extern => \E d \in ids : <<k, d>> \in ref
            /\ \A d \in ids : <<k, d>> \in ref =>
                 /\ node[d].type \in {"LOCAL", "METHOD_PARAMETER_IN"}
                 /\ node[d].of = node[k].of
        BY <2>1, <2>5, <4>1
      <4>4. node'[k].of # Extern => \E d \in DOMAIN node' : <<k, d>> \in ref'
        BY <1>5, <4>1, <4>2, <4>3
      <4>5. ASSUME NEW d, <<k, d>> \in ref'
            PROVE  /\ node'[d].type \in {"LOCAL", "METHOD_PARAMETER_IN"}
                   /\ node'[d].of = node'[k].of
        <5>1. <<k, d>> \in ref /\ d \in ids /\ node'[d] = node[d]
          BY <1>10, <2>2, <4>2, <4>5
        <5> QED
          BY <4>1, <4>3, <5>1
      <4> QED
        BY <4>4, <4>5
    <3> QED
      BY <3>1, <3>2
  <2> QED
    BY <2>4, <2>5 DEF LocalsAgree
<1> QED
  BY <1>1, <1>2, <1>3, <1>4, <1>5, <1>6, <1>7, <1>8, <1>11, <1>13, <1>14

LEMMA CreateStep ==
  ASSUME EmitterInvariant, phase = "expression", NEW task \in Created, NEW e \in {0, New},
         Create(task, e), work' \in Seq(Tasks),
         UNCHANGED <<fn, phase, blk, cur, receiver, members, flow, locals,
                     nodes, topLevelOrder, entryPoints, exitPoints>>
  PROVE  /\ Typed' /\ Graph' /\ Edges' /\ Declared' /\ LocalsAgree' /\ Statements' /\ Loose'
         /\ Builder!Creates(e)
         /\ Len(vals') = Len(vals) + 1
         /\ e = 0 => Open' = Open \cup {Len(vals) + 1}
         /\ e # 0 => Open' = Open /\ Fresh'
<1> DEFINE t == [type |-> task.type, name |-> task.name, of |-> task.of]
           m == Len(vals)
           ids == DOMAIN node
<1>1. /\ node' = Append(node, t) /\ order' = Append(order, 0) /\ entry' = Append(entry, e)
      /\ vals' = Append(vals, New)
      /\ ref' = ref \cup {<<New, locals[v]>> : v \in DOMAIN locals \cap
                              {t.of : x \in {t.type} \cap {"IDENTIFIER"}}}
      /\ UNCHANGED <<ast, cfg>>
  BY DEF Create
<1>2. /\ t \in NodeRecords
      /\ t.type = "IDENTIFIER" => t.of \in LocalsDomain \cup {Extern}
      /\ t.type = "LITERAL" => t.of \in {Constant, Global}
  BY DEF Created, NodeRecords
<1> HIDE DEF t
<1>3. /\ DOMAIN node' = ids \cup {New} /\ New \notin ids
      /\ entry'[New] = e /\ \A k \in ids : entry'[k] = entry[k]
      /\ node' \in Seq(NodeRecords) /\ order' \in [DOMAIN node' -> Nat]
      /\ entry' \in Seq(Nat) /\ Len(entry') = Len(node')
      /\ Builder!Creates(e)
      /\ ref' \subseteq (DOMAIN node') \X (DOMAIN node')
      /\ Graph' /\ LocalsAgree' /\ Declared'
      /\ Finished \subseteq Finished'
  BY <1>1, <1>2, Grown
<1>4. Typed'
  BY <1>3, FunctionSame DEF EmitterInvariant, Typed
<1>5. Edges'
  <2> DEFINE pairs == ids \X ids
             more == (DOMAIN node') \X (DOMAIN node')
  <2>1. pairs \subseteq more
    BY <1>3
  <2>2. receiver \cup members \subseteq pairs /\ flow \in Seq(pairs)
    BY DEF EmitterInvariant, Edges
  <2>3. ref' \subseteq more
    BY <1>3
  <2> HIDE DEF pairs, more
  <2>4. flow \in Seq(more)
    BY <2>1, <2>2, SeqGrows
  <2>5. ref' \cup receiver' \cup members' \subseteq more /\ flow' \in Seq(more)
    BY <2>1, <2>2, <2>3, <2>4
  <2> QED
    BY <2>5 DEF Edges, more
<1>6. Statements'
  <2> DEFINE old == Finished
  <2>1. nodes \in Seq(old) /\ entryPoints \in Seq(old) /\ exitPoints \in Seq(old)
    BY DEF EmitterInvariant, Statements
  <2> HIDE DEF old
  <2>2. old \subseteq Finished'
    BY <1>3 DEF old
  <2> DEFINE now == Finished'
  <2> HIDE DEF now
  <2>3. nodes \in Seq(now) /\ entryPoints \in Seq(now) /\ exitPoints \in Seq(now)
    BY <2>1, <2>2, SeqGrows DEF now
  <2> QED
    BY <2>3 DEF Statements, now
<1>7. /\ vals \in Seq(ids) /\ m \in Nat
      /\ \A i \in 1 .. m : vals[i] \in ids
      /\ \A i, j \in 1 .. m : i # j => vals[i] # vals[j]
      /\ \A i \in 1 .. m : \A p \in ids : <<p, vals[i]>> \notin ast
  BY SeqMember DEF EmitterInvariant, Loose
<1>8. \A p, k : <<p, k>> \in ast => p \in ids /\ k \in ids
  <2>1. ast \subseteq ids \X ids
    BY NodeDomain DEF EmitterInvariant, Graph, BP!BuilderInvariant, BP!TypeOK
  <2> QED
    BY <2>1
<1>9. /\ vals' \in Seq(DOMAIN node') /\ Len(vals') = m + 1 /\ vals'[m + 1] = New
      /\ \A i \in 1 .. m : vals'[i] = vals[i]
  <2> DEFINE now == DOMAIN node'
  <2>1. ids \subseteq now /\ New \in now
    BY <1>3
  <2> HIDE DEF now
  <2>2. vals \in Seq(now)
    BY <1>7, <2>1, SeqGrows
  <2>3. vals' \in Seq(now)
    BY <1>1, <2>1, <2>2
  <2> QED
    BY <1>1, <1>7, <2>3 DEF now
<1> HIDE DEF m, ids
<1>10. \A i \in 1 .. m + 1 : i \in 1 .. m \/ i = m + 1
  BY <1>7
<1>11. Loose'
  <2>1. ASSUME NEW i \in 1 .. m + 1, NEW j \in 1 .. m + 1, i # j
        PROVE  vals'[i] # vals'[j]
    <3>1. \A k \in 1 .. m : vals'[k] \in ids /\ vals'[k] # New
      BY <1>3, <1>7, <1>9
    <3>2. CASE i \in 1 .. m /\ j \in 1 .. m
      BY <1>7, <1>9, <2>1, <3>2
    <3>3. CASE i = m + 1 \/ j = m + 1
      BY <1>9, <1>10, <2>1, <3>1, <3>3
    <3> QED
      BY <1>10, <3>2, <3>3
  <2>2. \A i \in 1 .. m + 1 : \A p \in DOMAIN node' : <<p, vals'[i]>> \notin ast
    BY <1>3, <1>7, <1>8, <1>9, <1>10
  <2> QED
    BY <1>1, <1>9, <2>1, <2>2 DEF Loose
<1>12. Open = {i \in 1 .. m : entry[vals[i]] = 0}
  BY DEF Open, m
<1>13. Open' = {i \in 1 .. m + 1 : entry'[vals'[i]] = 0}
  BY <1>9 DEF Open
<1>14. e = 0 => Open' = Open \cup {m + 1}
  <2> SUFFICES ASSUME e = 0 PROVE Open' = Open \cup {m + 1}
    OBVIOUS
  <2>1. entry'[vals'[m + 1]] = 0 /\ m + 1 \in 1 .. m + 1
    BY <1>3, <1>7, <1>9
  <2>2. \A i \in 1 .. m : entry'[vals'[i]] = entry[vals[i]]
    BY <1>3, <1>7, <1>9
  <2>3. \A i \in 1 .. m : i \in 1 .. m + 1
    BY <1>7
  <2> QED
    BY <1>10, <1>12, <1>13, <2>1, <2>2, <2>3
<1>15. e # 0 => Open' = Open
  <2> SUFFICES ASSUME e # 0 PROVE Open' = Open
    OBVIOUS
  <2>1. entry'[vals'[m + 1]] # 0
    BY <1>3, <1>9
  <2>2. \A i \in 1 .. m : entry'[vals'[i]] = entry[vals[i]]
    BY <1>3, <1>7, <1>9
  <2>3. \A i \in 1 .. m : i \in 1 .. m + 1
    BY <1>7
  <2> QED
    BY <1>10, <1>12, <1>13, <2>1, <2>2, <2>3
<1>16. e # 0 => Fresh'
  <2> SUFFICES ASSUME e # 0 PROVE Fresh'
    OBVIOUS
  <2>1. e = New /\ vals'[Len(vals')] = New /\ Len(vals') > 0
    BY <1>7, <1>9
  <2>2. \A k : <<New, k>> \notin ast'
    BY <1>1, <1>3, <1>8
  <2> QED
    BY <1>3, <2>1, <2>2 DEF Fresh
<1> QED
  BY <1>3, <1>4, <1>5, <1>6, <1>9, <1>11, <1>14, <1>15, <1>16 DEF m

LEMMA NodeStep ==
  ASSUME EmitterInvariant, EmitNode
  PROVE  EmitterInvariant' /\ Builder!Creates(New)
<1>1. /\ Todo("node") /\ Create(Head(work), New) /\ work' = Tail(work)
      /\ UNCHANGED <<fn, phase, blk, cur, receiver, members, flow, locals,
                     nodes, topLevelOrder, entryPoints, exitPoints>>
  BY DEF EmitNode, blockState
<1>2. /\ phase = "expression" /\ Head(work) \in Tasks /\ Head(work).do = "node"
      /\ Tail(work) \in Seq(Tasks) /\ Len(vals) \in Nat
  BY <1>1, FirstTask
<1>3. PICK f \in {0, 1}, c \in Shapes :
        /\ Effect(Head(work), Shape(Len(vals), Open, f), c)
        /\ Runs(Tail(work), c, Shape(1, {}, 0))
  BY <1>1, FirstTask
<1>4. c = Shape(Len(vals) + 1, Open, 0) \/ c = Shape(Len(vals) + 1, Open, 1)
  BY <1>2, <1>3 DEF Effect, Shape
<1>5. Head(work) \in Created
  BY <1>2 DEF Tasks
<1>6. New \in {0, New} /\ New # 0
  BY NodeDomain DEF EmitterInvariant, New
<1>7. /\ Typed' /\ Graph' /\ Edges' /\ Declared' /\ LocalsAgree' /\ Statements' /\ Loose'
      /\ Builder!Creates(New) /\ Len(vals') = Len(vals) + 1 /\ Open' = Open /\ Fresh'
  BY <1>1, <1>2, <1>5, <1>6, CreateStep
<1>8. Control'
  <2>1. PICK g \in {0, 1} : c = Shape(Len(vals'), Open', g)
    BY <1>4, <1>7
  <2>2. Runs(work', c, Shape(1, {}, 0))
    BY <1>1, <1>3
  <2>3. /\ UNCHANGED <<fn, phase, blk, cur, entryPoints, exitPoints>>
        /\ g = 1 => Fresh'
    BY <1>1, <1>7
  <2> QED
    BY <1>2, <2>1, <2>2, <2>3, NextTask
<1> QED
  BY <1>7, <1>8 DEF EmitterInvariant

LEMMA BeginStep ==
  ASSUME EmitterInvariant, BeginCall
  PROVE  EmitterInvariant' /\ Builder!Creates(0)
<1>1. /\ Todo("begin") /\ Create(Head(work), 0) /\ work' = Tail(work)
      /\ UNCHANGED <<fn, phase, blk, cur, receiver, members, flow, locals,
                     nodes, topLevelOrder, entryPoints, exitPoints>>
  BY DEF BeginCall, blockState
<1>2. /\ phase = "expression" /\ Head(work) \in Tasks /\ Head(work).do = "begin"
      /\ Tail(work) \in Seq(Tasks) /\ Len(vals) \in Nat
  BY <1>1, FirstTask
<1>3. PICK f \in {0, 1}, c \in Shapes :
        /\ Effect(Head(work), Shape(Len(vals), Open, f), c)
        /\ Runs(Tail(work), c, Shape(1, {}, 0))
  BY <1>1, FirstTask
<1>4. c = Shape(Len(vals) + 1, Open \cup {Len(vals) + 1}, 0)
  BY <1>2, <1>3 DEF Effect, Shape
<1>5. Head(work) \in Created
  BY <1>2 DEF Tasks
<1>6. /\ Typed' /\ Graph' /\ Edges' /\ Declared' /\ LocalsAgree' /\ Statements' /\ Loose'
      /\ Builder!Creates(0) /\ Len(vals') = Len(vals) + 1 /\ Open' = Open \cup {Len(vals) + 1}
  BY <1>1, <1>2, <1>5, CreateStep
<1>7. Control'
  <2>1. c = Shape(Len(vals'), Open', 0) /\ 0 \in {0, 1} /\ 0 # 1
    BY <1>4, <1>6
  <2>2. Runs(work', c, Shape(1, {}, 0))
    BY <1>1, <1>3
  <2>3. UNCHANGED <<fn, phase, blk, cur, entryPoints, exitPoints>>
    BY <1>1
  <2> QED
    BY <1>2, <2>1, <2>2, <2>3, NextTask
<1> QED
  BY <1>6, <1>7 DEF EmitterInvariant

LEMMA NoopStep ==
  ASSUME EmitterInvariant, EmitNoop
  PROVE  EmitterInvariant' /\ Builder!Creates(New)
<1> DEFINE t == [type |-> "UNKNOWN", name |-> "noop", of |-> 0]
           ids == DOMAIN node
<1>1. /\ phase = "visit" /\ nodes = <<>>
      /\ node' = Append(node, t)
      /\ order' = Append(order, topLevelOrder) /\ entry' = Append(entry, New)
      /\ topLevelOrder' = topLevelOrder + 1 /\ nodes' = <<New>>
      /\ UNCHANGED <<fn, phase, blk, cur, work, vals, ast, cfg, ref, receiver, members, flow,
                     locals, entryPoints, exitPoints>>
  BY DEF EmitNoop
<1>2. t \in NodeRecords /\ t.type = "UNKNOWN"
  BY NodeDomain DEF EmitterInvariant, NodeRecords, Names, Extern
<1> HIDE DEF t
<1>3. ref' = ref \cup {<<New, locals[v]>> : v \in DOMAIN locals \cap
                              {t.of : x \in {t.type} \cap {"IDENTIFIER"}}}
  <2>1. {t.of : x \in {t.type} \cap {"IDENTIFIER"}} = {}
    BY <1>2
  <2>2. DOMAIN locals \cap {t.of : x \in {t.type} \cap {"IDENTIFIER"}} = {}
    BY <2>1
  <2> DEFINE values == DOMAIN locals \cap {t.of : x \in {t.type} \cap {"IDENTIFIER"}}
  <2>3. {<<New, locals[v]>> : v \in values} = {}
    <3> HIDE DEF values
    <3> QED
      BY <2>2 DEF values
  <2> QED
    BY <1>1, <2>3
<1>4. New \in {0, New} /\ New # 0 /\ topLevelOrder \in Nat
  BY NodeDomain DEF EmitterInvariant, New, Typed
<1>5. /\ DOMAIN node' = ids \cup {New}
      /\ node' \in Seq(NodeRecords) /\ order' \in [DOMAIN node' -> Nat]
      /\ entry' \in Seq(Nat) /\ Len(entry') = Len(node')
      /\ Builder!Creates(New)
      /\ Graph' /\ LocalsAgree' /\ Declared'
      /\ Finished \subseteq Finished' /\ New \in Finished'
  BY <1>1, <1>2, <1>3, <1>4, Grown
<1>6. Typed'
  BY <1>1, <1>4, <1>5, FunctionSame DEF EmitterInvariant, Typed
<1>7. Edges'
  <2> DEFINE pairs == ids \X ids
             more == (DOMAIN node') \X (DOMAIN node')
  <2>1. pairs \subseteq more
    BY <1>5
  <2>2. ref \cup receiver \cup members \subseteq pairs /\ flow \in Seq(pairs)
    BY DEF EmitterInvariant, Edges
  <2> HIDE DEF pairs, more
  <2>3. flow \in Seq(more)
    BY <2>1, <2>2, SeqGrows
  <2>4. ref' \cup receiver' \cup members' \subseteq more /\ flow' \in Seq(more)
    BY <1>1, <2>1, <2>2, <2>3
  <2> QED
    BY <2>4 DEF Edges, more
<1>8. Statements'
  <2> DEFINE old == Finished
             now == Finished'
  <2>1. entryPoints \in Seq(old) /\ exitPoints \in Seq(old)
    BY DEF EmitterInvariant, Statements
  <2>2. old \subseteq now /\ New \in now
    BY <1>5
  <2> HIDE DEF old, now
  <2>3. entryPoints \in Seq(now) /\ exitPoints \in Seq(now)
    BY <2>1, <2>2, SeqGrows
  <2>4. nodes' \in Seq(now)
    BY <1>1, <2>2
  <2> QED
    BY <1>1, <2>3, <2>4 DEF Statements, now
<1>9. /\ vals' = <<>> /\ blk \in 1 .. NBlocks
      /\ Len(entryPoints) = blk - 1 /\ Len(exitPoints) = blk - 1
  BY <1>1 DEF EmitterInvariant, Control
<1>10. Loose' /\ Control'
  BY <1>1, <1>9, NoVals, FunctionSame DEF Control
<1> QED
  BY <1>5, <1>6, <1>7, <1>8, <1>10 DEF EmitterInvariant

----------------------------------------------------------------------------
(* resolveConnections of a node on vals with some of the others, which are *)
(* on vals no longer.                                                      *)
JoinsVals(a, b, c) ==
  /\ a \in 1 .. Len(vals) /\ b \in Nat /\ c \in Nat
  /\ 1 <= b /\ b <= c + 1 /\ c <= Len(vals) /\ a \notin b .. c
  /\ entry[vals[a]] \in {0, vals[a]}
  /\ \A k \in DOMAIN node : <<vals[a], k>> \notin ast
  /\ \A i \in b .. c : i \notin Open
  /\ ResolveConnections(vals[a], SubSeq(vals, b, c))
  /\ work' \in Seq(Tasks)
  /\ UNCHANGED <<fn, phase, blk, cur, node, ref, receiver, members, flow, locals,
                 nodes, topLevelOrder, entryPoints, exitPoints>>
  /\ vals' \in Seq(DOMAIN node)
  /\ \A i \in 1 .. Len(vals') :
       \E j \in 1 .. Len(vals) : j \notin b .. c /\ vals'[i] = vals[j]
  /\ \A i, j \in 1 .. Len(vals') : i # j => vals'[i] # vals'[j]

LEMMA JoinVals ==
  ASSUME EmitterInvariant, phase = "expression", NEW a, NEW b, NEW c, JoinsVals(a, b, c)
  PROVE  /\ Typed' /\ Graph' /\ Edges' /\ Declared' /\ LocalsAgree' /\ Statements' /\ Loose'
         /\ Builder!MayJoin(vals[a], SubSeq(vals, b, c))
         /\ Builder!Join(vals[a], SubSeq(vals, b, c))
         /\ entry'[vals[a]] # 0
         /\ \A k \in DOMAIN node : k # vals[a] => entry'[k] = entry[k]
<1> DEFINE p == vals[a]
           kids == SubSeq(vals, b, c)
           ids == DOMAIN node
           n == c - b + 1
<1>0. /\ a \in 1 .. Len(vals) /\ b \in Nat /\ c \in Nat
      /\ 1 <= b /\ b <= c + 1 /\ c <= Len(vals) /\ a \notin b .. c
      /\ entry[vals[a]] \in {0, vals[a]}
      /\ \A k \in DOMAIN node : <<vals[a], k>> \notin ast
      /\ \A i \in b .. c : i \notin Open
      /\ ResolveConnections(vals[a], SubSeq(vals, b, c))
      /\ work' \in Seq(Tasks)
      /\ UNCHANGED <<fn, phase, blk, cur, node, ref, receiver, members, flow, locals,
                     nodes, topLevelOrder, entryPoints, exitPoints>>
      /\ vals' \in Seq(DOMAIN node)
      /\ \A i \in 1 .. Len(vals') :
           \E j \in 1 .. Len(vals) : j \notin b .. c /\ vals'[i] = vals[j]
      /\ \A i, j \in 1 .. Len(vals') : i # j => vals'[i] # vals'[j]
  BY DEF JoinsVals
<1> USE <1>0
<1>1. /\ vals \in Seq(ids) /\ Len(vals) \in Nat
      /\ \A i \in 1 .. Len(vals) : vals[i] \in ids
      /\ \A i, j \in 1 .. Len(vals) : i # j => vals[i] # vals[j]
      /\ \A i \in 1 .. Len(vals) : \A q \in ids : <<q, vals[i]>> \notin ast
  BY SeqMember DEF EmitterInvariant, Loose
<1>2. /\ ids = 1 .. Len(node) /\ Len(node) \in Nat /\ BP!Nodes = ids /\ Builder!Nodes = ids
      /\ DOMAIN entry = ids /\ entry \in Seq(Nat) /\ Len(entry) = Len(node)
  BY NodeDomain DEF EmitterInvariant, Typed
<1>3. /\ kids \in Seq(ids) /\ Len(kids) = n /\ n \in Nat
      /\ \A i \in 1 .. n : kids[i] = vals[b + i - 1] /\ b + i - 1 \in b .. c
                           /\ b + i - 1 \in 1 .. Len(vals)
  <2>1. /\ kids \in Seq(ids) /\ Len(kids) = n
        /\ \A i \in 1 .. n : kids[i] = vals[b + i - 1]
    BY <1>1, Segment
  <2>2. n \in Nat /\ \A i \in 1 .. n : b + i - 1 \in b .. c /\ b + i - 1 \in 1 .. Len(vals)
    BY <1>1
  <2> QED
    BY <2>1, <2>2
<1>4. /\ p \in ids /\ \A q \in ids : <<q, p>> \notin ast
      /\ \A k \in ids : <<p, k>> \notin ast
      /\ entry[p] \in {0, p}
  BY <1>1
<1>5. \A i \in 1 .. n : /\ kids[i] \in ids /\ kids[i] # p /\ entry[kids[i]] # 0
                        /\ \A q \in ids : <<q, kids[i]>> \notin ast
  BY <1>1, <1>3 DEF Open
<1>6. \A i, j \in 1 .. n : i # j => kids[i] # kids[j]
  <2> SUFFICES ASSUME NEW i \in 1 .. n, NEW j \in 1 .. n, i # j PROVE kids[i] # kids[j]
    OBVIOUS
  <2>1. b + i - 1 # b + j - 1
    BY <1>3
  <2> QED
    BY <1>1, <1>3, <2>1
<1>7. Builder!Join(p, kids) /\ BP!Join(p, kids)
  BY DEF ResolveConnections, Builder!Join, Builder!EntryOfParent, Builder!ChildEdges,
         Builder!FlowEdges, BP!Join, BP!EntryOfParent, BP!ChildEdges, BP!FlowEdges
<1>8. order' = [k \in DOMAIN order |->
                  IF k \in Elements(kids) THEN CHOOSE i \in DOMAIN kids : kids[i] = k ELSE order[k]]
  BY DEF ResolveConnections
<1> HIDE DEF kids, n, p
<1>9. Builder!MayJoin(p, kids) /\ BP!MayJoin(p, kids)
  <2>1. DOMAIN kids = 1 .. n
    BY <1>3, SeqMember
  <2> QED
    BY <1>2, <1>4, <1>5, <1>6, <2>1
       DEF Builder!MayJoin, Builder!HasParent, Builder!HasChild, Builder!Roots,
           BP!MayJoin, BP!HasParent, BP!HasChild, BP!Roots
<1>10. BP!BuilderInvariant'
  <2>1. kids \in [1 .. n -> ids]
    BY <1>3, SeqIsFunction
  <2>2. BP!BuilderInvariant
    BY DEF EmitterInvariant, Graph
  <2> QED
    BY <1>2, <1>3, <1>4, <1>7, <1>9, <2>1, <2>2, BP!JoinStep
<1>11. /\ entry'[p] # 0 /\ \A k \in ids : k # p => entry'[k] = entry[k]
       /\ entry' \in Seq(Nat) /\ Len(entry') = Len(node)
       /\ ast' = ast \cup {<<p, kids[i]>> : i \in 1 .. n}
  <2> DEFINE e == Builder!EntryOfParent(p, kids)
  <2>1. entry' = [entry EXCEPT ![p] = e] /\ ast' = ast \cup {<<p, kids[i]>> : i \in 1 .. n}
    BY <1>3, <1>7 DEF Builder!Join, Builder!ChildEdges
  <2>2. e \in Nat /\ e # 0
    <3>1. CASE kids = <<>>
      BY <1>2, <1>4, <3>1 DEF Builder!EntryOfParent
    <3>2. CASE kids # <<>>
      <4>1. 1 \in 1 .. n
        BY <1>3, <3>2, SeqMember
      <4>2. entry[kids[1]] # 0 /\ entry[kids[1]] \in Nat
        BY <1>2, <1>5, <4>1, SeqMember
      <4> QED
        BY <3>2, <4>2 DEF Builder!EntryOfParent
    <3> QED
      BY <3>1, <3>2
  <2> HIDE DEF e
  <2> QED
    BY <1>2, <1>4, <2>1, <2>2
<1>12. Graph'
  <2>1. ParentsFinished'
    <3>1. \A q, k \in ids : <<q, k>> \in ast => entry[q] # 0
      BY DEF EmitterInvariant, Graph, ParentsFinished
    <3>2. \A q, k \in ids : <<q, k>> \in ast' => q = p \/ <<q, k>> \in ast
      BY <1>11
    <3> QED
      BY <1>11, <3>1, <3>2 DEF ParentsFinished
  <2> QED
    BY <1>10, <2>1 DEF Graph
<1>13. Finished \subseteq Finished'
  BY <1>11 DEF Finished
<1>14. Statements'
  <2> DEFINE old == Finished
             now == Finished'
  <2>1. nodes \in Seq(old) /\ entryPoints \in Seq(old) /\ exitPoints \in Seq(old)
    BY DEF EmitterInvariant, Statements
  <2>2. old \subseteq now
    BY <1>13
  <2> HIDE DEF old, now
  <2>3. nodes \in Seq(now) /\ entryPoints \in Seq(now) /\ exitPoints \in Seq(now)
    BY <2>1, <2>2, SeqGrows
  <2> QED
    BY <2>3 DEF Statements, now
<1>15. Typed'
  <2>1. order' \in [ids -> Nat]
    <3>1. order \in [ids -> Nat]
      BY DEF EmitterInvariant, Typed
    <3>2. \A k \in Elements(kids) : (CHOOSE i \in DOMAIN kids : kids[i] = k) \in Nat
      <4>1. DOMAIN kids = 1 .. n
        BY <1>3, SeqMember
      <4> QED
        BY <4>1 DEF Elements
    <3> QED
      BY <1>8, <3>1, <3>2
  <2> QED
    BY <1>11, <2>1, FunctionSame DEF EmitterInvariant, Typed
<1>16. Edges' /\ Declared' /\ LocalsAgree'
  <2>1. Declared'
    BY FunctionSame DEF EmitterInvariant, Declared
  <2>2. LocalsAgree'
    <3>1. node' = node /\ ref' = ref /\ LocalsAgree
      BY DEF EmitterInvariant
    <3> QED
      BY ONLY <3>1 DEF LocalsAgree
  <2> QED
    BY <2>1, <2>2, SameEdges
<1>17. Loose'
  <2>1. ASSUME NEW i \in 1 .. Len(vals'), NEW q \in ids PROVE <<q, vals'[i]>> \notin ast'
    <3>1. PICK j \in 1 .. Len(vals) : j \notin b .. c /\ vals'[i] = vals[j]
      OBVIOUS
    <3>2. ASSUME NEW l \in 1 .. n PROVE kids[l] # vals[j]
      <4>1. kids[l] = vals[b + l - 1] /\ b + l - 1 \in 1 .. Len(vals) /\ b + l - 1 # j
        BY <1>3, <3>1
      <4> QED
        BY <1>1, <4>1
    <3>3. <<q, vals[j]>> \notin ast
      BY <1>1
    <3> QED
      BY <1>11, <3>1, <3>2, <3>3
  <2> QED
    BY <2>1 DEF Loose
<1> QED
  BY <1>7, <1>9, <1>11, <1>12, <1>14, <1>15, <1>16, <1>17 DEF p, kids

LEMMA Segments ==
  ASSUME NEW i \in 1 .. Len(vals) + 1, NEW j \in 0 .. Len(vals)
  PROVE  SubSeq(vals, i, j) \in OnVals
<1> SUFFICES \E x \in 1 .. Len(vals) + 1, y \in 0 .. Len(vals) :
               SubSeq(vals, i, j) = SubSeq(vals, x, y)
  BY DEF OnVals
<1> QED
  BY Zenon

LEMMA ResolveUnderLastStep ==
  ASSUME EmitterInvariant, ResolveUnderLast
  PROVE  /\ EmitterInvariant'
         /\ JoinsVals(Len(vals), Len(vals) - Head(work).n, Len(vals) - 1)
         /\ Head(work).n \in Nat /\ Len(vals') = Len(vals) - Head(work).n
         /\ vals'[Len(vals')] = vals[Len(vals)]
         /\ \A i \in 1 .. Len(vals') - 1 : vals'[i] = vals[i]
         /\ \E p \in Elements(vals), kids \in OnVals :
              Builder!MayJoin(p, kids) /\ Builder!Join(p, kids)
<1> DEFINE m == Len(vals)
           k == Head(work).n
           first == m - k
           ids == DOMAIN node
<1>1. /\ Todo("resolve") /\ work' = Tail(work)
      /\ ResolveConnections(vals[m], SubSeq(vals, first, m - 1))
      /\ vals' = Append(SubSeq(vals, 1, first - 1), vals[m])
      /\ UNCHANGED <<fn, phase, blk, cur, node, ref, receiver, members, flow, locals,
                     nodes, topLevelOrder, entryPoints, exitPoints>>
  BY DEF ResolveUnderLast, blockState
<1>2. /\ phase = "expression" /\ Head(work) \in Tasks /\ Head(work).do = "resolve"
      /\ Tail(work) \in Seq(Tasks) /\ m \in Nat
  BY <1>1, FirstTask
<1>3. PICK f \in {0, 1}, c \in Shapes :
        /\ Effect(Head(work), Shape(m, Open, f), c)
        /\ Runs(Tail(work), c, Shape(1, {}, 0))
        /\ f = 1 => Fresh
  BY <1>1, FirstTask
<1>4. k \in Nat
  BY <1>2 DEF Tasks, Created
<1> HIDE DEF k, m
<1>5. /\ Fresh /\ k < m /\ \A i \in m - k .. m : i \notin Open
      /\ c = Shape(m - k, Open, 0)
  BY <1>2, <1>3 DEF Effect, Shape, k
<1>6. /\ first \in Nat /\ 1 <= first /\ first <= m /\ m - 1 \in Nat
      /\ m \in 1 .. m /\ first <= (m - 1) + 1 /\ m - 1 <= m /\ m \notin first .. m - 1
      /\ first - 1 \in Nat /\ 1 <= (first - 1) + 1 /\ first - 1 <= m /\ (first - 1) - 1 + 1 = first - 1
      /\ \A i \in 1 .. first - 1 : 1 + i - 1 = i
  BY <1>2, <1>4, <1>5
<1>7. /\ vals \in Seq(ids)
      /\ \A i \in 1 .. m : vals[i] \in ids
      /\ \A i, j \in 1 .. m : i # j => vals[i] # vals[j]
  BY SeqMember DEF EmitterInvariant, Loose, m
<1>8. /\ vals' \in Seq(ids) /\ Len(vals') = first
      /\ vals'[first] = vals[m] /\ \A i \in 1 .. first - 1 : vals'[i] = vals[i]
  <2> DEFINE s == SubSeq(vals, 1, first - 1)
  <2>1. /\ s \in Seq(ids) /\ Len(s) = first - 1 /\ \A i \in 1 .. first - 1 : s[i] = vals[i]
    BY <1>6, <1>7, Segment DEF m
  <2>2. vals' = Append(s, vals[m]) /\ vals[m] \in ids
    BY <1>1, <1>6, <1>7
  <2> HIDE DEF s, ids, first
  <2> QED
    BY <1>6, <2>1, <2>2
<1>9. /\ entry[vals[m]] \in {0, vals[m]} /\ \A l \in ids : <<vals[m], l>> \notin ast
      /\ \A i \in first .. m - 1 : i \notin Open
  <2>1. \A i \in first .. m - 1 : i \in m - k .. m
    BY <1>2, <1>4
  <2> QED
    BY <1>5, <2>1 DEF Fresh, m
<1> HIDE DEF first
<1>10. \A i \in 1 .. first : i \in 1 .. first - 1 \/ i = first
  BY <1>6
<1>11. \A i \in 1 .. first - 1 : i \in 1 .. m /\ i \notin first .. m - 1 /\ i # m
  BY <1>6
<1>12. \A i \in 1 .. Len(vals') : \E j \in 1 .. m : j \notin first .. m - 1 /\ vals'[i] = vals[j]
  BY <1>6, <1>8, <1>10, <1>11
<1>13. ASSUME NEW i \in 1 .. Len(vals'), NEW j \in 1 .. Len(vals'), i # j
       PROVE  vals'[i] # vals'[j]
  BY <1>6, <1>7, <1>8, <1>10, <1>11, <1>13
<1>14. /\ Typed' /\ Graph' /\ Edges' /\ Declared' /\ LocalsAgree' /\ Statements' /\ Loose'
       /\ Builder!MayJoin(vals[m], SubSeq(vals, first, m - 1))
       /\ Builder!Join(vals[m], SubSeq(vals, first, m - 1)) /\ JoinsVals(m, first, m - 1)
       /\ entry'[vals[m]] # 0
       /\ \A l \in ids : l # vals[m] => entry'[l] = entry[l]
  <2>1. m = Len(vals) /\ work' \in Seq(Tasks)
    BY <1>1, <1>2 DEF m
  <2>2. JoinsVals(m, first, m - 1)
    BY <1>1, <1>6, <1>8, <1>9, <1>12, <1>13, <2>1 DEF JoinsVals
  <2> QED
    BY <1>2, <2>2, JoinVals
<1>15. Open' = Open
  <2>1. Open = {i \in 1 .. m : entry[vals[i]] = 0}
    BY DEF Open, m
  <2>2. Open' = {i \in 1 .. first : entry'[vals'[i]] = 0}
    BY <1>8 DEF Open
  <2>3. \A i \in 1 .. first - 1 : entry'[vals'[i]] = entry[vals[i]]
    BY <1>6, <1>7, <1>8, <1>11, <1>14
  <2>4. entry'[vals'[first]] # 0
    BY <1>8, <1>14
  <2>5. \A i \in Open : i \in 1 .. first - 1
    <3>1. \A i \in 1 .. m : i \in 1 .. first - 1 \/ i \in m - k .. m
      BY <1>2, <1>4, <1>6 DEF first
    <3> QED
      BY <1>5, <2>1, <3>1
  <2>6. \A i \in 1 .. first - 1 : i \in 1 .. first
    BY <1>6
  <2> QED
    BY <1>10, <1>11, <2>1, <2>2, <2>3, <2>4, <2>5, <2>6
<1>16. Control'
  <2>1. c = Shape(Len(vals'), Open', 0) /\ 0 \in {0, 1} /\ 0 # 1
    BY <1>5, <1>8, <1>15 DEF first
  <2>2. Runs(work', c, Shape(1, {}, 0))
    BY <1>1, <1>3
  <2>3. UNCHANGED <<fn, phase, blk, cur, entryPoints, exitPoints>>
    BY <1>1
  <2> QED
    BY <1>2, <2>1, <2>2, <2>3, NextTask
<1>17. vals[m] \in Elements(vals) /\ SubSeq(vals, first, m - 1) \in OnVals
  <2>1. vals[m] \in Elements(vals)
    BY <1>6, <1>7, SeqMember DEF Elements, m
  <2>2. first \in 1 .. m + 1 /\ m - 1 \in 0 .. m
    BY <1>6
  <2>3. SubSeq(vals, first, m - 1) \in OnVals
    <3>1. first \in 1 .. Len(vals) + 1 /\ m - 1 \in 0 .. Len(vals)
      BY <2>2 DEF m
    <3> QED
      BY <3>1, Segments
  <2> QED
    BY <2>1, <2>3
<1> QED
  <2>1. JoinsVals(Len(vals), Len(vals) - Head(work).n, Len(vals) - 1)
    BY <1>14 DEF first, k, m
  <2>2. Head(work).n \in Nat /\ Len(vals') = Len(vals) - Head(work).n
    BY <1>4, <1>8 DEF first, k, m
  <2>3. /\ vals'[Len(vals')] = vals[Len(vals)]
        /\ \A i \in 1 .. Len(vals') - 1 : vals'[i] = vals[i]
    BY <1>8 DEF m
  <2>4. EmitterInvariant'
    BY <1>14, <1>16 DEF EmitterInvariant
  <2>5. \E p \in Elements(vals), kids \in OnVals :
          Builder!MayJoin(p, kids) /\ Builder!Join(p, kids)
    BY <1>14, <1>17
  <2> QED
    BY <2>1, <2>2, <2>3, <2>4, <2>5

LEMMA ResolveUnderFirstStep ==
  ASSUME EmitterInvariant, ResolveUnderFirst
  PROVE  /\ EmitterInvariant'
         /\ JoinsVals(Len(vals) - Head(work).n, Len(vals) - Head(work).n + 1, Len(vals))
         /\ Head(work).n \in Nat /\ Len(vals') = Len(vals) - Head(work).n
         /\ \A i \in 1 .. Len(vals') : vals'[i] = vals[i]
         /\ \E p \in Elements(vals), kids \in OnVals :
              Builder!MayJoin(p, kids) /\ Builder!Join(p, kids)
<1> DEFINE m == Len(vals)
           k == Head(work).n
           parent == m - k
           ids == DOMAIN node
<1>1. /\ Todo("close") /\ work' = Tail(work)
      /\ ResolveConnections(vals[parent], SubSeq(vals, parent + 1, m))
      /\ vals' = SubSeq(vals, 1, parent)
      /\ UNCHANGED <<fn, phase, blk, cur, node, ref, receiver, members, flow, locals,
                     nodes, topLevelOrder, entryPoints, exitPoints>>
  BY DEF ResolveUnderFirst, blockState
<1>2. /\ phase = "expression" /\ Head(work) \in Tasks /\ Head(work).do = "close"
      /\ Tail(work) \in Seq(Tasks) /\ m \in Nat /\ Open \in SUBSET (1 .. m)
  BY <1>1, FirstTask
<1>3. PICK f \in {0, 1}, c \in Shapes :
        /\ Effect(Head(work), Shape(m, Open, f), c)
        /\ Runs(Tail(work), c, Shape(1, {}, 0))
        /\ f = 1 => Fresh
  BY <1>1, FirstTask
<1>4. k \in Nat
  BY <1>2 DEF Tasks, Created
<1> HIDE DEF k, m
<1>5. /\ parent \in Open /\ k < m /\ \A i \in parent + 1 .. m : i \notin Open
      /\ c = Shape(parent, Open \ {parent}, 0)
  BY <1>2, <1>3 DEF Effect, Shape, k
<1>6. /\ parent \in Nat /\ parent \in 1 .. m /\ parent + 1 \in Nat
      /\ 1 <= parent + 1 /\ parent + 1 <= m + 1 /\ m <= m /\ parent \notin parent + 1 .. m
      /\ parent <= m /\ parent - 1 + 1 = parent
      /\ \A i \in 1 .. parent : 1 + i - 1 = i
  BY <1>2, <1>4, <1>5
<1>7. /\ vals \in Seq(ids)
      /\ \A i \in 1 .. m : vals[i] \in ids
      /\ \A i, j \in 1 .. m : i # j => vals[i] # vals[j]
  BY SeqMember DEF EmitterInvariant, Loose, m
<1> HIDE DEF parent
<1>8. /\ vals' \in Seq(ids) /\ Len(vals') = parent
      /\ \A i \in 1 .. parent : vals'[i] = vals[i]
  BY <1>1, <1>6, <1>7, Segment DEF m
<1>9. /\ entry[vals[parent]] = 0
      /\ \A l \in ids : <<vals[parent], l>> \notin ast
  <2>1. entry[vals[parent]] = 0
    BY <1>5 DEF Open
  <2> QED
    BY <1>6, <1>7, <2>1 DEF EmitterInvariant, Graph, ParentsFinished
<1>10. \A i \in 1 .. parent : i \in 1 .. m /\ i \notin parent + 1 .. m
  BY <1>2, <1>6
<1>11. \A i \in 1 .. Len(vals') : \E j \in 1 .. m : j \notin parent + 1 .. m /\ vals'[i] = vals[j]
  BY <1>8, <1>10
<1>12. ASSUME NEW i \in 1 .. Len(vals'), NEW j \in 1 .. Len(vals'), i # j
       PROVE  vals'[i] # vals'[j]
  BY <1>7, <1>8, <1>10, <1>12
<1>13. /\ Typed' /\ Graph' /\ Edges' /\ Declared' /\ LocalsAgree' /\ Statements' /\ Loose'
       /\ Builder!MayJoin(vals[parent], SubSeq(vals, parent + 1, m))
       /\ Builder!Join(vals[parent], SubSeq(vals, parent + 1, m)) /\ JoinsVals(parent, parent + 1, m)
       /\ entry'[vals[parent]] # 0
       /\ \A l \in ids : l # vals[parent] => entry'[l] = entry[l]
  <2>1. m = Len(vals) /\ work' \in Seq(Tasks)
    BY <1>1, <1>2 DEF m
  <2>2. JoinsVals(parent, parent + 1, m)
    BY <1>1, <1>2, <1>5, <1>6, <1>8, <1>9, <1>11, <1>12, <2>1 DEF JoinsVals
  <2> QED
    BY <1>2, <2>2, JoinVals
<1>14. Open' = Open \ {parent}
  <2>1. Open = {i \in 1 .. m : entry[vals[i]] = 0}
    BY DEF Open, m
  <2>2. Open' = {i \in 1 .. parent : entry'[vals'[i]] = 0}
    BY <1>8 DEF Open
  <2>3. \A i \in 1 .. parent : i # parent => entry'[vals'[i]] = entry[vals[i]]
    BY <1>6, <1>7, <1>8, <1>10, <1>13
  <2>4. entry'[vals'[parent]] # 0
    BY <1>6, <1>8, <1>13
  <2>5. \A i \in Open : i \in 1 .. parent
    <3>1. \A i \in 1 .. m : i \in 1 .. parent \/ i \in parent + 1 .. m
      BY <1>2, <1>6
    <3> QED
      BY <1>5, <2>1, <3>1
  <2> QED
    BY <1>10, <2>1, <2>2, <2>3, <2>4, <2>5
<1>15. Control'
  <2>1. c = Shape(Len(vals'), Open', 0) /\ 0 \in {0, 1} /\ 0 # 1
    BY <1>5, <1>8, <1>14
  <2>2. Runs(work', c, Shape(1, {}, 0))
    BY <1>1, <1>3
  <2>3. UNCHANGED <<fn, phase, blk, cur, entryPoints, exitPoints>>
    BY <1>1
  <2> QED
    BY <1>2, <2>1, <2>2, <2>3, NextTask
<1>16. vals[parent] \in Elements(vals) /\ SubSeq(vals, parent + 1, m) \in OnVals
  <2>1. vals[parent] \in Elements(vals)
    BY <1>6, <1>7, SeqMember DEF Elements, m
  <2>2. parent + 1 \in 1 .. Len(vals) + 1 /\ m \in 0 .. Len(vals)
    BY <1>2, <1>6 DEF m
  <2> QED
    BY <2>1, <2>2, Segments
<1> QED
  <2>1. JoinsVals(Len(vals) - Head(work).n, Len(vals) - Head(work).n + 1, Len(vals))
    BY <1>13 DEF parent, k, m
  <2>2. Head(work).n \in Nat /\ Len(vals') = Len(vals) - Head(work).n
    BY <1>4, <1>8 DEF parent, k, m
  <2>3. \A i \in 1 .. Len(vals') : vals'[i] = vals[i]
    BY <1>8
  <2>4. EmitterInvariant'
    BY <1>13, <1>15 DEF EmitterInvariant
  <2>5. \E p \in Elements(vals), kids \in OnVals :
          Builder!MayJoin(p, kids) /\ Builder!Join(p, kids)
    BY <1>13, <1>16
  <2> QED
    BY <2>1, <2>2, <2>3, <2>4, <2>5

----------------------------------------------------------------------------
(* The locals are numbered one after the other.                            *)
LEMMA Positions ==
  ASSUME NEW S, IsFiniteSet(S), S \subseteq Nat
  PROVE  /\ Cardinality(S) \in Nat
         /\ \A i \in S : Position(i, S) \in Nat /\ Position(i, S) < Cardinality(S)
         /\ \A i, j \in S : i < j => Position(i, S) < Position(j, S)
<1>1. Cardinality(S) \in Nat
  BY FS_CardinalityType
<1>2. ASSUME NEW T, NEW U \in SUBSET S, NEW x \in U, T = {j \in U : j < x} \/ T \subseteq U \ {x}
      PROVE  Cardinality(T) \in Nat /\ Cardinality(T) < Cardinality(U)
  <2>1. IsFiniteSet(U)
    BY FS_Subset
  <2>2. T \in SUBSET (U \ {x})
    BY <1>2
  <2>3. IsFiniteSet(U \ {x}) /\ Cardinality(U \ {x}) = Cardinality(U) - 1
    BY <2>1, FS_RemoveElement
  <2>4. IsFiniteSet(T) /\ Cardinality(T) <= Cardinality(U \ {x})
    BY <2>2, <2>3, FS_Subset
  <2>5. Cardinality(T) \in Nat /\ Cardinality(U) \in Nat
    BY <2>1, <2>4, FS_CardinalityType
  <2> QED
    BY <2>3, <2>4, <2>5
<1>3. ASSUME NEW i \in S PROVE Position(i, S) \in Nat /\ Position(i, S) < Cardinality(S)
  BY <1>2 DEF Position
<1>4. ASSUME NEW i \in S, NEW j \in S, i < j PROVE Position(i, S) < Position(j, S)
  <2> DEFINE T == {k \in S : k < i}
             U == {k \in S : k < j}
  <2>1. U \in SUBSET S /\ i \in U
    BY <1>4
  <2>2. T \subseteq U \ {i}
    <3>1. i \in Nat /\ j \in Nat /\ \A k \in S : k \in Nat
      OBVIOUS
    <3>2. \A k \in S : k < i => k < j /\ k # i
      BY <1>4, <3>1
    <3> QED
      BY <3>2
  <2> HIDE DEF T, U
  <2>3. Cardinality(T) < Cardinality(U)
    BY <1>2, <2>1, <2>2
  <2> QED
    BY <2>3 DEF Position, T, U
<1> QED
  BY <1>1, <1>3, <1>4

LEMMA PrologueStep ==
  ASSUME EmitterInvariant, EmitPrologue
  PROVE  EmitterInvariant' /\ Len(entry') > Len(entry)
         /\ Builder!Declares(Len(entry') - Len(entry))
         /\ \A k : <<BLOCK, k>> \in members' => node'[k].type = "LOCAL"
<1> DEFINE L == LocalVariables
           c == Cardinality(L)
           q == fn.params
           local(i) == 3 + q + 1 + Position(i, L)
           size == 3 + q + c
           variable == [k \in {local(i) : i \in L} |-> CHOOSE i \in L : local(i) = k]
           type(k) == CASE k = METHOD -> "METHOD"
                        [] k = METHOD_RETURN -> "METHOD_RETURN"
                        [] k = BLOCK -> "BLOCK"
                        [] k \in DOMAIN variable -> "LOCAL"
                        [] OTHER -> "METHOD_PARAMETER_IN"
           of(k) == CASE k \in DOMAIN variable -> variable[k]
                      [] k > 3 /\ k <= 3 + q -> Parameter
                      [] OTHER -> 0
<1>1. /\ phase = "prologue"
      /\ node' = [k \in 1 .. size |-> [type |-> type(k), name |-> "declaration", of |-> of(k)]]
      /\ order' = [k \in 1 .. size |->
                     CASE k \in DOMAIN variable -> Position(variable[k], L)
                       [] k > 3 /\ k <= 3 + q -> k - 3
                       [] OTHER -> 0]
      /\ entry' = [k \in 1 .. size |-> 0]
      /\ members' = ({METHOD} \X {k \in 1 .. 3 + q : k # METHOD})
                      \cup ({BLOCK} \X DOMAIN variable)
      /\ locals' = [v \in LocalsDomain |-> IF v = Parameter THEN 3 + 1 ELSE local(v)]
      /\ phase' = IF fn.n = 0 THEN "done" ELSE "visit"
      /\ UNCHANGED <<fn, blk, cur, work, vals, ast, cfg, ref, receiver, flow,
                     nodes, topLevelOrder, entryPoints, exitPoints>>
  BY DEF EmitPrologue, blockState, LocalsDomain
<1>2. /\ WellFormed(fn) /\ fn.n \in Nat /\ q \in Nat /\ NBlocks \in Nat /\ fn.n \in Nat
      /\ (fn.n = 0 <=> NBlocks = 0)
  <2>1. WellFormed(fn) /\ fn.n \in Nat /\ NBlocks \in Nat
    BY NodeDomain DEF EmitterInvariant
  <2>2. q \in Nat /\ (fn.n = 0 <=> fn.succ = <<>>) /\ fn.succ \in Seq(Seq(1 .. Len(fn.succ)))
    BY <2>1 DEF WellFormed
  <2> QED
    BY <2>1, <2>2, SeqMember DEF NBlocks
<1>3. /\ L \subseteq 1 .. fn.n /\ L \subseteq Nat /\ IsFiniteSet(L)
  <2>1. L \subseteq 1 .. fn.n /\ L \subseteq Nat
    BY <1>2 DEF LocalVariables
  <2>2. IsFiniteSet(1 .. fn.n)
    BY <1>2, FS_Interval
  <2> QED
    BY <2>1, <2>2, FS_Subset
<1> HIDE DEF L
<1>4. /\ c \in Nat
      /\ \A i \in L : Position(i, L) \in Nat /\ Position(i, L) < c
      /\ \A i, j \in L : i < j => Position(i, L) < Position(j, L)
  BY <1>3, Positions
<1> HIDE DEF c
<1>5. /\ size \in Nat /\ size >= 3
      /\ \A i \in L : /\ local(i) \in 1 .. size /\ local(i) > 3 + q /\ local(i) > 3
                      /\ Position(i, L) \in Nat
      /\ \A i, j \in L : local(i) = local(j) => i = j
  <2>1. \A i, j \in L : i < j \/ i = j \/ j < i
    BY <1>3
  <2> HIDE DEF q
  <2>2. ASSUME NEW i \in L PROVE local(i) \in 1 .. size /\ local(i) > 3 + q /\ local(i) > 3
    BY <1>2, <1>4
  <2>3. ASSUME NEW i \in L, NEW j \in L, local(i) = local(j) PROVE i = j
    BY <1>2, <1>4, <2>1, <2>3
  <2> QED
    BY <1>2, <1>4, <2>2, <2>3
<1> HIDE DEF local, size
<1>6. /\ DOMAIN variable = {local(i) : i \in L}
      /\ \A k \in DOMAIN variable : variable[k] \in L /\ k \in 1 .. size /\ k > 3 + q /\ k > 3
      /\ \A i \in L : local(i) \in DOMAIN variable /\ variable[local(i)] = i
  BY <1>5
<1> HIDE DEF variable
<1>7. METHOD = 1 /\ METHOD_RETURN = 2 /\ BLOCK = 3
  BY DEF METHOD, METHOD_RETURN, BLOCK
<1>8. \A k \in 1 .. size :
        /\ type(k) \in {"METHOD", "METHOD_RETURN", "BLOCK", "LOCAL", "METHOD_PARAMETER_IN"}
        /\ of(k) \in Extern .. fn.n
  <2>1. \A k \in 1 .. size : of(k) \in Extern .. fn.n
    <3>1. \A k \in DOMAIN variable : variable[k] \in Extern .. fn.n
      BY <1>2, <1>3, <1>6 DEF Extern
    <3>2. Parameter \in Extern .. fn.n /\ 0 \in Extern .. fn.n
      BY <1>2 DEF Parameter, Extern
    <3> QED
      BY <3>1, <3>2
  <2> QED
    BY <2>1
<1>9. /\ \A i \in L : type(local(i)) = "LOCAL" /\ of(local(i)) = i
      /\ q > 0 => 4 \in 1 .. size /\ type(4) = "METHOD_PARAMETER_IN" /\ of(4) = Parameter
  <2>1. \A i \in L : local(i) # 1 /\ local(i) # 2 /\ local(i) # 3
    BY <1>5
  <2>2. ASSUME q > 0
        PROVE  4 \in 1 .. size /\ 4 \notin DOMAIN variable /\ 4 # 1 /\ 4 # 2 /\ 4 # 3
               /\ 4 > 3 /\ 4 <= 3 + q
    BY <1>2, <1>4, <1>6, <2>2 DEF size
  <2>3. ASSUME NEW i \in L PROVE type(local(i)) = "LOCAL" /\ of(local(i)) = i
    <3>1. \A k : k # METHOD /\ k # METHOD_RETURN /\ k # BLOCK /\ k \in DOMAIN variable
                  => type(k) = "LOCAL" /\ of(k) = variable[k]
      <4>1. \A k : k # METHOD /\ k # METHOD_RETURN /\ k # BLOCK /\ k \in DOMAIN variable
                    => type(k) = "LOCAL"
        OBVIOUS
      <4>2. \A k : k \in DOMAIN variable /\ k > 3 /\ ~ (k <= 3 + q) => of(k) = variable[k]
        OBVIOUS
      <4>3. \A k \in DOMAIN variable : k > 3 /\ ~ (k <= 3 + q)
        BY <1>2, <1>5, <1>6
      <4> HIDE DEF type, of
      <4> QED
        BY <4>1, <4>2, <4>3
    <3> HIDE DEF type, of
    <3>2. local(i) # METHOD /\ local(i) # METHOD_RETURN /\ local(i) # BLOCK
      BY <1>7, <2>1
    <3> QED
      BY <1>6, <3>1, <3>2
  <2>4. ASSUME q > 0
        PROVE  4 \in 1 .. size /\ type(4) = "METHOD_PARAMETER_IN" /\ of(4) = Parameter
    BY <1>7, <2>2, <2>4
  <2> HIDE DEF type, of
  <2> QED
    BY <2>3, <2>4
<1> HIDE DEF type, of
<1>10. /\ node' \in Seq(NodeRecords) /\ Len(node') = size /\ DOMAIN node' = 1 .. size
       /\ \A k \in 1 .. size : node'[k].type = type(k) /\ node'[k].of = of(k)
  <2>1. node' \in [1 .. size -> NodeRecords]
    BY <1>1, <1>8 DEF NodeRecords, Names
  <2>2. node' \in Seq(NodeRecords) /\ Len(node') = size
    BY <1>5, <2>1, SeqIsFunction
  <2> QED
    BY <1>1, <1>5, <2>2
<1>11. entry' \in Seq(Nat) /\ Len(entry') = size /\ order' \in [1 .. size -> Nat]
  <2>1. entry' \in [1 .. size -> Nat]
    BY <1>1
  <2>2. order' \in [1 .. size -> Nat]
    <3>1. \A k \in DOMAIN variable : Position(variable[k], L) \in Nat
      BY <1>5, <1>6
    <3>2. \A k \in 1 .. size : k > 3 /\ k <= 3 + q => k - 3 \in Nat
      BY <1>5
    <3> HIDE DEF q
    <3> QED
      BY <1>1, <3>1, <3>2
  <2> QED
    BY <1>5, <2>1, <2>2, SeqIsFunction
<1>12. node = <<>> /\ entry = <<>> /\ vals = <<>> /\ blk = 1
       /\ nodes = <<>> /\ entryPoints = <<>> /\ exitPoints = <<>>
  <2>1. phase # "visit" /\ phase # "expression" /\ phase \notin {"method", "terminators"}
        /\ phase # "done"
    BY <1>1
  <2>2. node = <<>> /\ vals = <<>> /\ blk = 1
        /\ nodes = <<>> /\ entryPoints = <<>> /\ exitPoints = <<>>
    BY <2>1 DEF EmitterInvariant, Control
  <2>3. entry \in Seq(Nat) /\ Len(entry) = 0
    BY <2>2 DEF EmitterInvariant, Typed
  <2> QED
    BY <2>2, <2>3
<1>13. Typed'
  BY <1>1, <1>10, <1>11, FunctionSame DEF EmitterInvariant, Typed
<1>14. Builder!Declares(size) /\ BP!Declares(size) /\ Len(entry) = 0 /\ size - Len(entry) = size
  <2>1. <<>> \o entry' = entry'
    BY <1>11
  <2>2. entry' = entry \o [i \in 1 .. size |-> 0]
    BY <1>1, <1>12, <2>1
  <2>3. Len(entry) = 0 /\ size - Len(entry) = size
    BY <1>5, <1>12
  <2> QED
    BY <1>1, <2>2, <2>3 DEF Builder!Declares, BP!Declares
<1>15. \A x, y : <<x, y>> \notin ast
  <2>1. ast \subseteq (DOMAIN node) \X (DOMAIN node)
    BY NodeDomain DEF EmitterInvariant, Graph, BP!BuilderInvariant, BP!TypeOK
  <2> QED
    BY <1>12, <2>1
<1>16. Graph'
  <2>1. BP!BuilderInvariant'
    BY <1>5, <1>14, BP!DeclaresStep DEF EmitterInvariant, Graph
  <2>2. ParentsFinished'
    BY <1>1, <1>15 DEF ParentsFinished
  <2> QED
    BY <2>1, <2>2 DEF Graph
<1>17. Edges'
  <2> DEFINE ids == DOMAIN node'
             pairs == ids \X ids
  <2>1. ref \cup receiver \subseteq pairs /\ flow \in Seq(pairs)
    <3>1. ref \cup receiver \subseteq (DOMAIN node) \X (DOMAIN node)
          /\ flow \in Seq((DOMAIN node) \X (DOMAIN node))
          /\ (DOMAIN node) \X (DOMAIN node) \subseteq pairs
      BY <1>12 DEF EmitterInvariant, Edges
    <3> HIDE DEF pairs
    <3> QED
      BY <3>1, SeqGrows
  <2>2. members' \subseteq pairs
    <3>1. 1 .. 3 + q \subseteq 1 .. size /\ 1 \in 1 .. size /\ 3 \in 1 .. size
      BY <1>2, <1>4, <1>5 DEF size
    <3>2. DOMAIN variable \subseteq 1 .. size
      BY <1>6
    <3> QED
      BY <1>1, <1>7, <1>10, <3>1, <3>2
  <2> HIDE DEF pairs, ids
  <2> QED
    BY <1>1, <2>1, <2>2 DEF Edges, pairs, ids
<1>18. Declared'
  <2>1. ASSUME NEW v \in LocalsDomain
        PROVE  /\ locals'[v] \in 1 .. size
               /\ type(locals'[v]) \in {"LOCAL", "METHOD_PARAMETER_IN"} /\ of(locals'[v]) = v
    <3>1. CASE v = Parameter
      <4>1. v \notin L
        BY <1>3, <3>1 DEF Parameter
      <4>2. q > 0
        BY <1>2, <4>1 DEF LocalsDomain, L
      <4> QED
        BY <1>1, <1>9, <3>1, <4>2
    <3>2. CASE v # Parameter
      <4>1. v \in L
        BY <3>2 DEF LocalsDomain, L
      <4> QED
        BY <1>1, <1>5, <1>9, <3>2, <4>1
    <3> QED
      BY <3>1, <3>2
  <2>2. DOMAIN locals' = LocalsDomain /\ LocalsDomain' = LocalsDomain
    BY <1>1, FunctionSame
  <2> QED
    BY <1>1, <1>5, <1>10, <2>1, <2>2 DEF Declared
<1>19. LocalsAgree'
  BY <1>8, <1>10 DEF LocalsAgree
<1>20. Statements' /\ Loose'
  BY <1>1, <1>12, NoVals DEF Statements
<1>21. Control'
  <2>1. NBlocks' = NBlocks
    BY <1>1, FunctionSame
  <2>2. Len(entryPoints') = 0 /\ Len(exitPoints') = 0 /\ vals' = <<>> /\ blk' = 1
    BY <1>1, <1>12
  <2> QED
    BY <1>1, <1>2, <2>1, <2>2 DEF Control
<1>22. Len(entry') > Len(entry) /\ Len(entry') - Len(entry) = size
  BY <1>5, <1>11, <1>14
<1>23. ASSUME NEW k, <<BLOCK, k>> \in members' PROVE node'[k].type = "LOCAL"
  <2>1. k \in DOMAIN variable
    BY <1>1, <1>7, <1>23
  <2>2. PICK i \in L : k = local(i)
    BY <1>6, <2>1
  <2> QED
    BY <1>5, <1>9, <1>10, <2>2
<1> QED
  BY <1>13, <1>14, <1>16, <1>17, <1>18, <1>19, <1>20, <1>21, <1>22, <1>23
     DEF EmitterInvariant

----------------------------------------------------------------------------
LEMMA StepInvariant ==
  ASSUME EmitterInvariant, [Next]_vars
  PROVE  EmitterInvariant' /\ [BuilderStep]_graph
<1>1. CASE EmitPrologue
  BY <1>1, PrologueStep DEF BuilderStep
<1>2. CASE VisitInstruction
  <2>1. UNCHANGED graph
    BY <1>2 DEF VisitInstruction, graph
  <2> QED
    BY <1>2, <2>1, VisitStep
<1>3. CASE EmitNode
  BY <1>3, NodeStep DEF BuilderStep
<1>4. CASE BeginCall
  BY <1>4, BeginStep DEF BuilderStep
<1>5. CASE EmitValue
  <2>1. UNCHANGED graph
    BY <1>5 DEF EmitValue
  <2> QED
    BY <1>5, <2>1, ValueStep
<1>6. CASE SwapOperands
  <2>1. UNCHANGED graph
    BY <1>6 DEF SwapOperands
  <2> QED
    BY <1>6, <2>1, SwapStep
<1>7. CASE ConnectReceiver
  <2>1. UNCHANGED graph
    BY <1>7 DEF ConnectReceiver
  <2> QED
    BY <1>7, <2>1, ReceiverStep
<1>8. CASE ResolveUnderLast
  BY <1>8, ResolveUnderLastStep DEF BuilderStep
<1>9. CASE ResolveUnderFirst
  BY <1>9, ResolveUnderFirstStep DEF BuilderStep
<1>10. CASE EndStatement
  <2>1. UNCHANGED graph
    BY <1>10 DEF EndStatement
  <2> QED
    BY <1>10, <2>1, EndStatementStep
<1>11. CASE EmitNoop
  BY <1>11, NoopStep DEF BuilderStep
<1>12. CASE EndBlock
  <2>1. UNCHANGED graph
    BY <1>12 DEF EndBlock
  <2> QED
    BY <1>12, <2>1, EndBlockStep
<1>13. CASE ConnectMethod
  <2>1. UNCHANGED graph
    BY <1>13 DEF ConnectMethod
  <2> QED
    BY <1>13, <2>1, ConnectMethodStep
<1>14. CASE ConnectTerminator
  <2>1. UNCHANGED graph
    BY <1>14 DEF ConnectTerminator
  <2> QED
    BY <1>14, <2>1, ConnectTerminatorStep
<1>15. CASE UNCHANGED vars
  <2>1. UNCHANGED graph
    BY <1>15 DEF vars, graph
  <2> QED
    BY <1>15, <2>1, StutterStep
<1> QED
  BY <1>1, <1>2, <1>3, <1>4, <1>5, <1>6, <1>7, <1>8, <1>9, <1>10, <1>11, <1>12, <1>13,
     <1>14, <1>15 DEF Next

(* Whatever the recursion of emitExpression, emitGEP, emitExtractValue,    *)
(* emitCall and emitInlined amounts to, every resolveConnections finds the *)
(* operands it was called for, complete and part of nothing else, and the  *)
(* visitor returns one finished node for every statement.                  *)
THEOREM EmitterInvariantHolds == Spec => []EmitterInvariant
<1>1. Init => EmitterInvariant
  BY InitInvariant
<1>2. EmitterInvariant /\ [Next]_vars => EmitterInvariant'
  BY StepInvariant
<1> QED
  BY <1>1, <1>2, PTL DEF Spec

LEMMA InvariantTypes == EmitterInvariant => TypeOK
<1> SUFFICES ASSUME EmitterInvariant PROVE TypeOK
  OBVIOUS
<1> DEFINE ids == DOMAIN node
<1>1. /\ node \in Seq(NodeRecords) /\ order \in [ids -> Nat] /\ topLevelOrder \in Nat
      /\ entry \in Seq(Nat) /\ work \in Seq(Tasks)
      /\ blk \in 1 .. NBlocks + 1 /\ cur \in 1 .. fn.n + 1
  BY DEF EmitterInvariant, Typed
<1>2. phase \in {"prologue", "visit", "expression", "method", "terminators", "done"}
  BY DEF EmitterInvariant, Control
<1>3. \A i \in DOMAIN work :
        work[i].do \in {"node", "begin", "value", "resolve", "close", "swap", "receiver"}
  <2>1. \A t \in Tasks :
          t.do \in {"node", "begin", "value", "resolve", "close", "swap", "receiver"}
    BY DEF Tasks, Created
  <2>2. \A i \in DOMAIN work : work[i] \in Tasks
    BY <1>1, SeqMember
  <2> QED
    BY <2>1, <2>2
<1>4. vals \in Seq(ids)
  BY DEF EmitterInvariant, Loose
<1>5. entry \in [ids -> {0} \cup ids]
  <2>1. ids = 1 .. Len(node) /\ Len(node) \in Nat /\ Len(entry) = Len(node)
    BY NodeDomain DEF EmitterInvariant, Typed
  <2>2. entry \in [ids -> Nat]
    BY <1>1, <2>1, SeqIsFunction
  <2>3. \A k \in ids : entry[k] \in {0} \cup ids
    BY EntryIds
  <2> QED
    BY <2>2, <2>3
<1>6. ast \cup cfg \cup ref \cup receiver \cup members \cup Elements(flow) \subseteq ids \X ids
  <2>1. ast \cup cfg \subseteq ids \X ids
    BY NodeDomain DEF EmitterInvariant, Graph, BP!BuilderInvariant, BP!TypeOK
  <2> DEFINE pairs == ids \X ids
  <2>2. ref \cup receiver \cup members \subseteq pairs /\ flow \in Seq(pairs)
    BY DEF EmitterInvariant, Edges
  <2> HIDE DEF pairs
  <2>3. Elements(flow) \subseteq pairs
    BY <2>2, SeqMember DEF Elements
  <2> QED
    BY <2>1, <2>2, <2>3 DEF pairs
<1>7. locals \in [DOMAIN locals -> ids]
  BY DEF EmitterInvariant, Declared
<1>8. nodes \in Seq(ids) /\ entryPoints \in Seq(ids) /\ exitPoints \in Seq(ids)
  <2> DEFINE old == Finished
  <2>1. nodes \in Seq(old) /\ entryPoints \in Seq(old) /\ exitPoints \in Seq(old)
    BY DEF EmitterInvariant, Statements
  <2>2. old \subseteq ids
    BY DEF Finished
  <2> HIDE DEF old, ids
  <2> QED
    BY <2>1, <2>2, SeqGrows
<1> QED
  BY <1>1, <1>2, <1>3, <1>4, <1>5, <1>6, <1>7, <1>8 DEF TypeOK, NodeRecords

(* The assertions of CPGProtoBuilder::connect and CPGProtoNode::getEntry:  *)
(* every id on the way to an edge is the id of a node of the graph.        *)
THEOREM TypeCorrect == Spec => []TypeOK
BY EmitterInvariantHolds, InvariantTypes, PTL

(* What CPGInstVisitor collected and what emitRefOrConstant looks up agree *)
(* for every function: an IDENTIFIER refers to the declaration of its own  *)
(* value, and no instruction becomes a LITERAL.                            *)
THEOREM LocalsAgreeing == Spec => []LocalsAgree
<1>1. EmitterInvariant => LocalsAgree
  BY DEF EmitterInvariant
<1> QED
  BY <1>1, EmitterInvariantHolds, PTL

(* emitMethod implements the builder: every node it creates and every      *)
(* resolveConnections it calls is one CPGBuilder allows.                   *)
THEOREM Implements == Spec => BuildsExpressions
<1>1. Init => Builder!Init
  BY DEF Init, Builder!Init
<1>2. EmitterInvariant /\ [Next]_vars => [BuilderStep]_graph
  BY StepInvariant
<1> QED
  BY <1>1, <1>2, EmitterInvariantHolds, PTL DEF Spec, BuildsExpressions

(* The expressions of a method, whatever its instructions: no node is in   *)
(* two places, and control passes through the children of a node in their  *)
(* order, each once, and then to the node.                                 *)
THEOREM MethodsAreForests == Spec => []BP!AstIsForest
<1>1. EmitterInvariant => BP!AstIsForest
  BY DEF EmitterInvariant, Graph, BP!BuilderInvariant, BP!AstIsForest
<1> QED
  BY <1>1, EmitterInvariantHolds, PTL

THEOREM MethodsFlowInLines == Spec => []BP!FlowIsLinear
<1>1. EmitterInvariant => BP!FlowIsLinear
  BY DEF EmitterInvariant, Graph, BP!BuilderInvariant, BP!FlowIsLinear
<1> QED
  BY <1>1, EmitterInvariantHolds, PTL

----------------------------------------------------------------------------
(***************************************************************************)
(* Control flow. Within the expressions, the ORDERs of the arguments say   *)
(* which edges there are ...                                               *)
(***************************************************************************)
Ordered(S) ==
  /\ \E n \in Nat : {order[k] : k \in S} = 1 .. n
  /\ \A k, l \in S : order[k] = order[l] => k = l

StartsAt(p) ==
  entry[p] # 0 => IF Arguments(p) = {} THEN entry[p] = p
                  ELSE \A k \in Arguments(p) : order[k] = 1 => entry[p] = entry[k]

Evaluated ==
  /\ \A p \in DOMAIN node : Ordered(Arguments(p)) /\ StartsAt(p)
  /\ cfg = ArgumentFlow

LEMMA OrderedIsNumbered ==
  ASSUME NEW S, Ordered(S)
  PROVE  /\ Numbered(S)
         /\ \A n \in Nat : {order[k] : k \in S} = 1 .. n => Cardinality(S) = n
<1>1. PICK n \in Nat : {order[k] : k \in S} = 1 .. n
  BY DEF Ordered
<1>2. \A k, l \in S : order[k] = order[l] => k = l
  BY DEF Ordered
<1> DEFINE at == [i \in 1 .. n |-> CHOOSE k \in S : order[k] = i]
<1>3. \A i \in 1 .. n : at[i] \in S /\ order[at[i]] = i
  BY <1>1
<1>4. at \in [1 .. n -> S]
  BY <1>3
<1> HIDE DEF at
<1>5. \A i, j \in 1 .. n : at[i] = at[j] => i = j
  BY <1>3
<1>6. \A k \in S : \E i \in 1 .. n : at[i] = k
  <2> SUFFICES ASSUME NEW k \in S PROVE \E i \in 1 .. n : at[i] = k
    OBVIOUS
  <2>1. order[k] \in 1 .. n
    BY <1>1
  <2> QED
    BY <1>2, <1>3, <2>1
<1>7. at \in Bijection(1 .. n, S)
  BY <1>4, <1>5, <1>6, Fun_IsBij
<1>8. Cardinality(S) = n
  BY <1>7, FS_CountingElements DEF ExistsBijection
<1>9. ASSUME NEW m \in Nat, {order[k] : k \in S} = 1 .. m PROVE Cardinality(S) = m
  <2>1. 1 .. n = 1 .. m
    BY <1>1, <1>9
  <2>2. \A i \in Nat : i \in 1 .. n <=> i \in 1 .. m
    BY <2>1
  <2>3. n = m
    BY <2>2
  <2> QED
    BY <1>8, <2>3
<1> QED
  BY <1>1, <1>8, <1>9 DEF Numbered

(* An edge within an expression, by its ends.                              *)
ToNext(x, y) ==
  \E p, l \in DOMAIN node : /\ x \in Arguments(p) /\ l \in Arguments(p)
                            /\ order[l] = order[x] + 1 /\ y = entry[l]
ToParent(x, y) ==
  /\ y \in DOMAIN node /\ x \in Arguments(y)
  /\ \A l \in Arguments(y) : order[l] <= order[x]

EdgesAreSteps ==
  ast \subseteq (DOMAIN node) \X (DOMAIN node) =>
    \A z : z \in ArgumentFlow <=> \E x, y : z = <<x, y>> /\ (ToNext(x, y) \/ ToParent(x, y))

LEMMA ArgumentEdges == EdgesAreSteps
<1> SUFFICES ASSUME ast \subseteq (DOMAIN node) \X (DOMAIN node)
             PROVE  \A z : z \in ArgumentFlow
                             <=> \E x, y : z = <<x, y>> /\ (ToNext(x, y) \/ ToParent(x, y))
  BY DEF EdgesAreSteps
<1>1. \A x, l : <<x, l>> \in Adjacent <=>
        /\ order[l] = order[x] + 1
        /\ \E p \in DOMAIN node : x \in Arguments(p) /\ l \in Arguments(p)
  BY DEF Adjacent, Arguments
<1>2. \A p, x : <<p, x>> \in Last <=> ToParent(x, p)
  BY DEF Last, ToParent, Arguments
<1>3. \A e \in Adjacent \cup Last : e = <<e[1], e[2]>>
  BY DEF Adjacent, Last
<1>4. \A z : z \in {<<kl[1], entry[kl[2]]>> : kl \in Adjacent}
               <=> \E x, l : <<x, l>> \in Adjacent /\ z = <<x, entry[l]>>
  BY <1>3
<1>5. \A z : z \in {<<pk[2], pk[1]>> : pk \in Last}
               <=> \E x, y : <<y, x>> \in Last /\ z = <<x, y>>
  BY <1>3
<1>6. \A x, y : ToNext(x, y) <=> \E l : <<x, l>> \in Adjacent /\ y = entry[l]
  BY <1>1 DEF ToNext, Arguments
<1> DEFINE A == {<<kl[1], entry[kl[2]]>> : kl \in Adjacent}
           B == {<<pk[2], pk[1]>> : pk \in Last}
<1>7. ArgumentFlow = A \cup B
  BY DEF ArgumentFlow
<1> HIDE DEF A, B
<1>8. \A z : z \in A <=> \E x, y : z = <<x, y>> /\ ToNext(x, y)
  BY <1>4, <1>6, Zenon DEF A
<1>9. \A z : z \in B <=> \E x, y : z = <<x, y>> /\ ToParent(x, y)
  BY <1>2, <1>5, Zenon DEF B
<1> QED
  BY <1>7, <1>8, <1>9, Zenon

LEMMA ArgumentEdgesNext == EdgesAreSteps'
BY ArgumentEdges, PTL

(* A step that joins no nodes.                                             *)
EdgesKept ==
  /\ ast' = ast /\ cfg' = cfg
  /\ DOMAIN node \subseteq DOMAIN node'
  /\ \A p, k \in DOMAIN node : <<p, k>> \in ast => order'[k] = order[k]
  /\ \A k \in DOMAIN node : entry'[k] = entry[k]
  /\ \A k \in DOMAIN node' : k \notin DOMAIN node => entry'[k] \in {0, k}

LEMMA ArgumentsKept ==
  ASSUME Evaluated, ast \subseteq (DOMAIN node) \X (DOMAIN node), EdgesKept
  PROVE  Evaluated'
<1> DEFINE ids == DOMAIN node
<1>1. /\ ast' = ast /\ cfg' = cfg /\ ids \subseteq DOMAIN node'
      /\ \A p, k \in ids : <<p, k>> \in ast => order'[k] = order[k]
      /\ \A k \in ids : entry'[k] = entry[k]
      /\ \A k \in DOMAIN node' : k \notin ids => entry'[k] \in {0, k}
  BY DEF EdgesKept
<1>2. \A p, k : <<p, k>> \in ast => p \in ids /\ k \in ids
  OBVIOUS
<1>3. \A p \in ids : Ordered(Arguments(p)) /\ StartsAt(p)
  BY DEF Evaluated
<1>4. \A p : Arguments(p)' = Arguments(p) /\ Arguments(p) \subseteq ids
  BY <1>1, <1>2 DEF Arguments
<1>5. \A p : p \notin ids => Arguments(p) = {}
  BY <1>2 DEF Arguments
<1>6. \A p : \A k \in Arguments(p) : order'[k] = order[k]
  BY <1>1, <1>2 DEF Arguments
<1>7. ASSUME NEW p \in DOMAIN node' PROVE Ordered(Arguments(p))'
  <2> DEFINE S == Arguments(p)
  <2>1. Arguments(p)' = S /\ \A k \in S : order'[k] = order[k]
    BY <1>4, <1>6
  <2>2. /\ \E n \in Nat : {order[k] : k \in S} = 1 .. n
        /\ \A k, l \in S : order[k] = order[l] => k = l
    <3>1. CASE p \in ids
      BY <1>3, <3>1 DEF Ordered
    <3>2. CASE p \notin ids
      <4>1. S = {} /\ {order[k] : k \in S} = 1 .. 0
        BY <1>5, <3>2
      <4> QED
        BY <4>1
    <3> QED
      BY <3>1, <3>2
  <2>3. {order'[k] : k \in S} = {order[k] : k \in S}
    BY <2>1
  <2> HIDE DEF S
  <2>4. /\ \E n \in Nat : {order'[k] : k \in S} = 1 .. n
        /\ \A k, l \in S : order'[k] = order'[l] => k = l
    BY <2>1, <2>2, <2>3
  <2> QED
    BY <2>1, <2>4 DEF Ordered
<1>8. ASSUME NEW p \in DOMAIN node' PROVE StartsAt(p)'
  <2>1. CASE p \in ids
    <3>1. entry'[p] = entry[p] /\ \A k \in Arguments(p) : entry'[k] = entry[k]
      BY <1>1, <1>4, <2>1
    <3> QED
      BY <1>3, <1>4, <1>6, <2>1, <3>1 DEF StartsAt
  <2>2. CASE p \notin ids
    BY <1>1, <1>4, <1>5, <2>2 DEF StartsAt
  <2> QED
    BY <2>1, <2>2
<1>9. ArgumentFlow' = ArgumentFlow
  <2>1. \A x, y : ToNext(x, y)' <=> ToNext(x, y)
    BY <1>1, <1>4, <1>5, <1>6 DEF ToNext
  <2>2. \A x, y : ToParent(x, y)' <=> ToParent(x, y)
    BY <1>1, <1>4, <1>5, <1>6 DEF ToParent
  <2>3. \A z : z \in ArgumentFlow <=> \E x, y : z = <<x, y>> /\ (ToNext(x, y) \/ ToParent(x, y))
    BY ArgumentEdges DEF EdgesAreSteps
  <2>4. (ast \subseteq (DOMAIN node) \X (DOMAIN node))'
    BY <1>1, <1>2
  <2>5. \A z : z \in ArgumentFlow'
                 <=> \E x, y : z = <<x, y>> /\ (ToNext(x, y)' \/ ToParent(x, y)')
    BY <2>4, ArgumentEdgesNext DEF EdgesAreSteps
  <2>6. \A z : z \in ArgumentFlow' <=> z \in ArgumentFlow
    BY <2>1, <2>2, <2>3, <2>5, Zenon
  <2> QED
    BY <2>6
<1> QED
  BY <1>1, <1>7, <1>8, <1>9 DEF Evaluated

(* resolveConnections.                                                     *)
Joins(p, kids, n) ==
  /\ p \in DOMAIN node /\ n \in Nat /\ kids \in [1 .. n -> DOMAIN node]
  /\ \A i \in 1 .. n : kids[i] # p
  /\ \A i, j \in 1 .. n : i # j => kids[i] # kids[j]
  /\ \A q \in DOMAIN node : <<p, q>> \notin ast /\ <<q, p>> \notin ast
  /\ \A i \in 1 .. n : \A q \in DOMAIN node : <<q, kids[i]>> \notin ast
  /\ DOMAIN node' = DOMAIN node
  /\ ast' = ast \cup {<<p, kids[i]>> : i \in 1 .. n}
  /\ cfg' = cfg \cup {<<kids[i], entry[kids[i + 1]]>> : i \in 1 .. n - 1}
                \cup {<<kids[i], p>> : i \in {n} \cap 1 .. n}
  /\ \A i \in 1 .. n : order'[kids[i]] = i
  /\ \A k \in DOMAIN node : (\A i \in 1 .. n : kids[i] # k) => order'[k] = order[k]
  /\ \A k \in DOMAIN node : k # p => entry'[k] = entry[k]
  /\ entry'[p] = IF n = 0 THEN p ELSE entry[kids[1]]

LEMMA ArgumentsJoined ==
  ASSUME Evaluated, ast \subseteq (DOMAIN node) \X (DOMAIN node),
         NEW p, NEW kids, NEW n, Joins(p, kids, n)
  PROVE  Evaluated'
<1> DEFINE ids == DOMAIN node
           Kids == {kids[i] : i \in 1 .. n}
<1>1. /\ p \in ids /\ n \in Nat /\ kids \in [1 .. n -> ids]
      /\ \A i \in 1 .. n : kids[i] # p
      /\ \A i, j \in 1 .. n : i # j => kids[i] # kids[j]
      /\ \A q \in ids : <<p, q>> \notin ast /\ <<q, p>> \notin ast
      /\ \A i \in 1 .. n : \A q \in ids : <<q, kids[i]>> \notin ast
      /\ DOMAIN node' = ids
      /\ ast' = ast \cup {<<p, kids[i]>> : i \in 1 .. n}
      /\ cfg' = cfg \cup {<<kids[i], entry[kids[i + 1]]>> : i \in 1 .. n - 1}
                    \cup {<<kids[i], p>> : i \in {n} \cap 1 .. n}
      /\ \A i \in 1 .. n : order'[kids[i]] = i
      /\ \A k \in ids : (\A i \in 1 .. n : kids[i] # k) => order'[k] = order[k]
      /\ \A k \in ids : k # p => entry'[k] = entry[k]
      /\ entry'[p] = IF n = 0 THEN p ELSE entry[kids[1]]
  BY DEF Joins
<1>2. \A i \in 1 .. n : kids[i] \in ids
  BY <1>1
<1>3. \A q \in ids : Ordered(Arguments(q)) /\ StartsAt(q)
  BY DEF Evaluated
<1>4. \A q : q # p => Arguments(q)' = Arguments(q)
  BY <1>1 DEF Arguments
<1>5. Arguments(p)' = Kids /\ Arguments(p) = {}
  <2>1. Arguments(p)' = {k \in ids : <<p, k>> \in ast'}
    BY <1>1 DEF Arguments
  <2>2. \A k \in ids : <<p, k>> \in ast' <=> k \in Kids
    <3> DEFINE new == {<<p, kids[i]>> : i \in 1 .. n}
    <3>1. ast' = ast \cup new /\ \A k \in ids : <<p, k>> \notin ast
      BY <1>1
    <3>2. \A k : <<p, k>> \in new <=> k \in Kids
      OBVIOUS
    <3> HIDE DEF new, Kids
    <3> QED
      BY <3>1, <3>2
  <2>3. Kids \subseteq ids
    BY <1>2
  <2>4. Arguments(p) = {}
    BY <1>1 DEF Arguments
  <2> QED
    BY <2>1, <2>2, <2>3, <2>4
<1>6. ASSUME NEW q PROVE \A k \in Arguments(q) : /\ k \in ids /\ q \in ids /\ k # p /\ q # p
                                                 /\ order'[k] = order[k] /\ entry'[k] = entry[k]
  BY <1>1, <1>2 DEF Arguments
<1>7. ASSUME NEW q \in ids PROVE Ordered(Arguments(q))'
  <2>1. CASE q = p
    <3>1. {order'[k] : k \in Kids} = 1 .. n
      BY <1>1
    <3>2. \A k, l \in Kids : order'[k] = order'[l] => k = l
      BY <1>1
    <3> HIDE DEF Kids
    <3> QED
      BY <1>1, <1>5, <2>1, <3>1, <3>2 DEF Ordered
  <2>2. CASE q # p
    <3> DEFINE S == Arguments(q)
    <3>1. Arguments(q)' = S /\ \A k \in S : order'[k] = order[k]
      BY <1>4, <1>6, <2>2
    <3>2. /\ \E m \in Nat : {order[k] : k \in S} = 1 .. m
          /\ \A k, l \in S : order[k] = order[l] => k = l
      BY <1>3 DEF Ordered
    <3> HIDE DEF S
    <3>3. {order'[k] : k \in S} = {order[k] : k \in S}
      BY <3>1
    <3> QED
      BY <3>1, <3>2, <3>3 DEF Ordered
  <2> QED
    BY <2>1, <2>2
<1>8. ASSUME NEW q \in ids PROVE StartsAt(q)'
  <2>1. CASE q = p
    <3>1. CASE n = 0
      <4>1. Kids = {}
        BY <3>1
      <4> QED
        BY <1>1, <1>5, <2>1, <3>1, <4>1 DEF StartsAt
    <3>2. CASE n # 0
      <4>1. 1 \in 1 .. n /\ kids[1] \in Kids
        BY <1>1, <3>2
      <4>2. \A k \in Kids : order'[k] = 1 => entry'[p] = entry'[k]
        <5>1. \A i \in 1 .. n : order'[kids[i]] = 1 => i = 1
          BY <1>1
        <5>2. entry'[p] = entry'[kids[1]]
          BY <1>1, <1>2, <3>2, <4>1
        <5> QED
          BY <5>1, <5>2
      <4> QED
        BY <1>5, <2>1, <4>1, <4>2 DEF StartsAt
    <3> QED
      BY <3>1, <3>2
  <2>2. CASE q # p
    <3>1. entry'[q] = entry[q] /\ Arguments(q)' = Arguments(q)
      BY <1>1, <1>4, <2>2
    <3> QED
      BY <1>3, <1>6, <3>1 DEF StartsAt
  <2> QED
    BY <2>1, <2>2
<1>9. \A x, y : ToNext(x, y)' <=> \/ ToNext(x, y)
                                  \/ \E i \in 1 .. n - 1 : x = kids[i] /\ y = entry[kids[i + 1]]
  <2> SUFFICES ASSUME NEW x, NEW y
               PROVE  ToNext(x, y)' <=> \/ ToNext(x, y)
                                        \/ \E i \in 1 .. n - 1 : x = kids[i] /\ y = entry[kids[i + 1]]
    OBVIOUS
  <2> DEFINE OldAt(q, l) == /\ x \in Arguments(q) /\ l \in Arguments(q)
                            /\ order[l] = order[x] + 1 /\ y = entry[l]
             NowAt(q, l) == /\ x \in Arguments(q)' /\ l \in Arguments(q)'
                            /\ order'[l] = order'[x] + 1 /\ y = entry'[l]
             Added == \E i \in 1 .. n - 1 : x = kids[i] /\ y = entry[kids[i + 1]]
  <2>1. ASSUME NEW q \in ids, NEW l \in ids, q # p
        PROVE  NowAt(q, l) <=> OldAt(q, l)
    <3>1. Arguments(q)' = Arguments(q)
      BY <1>4, <2>1
    <3>2. \A k \in Arguments(q) : order'[k] = order[k] /\ entry'[k] = entry[k]
      BY <1>6
    <3> QED
      BY <3>1, <3>2
  <2>2. ASSUME NEW l \in ids, NowAt(p, l) PROVE Added
    <3>1. x \in Kids /\ l \in Kids /\ order'[l] = order'[x] + 1 /\ y = entry'[l]
      BY <1>5, <2>2
    <3>2. PICK i \in 1 .. n : x = kids[i]
      BY <3>1
    <3>3. PICK j \in 1 .. n : l = kids[j]
      BY <3>1
    <3>4. j = i + 1 /\ i \in 1 .. n - 1
      BY <1>1, <3>1, <3>2, <3>3
    <3>5. y = entry[kids[i + 1]]
      BY <1>1, <1>2, <3>1, <3>3, <3>4
    <3> QED
      BY <3>2, <3>4, <3>5
  <2>3. ASSUME Added PROVE \E l \in ids : NowAt(p, l)
    <3>1. PICK i \in 1 .. n - 1 : x = kids[i] /\ y = entry[kids[i + 1]]
      BY <2>3
    <3>2. i \in 1 .. n /\ i + 1 \in 1 .. n
      BY <1>1
    <3>3. /\ kids[i + 1] \in ids /\ kids[i + 1] \in Kids /\ x \in Kids
          /\ order'[kids[i + 1]] = i + 1 /\ order'[x] = i
          /\ entry'[kids[i + 1]] = entry[kids[i + 1]]
      BY <1>1, <1>2, <3>1, <3>2
    <3>4. NowAt(p, kids[i + 1])
      BY <1>5, <3>1, <3>3
    <3> QED
      BY <3>3, <3>4
  <2>4. ToNext(x, y) <=> \E q, l \in ids : OldAt(q, l)
    BY DEF ToNext
  <2>5. ToNext(x, y)' <=> \E q, l \in ids : NowAt(q, l)
    BY <1>1 DEF ToNext
  <2>6. \A l \in ids : ~ OldAt(p, l)
    BY <1>5
  <2> HIDE DEF OldAt, NowAt, Added
  <2>7. ToNext(x, y)' <=> ToNext(x, y) \/ Added
    BY <1>1, <2>1, <2>2, <2>3, <2>4, <2>5, <2>6
  <2> QED
    BY <2>7 DEF Added
<1>10. \A x, y : ToParent(x, y)' <=> ToParent(x, y) \/ (n > 0 /\ x = kids[n] /\ y = p)
  <2> SUFFICES ASSUME NEW x, NEW y
               PROVE  ToParent(x, y)' <=> ToParent(x, y) \/ (n > 0 /\ x = kids[n] /\ y = p)
    OBVIOUS
  <2>1. CASE y # p
    <3>1. ToParent(x, y)' <=> ToParent(x, y)
      BY <1>1, <1>4, <1>6, <2>1 DEF ToParent
    <3> QED
      BY <2>1, <3>1
  <2>2. CASE y = p
    <3>1. ~ ToParent(x, y)
      BY <1>5, <2>2 DEF ToParent
    <3>2. ToParent(x, y)' <=> x \in Kids /\ \A l \in Kids : order'[l] <= order'[x]
      BY <1>1, <1>5, <2>2 DEF ToParent
    <3>3. ASSUME x \in Kids, \A l \in Kids : order'[l] <= order'[x]
          PROVE  n > 0 /\ x = kids[n]
      <4>1. PICK i \in 1 .. n : x = kids[i]
        BY <3>3
      <4>2. n \in 1 .. n /\ n > 0
        BY <1>1, <4>1
      <4>3. order'[kids[n]] <= order'[x] /\ order'[kids[n]] = n /\ order'[x] = i
        BY <1>1, <3>3, <4>1, <4>2
      <4>4. i = n
        BY <1>1, <4>1, <4>3
      <4> QED
        BY <4>1, <4>2, <4>4
    <3>4. ASSUME n > 0, x = kids[n]
          PROVE  x \in Kids /\ \A l \in Kids : order'[l] <= order'[x]
      <4>1. n \in 1 .. n
        BY <1>1, <3>4
      <4> QED
        BY <1>1, <3>4, <4>1
    <3> QED
      BY <2>2, <3>1, <3>2, <3>3, <3>4
  <2> QED
    BY <2>1, <2>2
<1>11. cfg' = ArgumentFlow'
  <2>1. \A z : z \in ArgumentFlow <=> \E x, y : z = <<x, y>> /\ (ToNext(x, y) \/ ToParent(x, y))
    BY ArgumentEdges DEF EdgesAreSteps
  <2>2. (ast \subseteq (DOMAIN node) \X (DOMAIN node))'
    BY <1>1, <1>2
  <2>3. \A z : z \in ArgumentFlow'
                 <=> \E x, y : z = <<x, y>> /\ (ToNext(x, y)' \/ ToParent(x, y)')
    BY <2>2, ArgumentEdgesNext DEF EdgesAreSteps
  <2> DEFINE A == {<<kids[i], entry[kids[i + 1]]>> : i \in 1 .. n - 1}
             B == {<<kids[i], p>> : i \in {n} \cap 1 .. n}
  <2>4. cfg' = cfg \cup A \cup B /\ cfg = ArgumentFlow
    BY <1>1 DEF Evaluated
  <2>5. \A z : z \in A <=> \E x, y : /\ z = <<x, y>>
                                     /\ \E i \in 1 .. n - 1 : x = kids[i] /\ y = entry[kids[i + 1]]
    OBVIOUS
  <2>6. \A z : z \in B <=> \E x, y : z = <<x, y>> /\ (n > 0 /\ x = kids[n] /\ y = p)
    <3>1. \A i : i \in {n} \cap 1 .. n <=> i = n /\ n > 0
      BY <1>1
    <3> QED
      BY <3>1
  <2> HIDE DEF A, B
  <2> DEFINE Old(x, y) == ToNext(x, y) \/ ToParent(x, y)
             Now(x, y) == ToNext(x, y)' \/ ToParent(x, y)'
             NewA(x, y) == \E i \in 1 .. n - 1 : x = kids[i] /\ y = entry[kids[i + 1]]
             NewB(x, y) == n > 0 /\ x = kids[n] /\ y = p
  <2>7. \A x, y : Now(x, y) <=> Old(x, y) \/ NewA(x, y) \/ NewB(x, y)
    BY <1>9, <1>10
  <2>8. /\ \A z : z \in ArgumentFlow <=> \E x, y : z = <<x, y>> /\ Old(x, y)
        /\ \A z : z \in ArgumentFlow' <=> \E x, y : z = <<x, y>> /\ Now(x, y)
        /\ \A z : z \in A <=> \E x, y : z = <<x, y>> /\ NewA(x, y)
        /\ \A z : z \in B <=> \E x, y : z = <<x, y>> /\ NewB(x, y)
    BY <2>1, <2>3, <2>5, <2>6
  <2> HIDE DEF Old, Now, NewA, NewB
  <2>9. \A z : z \in ArgumentFlow' <=> z \in ArgumentFlow \/ z \in A \/ z \in B
    BY <2>7, <2>8, Zenon
  <2> QED
    BY <2>4, <2>9
<1> QED
  BY <1>1, <1>7, <1>8, <1>11 DEF Evaluated

----------------------------------------------------------------------------
(***************************************************************************)
(* ... and the ORDERs of the statements say where the blocks begin and     *)
(* end.                                                                    *)
(***************************************************************************)
ShownUpTo(b) == {i \in 1 .. fn.n : HasStatement(i) /\ fn.block[i] <= b}
EmptyUpTo(b) == {c \in 1 .. b : IsEmpty(c)}
ShownIn(b) == {i \in InBlock(b) : HasStatement(i)}

LEMMA Counting ==
  ASSUME WellFormed(fn), NEW b \in Nat
  PROVE  /\ fn.n \in Nat /\ \A i \in 1 .. fn.n : fn.block[i] \in Nat /\ fn.block[i] > 0
         /\ IsFiniteSet(ShownUpTo(b)) /\ IsFiniteSet(EmptyUpTo(b)) /\ IsFiniteSet(ShownIn(b))
         /\ Cardinality(ShownUpTo(b)) \in Nat /\ Cardinality(EmptyUpTo(b)) \in Nat
         /\ Cardinality(ShownIn(b)) \in Nat /\ EndOf(b) \in Nat
         /\ EndOf(b) = Cardinality(ShownUpTo(b)) + Cardinality(EmptyUpTo(b))
         /\ (Cardinality(ShownIn(b)) = 0 <=> IsEmpty(b))
<1>1. fn.n \in Nat /\ fn.block \in [1 .. fn.n -> 1 .. Len(fn.succ)] /\ fn.succ \in Seq(Seq(1 .. Len(fn.succ)))
  BY DEF WellFormed
<1>2. \A i \in 1 .. fn.n : fn.block[i] \in Nat /\ fn.block[i] > 0
  BY <1>1
<1>3. IsFiniteSet(1 .. fn.n) /\ IsFiniteSet(1 .. b)
  BY <1>1, FS_Interval
<1>4. ShownUpTo(b) \in SUBSET (1 .. fn.n) /\ ShownIn(b) \in SUBSET (1 .. fn.n)
      /\ EmptyUpTo(b) \in SUBSET (1 .. b)
  BY DEF ShownUpTo, ShownIn, EmptyUpTo, InBlock
<1>5. IsFiniteSet(ShownUpTo(b)) /\ IsFiniteSet(EmptyUpTo(b)) /\ IsFiniteSet(ShownIn(b))
  BY <1>3, <1>4, FS_Subset
<1>6. /\ Cardinality(ShownUpTo(b)) \in Nat /\ Cardinality(EmptyUpTo(b)) \in Nat
      /\ Cardinality(ShownIn(b)) \in Nat
  BY <1>5, FS_CardinalityType
<1>7. EndOf(b) = Cardinality(ShownUpTo(b)) + Cardinality(EmptyUpTo(b))
  BY DEF EndOf, ShownUpTo, EmptyUpTo
<1>8. Cardinality(ShownIn(b)) = 0 <=> IsEmpty(b)
  <2>1. Cardinality(ShownIn(b)) = 0 <=> ShownIn(b) = {}
    BY <1>5, FS_EmptySet
  <2>2. ShownIn(b) = {} <=> IsEmpty(b)
    BY DEF ShownIn, IsEmpty
  <2> QED
    BY <2>1, <2>2
<1> QED
  BY <1>1, <1>2, <1>5, <1>6, <1>7, <1>8

LEMMA EndOfNone ==
  ASSUME WellFormed(fn)
  PROVE  EndOf(0) = 0
<1>1. ShownUpTo(0) = {} /\ EmptyUpTo(0) = {}
  <2>1. \A i \in 1 .. fn.n : ~ (fn.block[i] <= 0)
    BY Counting
  <2> QED
    BY <2>1 DEF ShownUpTo, EmptyUpTo
<1>2. Cardinality({}) = 0
  BY FS_EmptySet
<1>3. EndOf(0) = Cardinality(ShownUpTo(0)) + Cardinality(EmptyUpTo(0))
  BY Counting
<1> QED
  BY <1>1, <1>2, <1>3

LEMMA EndOfBlock ==
  ASSUME WellFormed(fn), NEW b \in Nat, b > 0
  PROVE  /\ b - 1 \in Nat /\ EndOf(b - 1) \in Nat /\ EndOf(b) \in Nat
         /\ EndOf(b) = EndOf(b - 1) + (IF IsEmpty(b) THEN 1 ELSE Cardinality(ShownIn(b)))
         /\ EndOf(b - 1) < EndOf(b)
<1>1. b - 1 \in Nat
  OBVIOUS
<1> DEFINE S == ShownUpTo(b - 1)
           E == EmptyUpTo(b - 1)
<1>2. /\ \A i \in 1 .. fn.n : fn.block[i] \in Nat
      /\ IsFiniteSet(S) /\ IsFiniteSet(E) /\ IsFiniteSet(ShownIn(b))
      /\ Cardinality(S) \in Nat /\ Cardinality(E) \in Nat /\ Cardinality(ShownIn(b)) \in Nat
      /\ EndOf(b - 1) \in Nat /\ EndOf(b) \in Nat
      /\ EndOf(b) = Cardinality(ShownUpTo(b)) + Cardinality(EmptyUpTo(b))
      /\ EndOf(b - 1) = Cardinality(S) + Cardinality(E)
      /\ (Cardinality(ShownIn(b)) = 0 <=> IsEmpty(b))
  BY <1>1, Counting
<1>3. Cardinality(ShownUpTo(b)) = Cardinality(S) + Cardinality(ShownIn(b))
  <2>1. ShownUpTo(b) = S \cup ShownIn(b)
    <3>1. \A i \in 1 .. fn.n : fn.block[i] <= b <=> fn.block[i] <= b - 1 \/ fn.block[i] = b
      BY <1>2
    <3> QED
      BY <3>1 DEF ShownUpTo, ShownIn, InBlock
  <2>2. S \cap ShownIn(b) = {}
    <3>1. \A i \in 1 .. fn.n : ~ (fn.block[i] <= b - 1 /\ fn.block[i] = b)
      BY <1>2
    <3> QED
      BY <3>1 DEF ShownUpTo, ShownIn, InBlock
  <2>3. Cardinality(S \cap ShownIn(b)) = 0
    BY <2>2, FS_EmptySet
  <2>4. Cardinality(S \cup ShownIn(b)) = Cardinality(S) + Cardinality(ShownIn(b)) - Cardinality(S \cap ShownIn(b))
    BY <1>2, FS_Union
  <2> HIDE DEF S
  <2> QED
    BY <1>2, <2>1, <2>3, <2>4
<1>4. Cardinality(EmptyUpTo(b)) = Cardinality(E) + (IF IsEmpty(b) THEN 1 ELSE 0)
  <2>1. \A c : c \in 1 .. b <=> c \in 1 .. b - 1 \/ c = b
    OBVIOUS
  <2>2. b \notin E
    BY DEF EmptyUpTo
  <2>3. CASE IsEmpty(b)
    <3>1. EmptyUpTo(b) = E \cup {b}
      BY <2>1, <2>3 DEF EmptyUpTo
    <3>2. Cardinality(E \cup {b}) = Cardinality(E) + 1
      BY <1>2, <2>2, FS_AddElement
    <3> QED
      BY <2>3, <3>1, <3>2
  <2>4. CASE ~ IsEmpty(b)
    <3>1. EmptyUpTo(b) = E
      BY <2>1, <2>4 DEF EmptyUpTo
    <3> HIDE DEF E
    <3> QED
      BY <1>2, <2>4, <3>1
  <2> QED
    BY <2>3, <2>4
<1> HIDE DEF S, E
<1>5. EndOf(b) = EndOf(b - 1) + (IF IsEmpty(b) THEN 1 ELSE Cardinality(ShownIn(b)))
  <2>1. CASE IsEmpty(b)
    BY <1>2, <1>3, <1>4, <2>1
  <2>2. CASE ~ IsEmpty(b)
    BY <1>2, <1>3, <1>4, <2>2
  <2> QED
    BY <2>1, <2>2
<1>6. EndOf(b - 1) < EndOf(b)
  <2>1. CASE IsEmpty(b)
    BY <1>2, <1>5, <2>1
  <2>2. CASE ~ IsEmpty(b)
    BY <1>2, <1>5, <2>2
  <2> QED
    BY <2>1, <2>2
<1> QED
  BY <1>1, <1>2, <1>5, <1>6

LEMMA EndsInOrder ==
  ASSUME WellFormed(fn), NEW a \in Nat, NEW b \in Nat, a <= b
  PROVE  EndOf(a) <= EndOf(b)
<1>1. ShownUpTo(a) \in SUBSET ShownUpTo(b) /\ EmptyUpTo(a) \in SUBSET EmptyUpTo(b)
  <2>1. \A i \in 1 .. fn.n : fn.block[i] <= a => fn.block[i] <= b
    BY Counting
  <2>2. \A c \in 1 .. a : c \in 1 .. b
    OBVIOUS
  <2> QED
    BY <2>1, <2>2 DEF ShownUpTo, EmptyUpTo
<1>2. /\ IsFiniteSet(ShownUpTo(b)) /\ IsFiniteSet(EmptyUpTo(b))
      /\ Cardinality(ShownUpTo(b)) \in Nat /\ Cardinality(EmptyUpTo(b)) \in Nat
      /\ EndOf(b) = Cardinality(ShownUpTo(b)) + Cardinality(EmptyUpTo(b))
  BY Counting
<1>3. /\ Cardinality(ShownUpTo(a)) \in Nat /\ Cardinality(EmptyUpTo(a)) \in Nat
      /\ EndOf(a) = Cardinality(ShownUpTo(a)) + Cardinality(EmptyUpTo(a))
  BY Counting
<1>4. Cardinality(ShownUpTo(a)) <= Cardinality(ShownUpTo(b))
      /\ Cardinality(EmptyUpTo(a)) <= Cardinality(EmptyUpTo(b))
  BY <1>1, <1>2, FS_Subset
<1> QED
  BY <1>2, <1>3, <1>4

(* The statements so far, those of the current block included.             *)
Laid == StatementNodes \cup Elements(nodes)

Placed ==
  /\ topLevelOrder > 0
  /\ {order[k] : k \in Laid} = 1 .. topLevelOrder - 1
  /\ \A k, l \in Laid : order[k] = order[l] => k = l
  /\ \A i \in 1 .. Len(nodes) : order[nodes[i]] = (topLevelOrder - 1 - Len(nodes)) + i
  /\ Laid \subseteq Finished

(* LOCALs take no part in expressions, statements in no larger expression. *)
Apart ==
  /\ \A k \in DOMAIN node : node[k].type = "LOCAL" => entry[k] = 0
  /\ \A i \in 1 .. Len(vals) : node[vals[i]].type # "LOCAL" /\ vals[i] \notin Laid

Place(o) == CHOOSE k \in Laid : order[k] = o

Landmarks(b) ==
  entryPoints[b] = Place(EndOf(b - 1) + 1) /\ exitPoints[b] = Place(EndOf(b))
WithinBlock(b) ==
  {<<Place(o), entry[Place(o + 1)]>> : o \in EndOf(b - 1) + 1 .. EndOf(b) - 1}
WithinBlocks(m) == UNION {WithinBlock(b) : b \in 1 .. m}
BlockExit(b) ==
  IF fn.kind[Terminator(b)] = "ret" THEN {<<Place(EndOf(b)), METHOD_RETURN>>}
  ELSE {<<Place(EndOf(b)), entry[Place(EndOf(c - 1) + 1)]>> : c \in Elements(fn.succ[b])}
BlockExits(m) == UNION {BlockExit(b) : b \in 1 .. m}

(* Block blk has been visited up to cur.                                   *)
Visiting ==
  /\ \A i \in 1 .. fn.n : (i < cur => fn.block[i] <= blk) /\ (fn.block[i] < blk => i < cur)
  /\ topLevelOrder - 1 = EndOf(blk - 1) + Len(nodes)
  /\ \/ Len(nodes) = Cardinality({i \in ShownIn(blk) : i < cur})
     \/ cur \notin InBlock(blk) /\ IsEmpty(blk) /\ Len(nodes) = 1
  /\ \A b \in 1 .. blk - 1 : Landmarks(b)
  /\ Elements(flow) = WithinBlocks(blk - 1)

LaidOut ==
  /\ nodes = <<>> /\ topLevelOrder - 1 = EndOf(NBlocks)
  /\ \A b \in 1 .. NBlocks : Landmarks(b)

Connected(m) ==
  Elements(flow) = WithinBlocks(NBlocks) \cup {<<METHOD, entry[Place(1)]>>} \cup BlockExits(m)

Progress ==
  \/ /\ phase = "prologue" /\ topLevelOrder = 1 /\ cur = 1 /\ members = {} /\ flow = <<>>
  \/ phase = "visit" /\ Visiting
  \/ phase = "expression" /\ Visiting /\ HasStatement(cur)
  \/ phase = "method" /\ LaidOut /\ Elements(flow) = WithinBlocks(NBlocks)
  \/ phase = "terminators" /\ LaidOut /\ Connected(blk - 1)
  \/ phase = "done" /\ (HasBody => LaidOut /\ Connected(NBlocks))

FlowInvariant == EmitterInvariant /\ Evaluated /\ Placed /\ Apart /\ Progress

----------------------------------------------------------------------------
(* What is at a place stays there.                                         *)
PlacesStay ==
  \A o \in 1 .. topLevelOrder - 1 : Place(o)' = Place(o) /\ entry'[Place(o)] = entry[Place(o)]

LaidStay == \A k \in Laid : k \in Laid' /\ order'[k] = order[k] /\ entry'[k] = entry[k]

LEMMA AtPlace ==
  ASSUME Placed
  PROVE  /\ \A o \in 1 .. topLevelOrder - 1 : Place(o) \in Laid /\ order[Place(o)] = o
         /\ \A k \in Laid : order[k] \in 1 .. topLevelOrder - 1 /\ Place(order[k]) = k
<1>1. {order[k] : k \in Laid} = 1 .. topLevelOrder - 1
      /\ \A k, l \in Laid : order[k] = order[l] => k = l
  BY DEF Placed
<1>2. ASSUME NEW o \in 1 .. topLevelOrder - 1
      PROVE  Place(o) \in Laid /\ order[Place(o)] = o
  <2>1. \E k \in Laid : order[k] = o
    BY <1>1
  <2> QED
    BY <2>1 DEF Place
<1>3. \A k \in Laid : order[k] \in 1 .. topLevelOrder - 1
  BY <1>1
<1>4. \A k \in Laid : Place(order[k]) = k
  BY <1>1, <1>2, <1>3
<1> QED
  BY <1>2, <1>3, <1>4

LEMMA PlacesKept ==
  ASSUME Placed, Placed', LaidStay
  PROVE  PlacesStay
<1> SUFFICES ASSUME NEW o \in 1 .. topLevelOrder - 1
             PROVE  Place(o)' = Place(o) /\ entry'[Place(o)] = entry[Place(o)]
  BY DEF PlacesStay
<1>1. Place(o) \in Laid /\ order[Place(o)] = o
  BY AtPlace
<1>2. Place(o) \in Laid' /\ order'[Place(o)] = o /\ entry'[Place(o)] = entry[Place(o)]
  BY <1>1 DEF LaidStay
<1>3. \A k, l \in Laid' : order'[k] = order'[l] => k = l
  BY DEF Placed
<1>4. \A k \in Laid' : order'[k] = o => k = Place(o)
  BY <1>2, <1>3
<1>5. (CHOOSE k \in Laid' : order'[k] = o) = Place(o)
  BY <1>2, <1>4
<1>6. Place(o)' = CHOOSE k \in Laid' : order'[k] = o
  BY DEF Place
<1> QED
  BY <1>2, <1>5, <1>6

LEMMA EndOfSame ==
  ASSUME fn' = fn
  PROVE  /\ \A b : EndOf(b)' = EndOf(b) /\ ShownIn(b)' = ShownIn(b) /\ InBlock(b)' = InBlock(b)
         /\ \A b : IsEmpty(b)' = IsEmpty(b) /\ Terminator(b)' = Terminator(b)
         /\ \A i : HasStatement(i)' = HasStatement(i)
         /\ WellFormed(fn)' = WellFormed(fn)
<1>1. \A i : HasStatement(i)' = HasStatement(i)
  BY DEF HasStatement
<1>2. \A b : InBlock(b)' = InBlock(b)
  BY DEF InBlock
<1>3. \A b : IsEmpty(b)' = IsEmpty(b) /\ Terminator(b)' = Terminator(b)
  BY <1>1, <1>2 DEF IsEmpty, Terminator
<1>4. \A b : ShownIn(b)' = ShownIn(b)
  BY <1>1, <1>2 DEF ShownIn
<1>5. \A b : EndOf(b)' = EndOf(b)
  BY <1>1, <1>3 DEF EndOf
<1>6. WellFormed(fn)' = WellFormed(fn)
  OBVIOUS
<1> QED
  BY <1>1, <1>2, <1>3, <1>4, <1>5, <1>6

(* Blocks that have been laid out stay as they are.                        *)
LEMMA BlocksStay ==
  ASSUME WellFormed(fn), fn' = fn, topLevelOrder \in Nat, PlacesStay,
         NEW m \in Nat, EndOf(m) <= topLevelOrder - 1
  PROVE  /\ WithinBlocks(m)' = WithinBlocks(m)
         /\ \A b \in 1 .. m :
              /\ Landmarks(b) /\ entryPoints'[b] = entryPoints[b] /\ exitPoints'[b] = exitPoints[b]
                   => Landmarks(b)'
              /\ Place(EndOf(b - 1) + 1)' = Place(EndOf(b - 1) + 1)
              /\ entry'[Place(EndOf(b - 1) + 1)] = entry[Place(EndOf(b - 1) + 1)]
              /\ Place(EndOf(b))' = Place(EndOf(b))
<1>1. ASSUME NEW b \in 1 .. m
      PROVE  /\ EndOf(b - 1) \in Nat /\ EndOf(b) \in Nat
             /\ EndOf(b - 1) + 1 \in 1 .. topLevelOrder - 1 /\ EndOf(b) \in 1 .. topLevelOrder - 1
             /\ \A o \in EndOf(b - 1) + 1 .. EndOf(b) - 1 :
                  o \in 1 .. topLevelOrder - 1 /\ o + 1 \in 1 .. topLevelOrder - 1
  <2>1. b \in Nat /\ b > 0 /\ b <= m
    OBVIOUS
  <2>2. EndOf(b - 1) \in Nat /\ EndOf(b) \in Nat /\ EndOf(b - 1) < EndOf(b)
    BY <2>1, EndOfBlock
  <2>3. EndOf(b) <= EndOf(m) /\ EndOf(m) \in Nat
    BY <2>1, EndsInOrder, Counting
  <2> QED
    BY <2>2, <2>3
<1>2. \A o \in 1 .. topLevelOrder - 1 : Place(o)' = Place(o) /\ entry'[Place(o)] = entry[Place(o)]
  BY DEF PlacesStay
<1>3. ASSUME NEW b \in 1 .. m PROVE WithinBlock(b)' = WithinBlock(b)
  <2> DEFINE range == EndOf(b - 1) + 1 .. EndOf(b) - 1
  <2>1. \A o \in range : Place(o)' = Place(o) /\ Place(o + 1)' = Place(o + 1)
                         /\ entry'[Place(o + 1)] = entry[Place(o + 1)]
    BY <1>1, <1>2
  <2>2. WithinBlock(b)' = {<<Place(o)', entry'[Place(o + 1)']>> : o \in range}
    BY EndOfSame DEF WithinBlock
  <2>3. WithinBlock(b) = {<<Place(o), entry[Place(o + 1)]>> : o \in range}
    BY DEF WithinBlock
  <2> HIDE DEF range
  <2> QED
    BY <2>1, <2>2, <2>3
<1>4. WithinBlocks(m)' = WithinBlocks(m)
  BY <1>3 DEF WithinBlocks
<1>5. ASSUME NEW b \in 1 .. m
      PROVE  /\ Place(EndOf(b - 1) + 1)' = Place(EndOf(b - 1) + 1)
             /\ entry'[Place(EndOf(b - 1) + 1)] = entry[Place(EndOf(b - 1) + 1)]
             /\ Place(EndOf(b))' = Place(EndOf(b))
  <2>1. ASSUME NEW o, o' = o, o \in 1 .. topLevelOrder - 1
        PROVE  Place(o)' = Place(o) /\ entry'[Place(o)] = entry[Place(o)]
    <3>1. PICK x \in 1 .. topLevelOrder - 1 : x = o
      BY <2>1
    <3> QED
      BY <1>2, <2>1, <3>1 DEF Place
  <2> QED
    BY <1>1, <2>1, EndOfSame
<1>6. ASSUME NEW b \in 1 .. m, Landmarks(b),
             entryPoints'[b] = entryPoints[b], exitPoints'[b] = exitPoints[b]
      PROVE  Landmarks(b)'
  BY <1>5, <1>6, EndOfSame DEF Landmarks
<1> QED
  BY <1>4, <1>5, <1>6

----------------------------------------------------------------------------
(* A step within an expression.                                            *)
Quiet ==
  /\ UNCHANGED <<members, nodes, topLevelOrder>>
  /\ DOMAIN node \subseteq DOMAIN node'
  /\ \A k \in DOMAIN node : node'[k] = node[k]
  /\ \A k \in DOMAIN node' : k \notin DOMAIN node => node'[k].type # "LOCAL"
  /\ \A k \in Laid : order'[k] = order[k] /\ entry'[k] = entry[k]
  /\ \A k \in DOMAIN node : node[k].type = "LOCAL" => entry'[k] = entry[k]
  /\ \A i \in 1 .. Len(vals') :
       \/ vals'[i] \in DOMAIN node' /\ vals'[i] \notin DOMAIN node
       \/ \E j \in 1 .. Len(vals) : vals'[i] = vals[j]

LEMMA QuietPlaces ==
  ASSUME EmitterInvariant, Placed, Apart, Quiet
  PROVE  Placed' /\ Apart' /\ PlacesStay /\ Laid' = Laid
<1> DEFINE ids == DOMAIN node
<1>1. /\ UNCHANGED <<members, nodes, topLevelOrder>>
      /\ ids \subseteq DOMAIN node'
      /\ \A k \in ids : node'[k] = node[k]
      /\ \A k \in DOMAIN node' : k \notin ids => node'[k].type # "LOCAL"
      /\ \A k \in Laid : order'[k] = order[k] /\ entry'[k] = entry[k]
      /\ \A k \in ids : node[k].type = "LOCAL" => entry'[k] = entry[k]
      /\ \A i \in 1 .. Len(vals') :
           \/ vals'[i] \in DOMAIN node' /\ vals'[i] \notin ids
           \/ \E j \in 1 .. Len(vals) : vals'[i] = vals[j]
  BY DEF Quiet
<1>2. \A p, k : <<p, k>> \in members => k \in ids
  BY DEF EmitterInvariant, Edges
<1>3. StatementNodes' = StatementNodes
  BY <1>1, <1>2 DEF StatementNodes, BLOCK
<1>4. Laid' = Laid
  BY <1>1, <1>3 DEF Laid, Elements
<1>5. LaidStay
  BY <1>1, <1>4 DEF LaidStay
<1>6. Laid \subseteq Finished /\ Laid \subseteq ids
  BY DEF Placed, Finished
<1>7. Placed'
  <2>1. {order'[k] : k \in Laid} = {order[k] : k \in Laid}
    BY <1>1
  <2>2. \A i \in 1 .. Len(nodes) : nodes[i] \in Laid
    <3>1. nodes \in Seq(Finished)
      BY DEF EmitterInvariant, Statements
    <3> QED
      BY <3>1, SeqMember DEF Laid, Elements
  <2>3. \A i \in 1 .. Len(nodes) : order'[nodes[i]] = order[nodes[i]]
    BY <1>1, <2>2
  <2>4. Laid \subseteq Finished'
    BY <1>1, <1>6 DEF Finished
  <2> QED
    BY <1>1, <1>4, <2>1, <2>3, <2>4 DEF Placed
<1>8. Apart'
  <2>1. /\ \A k \in ids : node[k].type = "LOCAL" => entry[k] = 0
        /\ \A i \in 1 .. Len(vals) : node[vals[i]].type # "LOCAL" /\ vals[i] \notin Laid
    BY DEF Apart
  <2>2. \A i \in 1 .. Len(vals) : vals[i] \in ids
    BY SeqMember DEF EmitterInvariant, Loose
  <2>3. ASSUME NEW i \in 1 .. Len(vals')
        PROVE  node'[vals'[i]].type # "LOCAL" /\ vals'[i] \notin Laid
    <3>1. CASE vals'[i] \in DOMAIN node' /\ vals'[i] \notin ids
      BY <1>1, <1>6, <3>1
    <3>2. CASE \E j \in 1 .. Len(vals) : vals'[i] = vals[j]
      BY <1>1, <2>1, <2>2, <3>2
    <3> QED
      BY <1>1, <3>1, <3>2
  <2>4. \A k \in DOMAIN node' : node'[k].type = "LOCAL" => entry'[k] = 0
    BY <1>1, <2>1
  <2> QED
    BY <1>4, <2>3, <2>4 DEF Apart
<1>9. PlacesStay
  BY <1>5, <1>7, PlacesKept
<1> QED
  BY <1>4, <1>7, <1>8, <1>9

(* The blocks before the current one keep what they have.                  *)
LEMMA EarlierBlocks ==
  ASSUME EmitterInvariant, Visiting, PlacesStay, blk \in 1 .. NBlocks,
         UNCHANGED <<fn, blk, flow, entryPoints, exitPoints>>
  PROVE  /\ \A b \in 1 .. blk - 1 : Landmarks(b)'
         /\ Elements(flow)' = WithinBlocks(blk - 1)'
         /\ EndOf(blk - 1)' = EndOf(blk - 1) /\ ShownIn(blk)' = ShownIn(blk)
         /\ InBlock(blk)' = InBlock(blk) /\ IsEmpty(blk)' = IsEmpty(blk)
         /\ topLevelOrder \in Nat /\ Len(nodes) \in Nat /\ EndOf(blk - 1) \in Nat
<1>1. WellFormed(fn) /\ blk \in Nat /\ blk > 0 /\ blk - 1 \in Nat /\ topLevelOrder \in Nat
  BY NodeDomain DEF EmitterInvariant, Typed
<1>2. nodes \in Seq(Finished) /\ Len(nodes) \in Nat
  BY DEF EmitterInvariant, Statements
<1>3. EndOf(blk - 1) \in Nat
  BY <1>1, Counting
<1>4. EndOf(blk - 1) <= topLevelOrder - 1
  BY <1>1, <1>2, <1>3 DEF Visiting
<1>5. /\ WithinBlocks(blk - 1)' = WithinBlocks(blk - 1)
      /\ \A b \in 1 .. blk - 1 : Landmarks(b) => Landmarks(b)'
  BY <1>1, <1>4, BlocksStay
<1>6. \A b \in 1 .. blk - 1 : Landmarks(b)'
  BY <1>5 DEF Visiting
<1>7. Elements(flow)' = WithinBlocks(blk - 1)'
  BY <1>5 DEF Visiting, Elements
<1>8. EndOf(blk - 1)' = EndOf(blk - 1) /\ ShownIn(blk)' = ShownIn(blk)
      /\ InBlock(blk)' = InBlock(blk) /\ IsEmpty(blk)' = IsEmpty(blk)
  <2>1. EndOf(blk - 1)' = EndOf(blk - 1)
    BY EndOfSame DEF EndOf, IsEmpty, InBlock, HasStatement
  <2>2. InBlock(blk)' = InBlock(blk)
    BY DEF InBlock
  <2>3. ShownIn(blk)' = ShownIn(blk) /\ IsEmpty(blk)' = IsEmpty(blk)
    BY <2>2 DEF ShownIn, HasStatement, IsEmpty
  <2> QED
    BY <2>1, <2>2, <2>3
<1> QED
  BY <1>1, <1>2, <1>3, <1>6, <1>7, <1>8

LEMMA VisitingStays ==
  ASSUME EmitterInvariant, Visiting, PlacesStay, blk \in 1 .. NBlocks,
         UNCHANGED <<fn, blk, cur, nodes, topLevelOrder, flow, entryPoints, exitPoints>>
  PROVE  Visiting'
BY EarlierBlocks DEF Visiting

LEMMA ExpressionStep ==
  ASSUME FlowInvariant, EmitterInvariant', Evaluated', Quiet,
         phase = "expression", UNCHANGED <<fn, phase, blk, cur, flow, entryPoints, exitPoints>>
  PROVE  FlowInvariant'
<1>1. /\ EmitterInvariant /\ Placed /\ Apart /\ Visiting /\ HasStatement(cur) /\ blk \in 1 .. NBlocks
  BY DEF FlowInvariant, Progress, EmitterInvariant, Control
<1>2. Placed' /\ Apart' /\ PlacesStay
  BY <1>1, QuietPlaces
<1>3. Visiting'
  BY <1>1, <1>2, VisitingStays DEF Quiet
<1>4. HasStatement(cur)'
  BY <1>1 DEF HasStatement
<1> QED
  BY <1>2, <1>3, <1>4 DEF FlowInvariant, Progress

LEMMA AstIds ==
  ASSUME EmitterInvariant
  PROVE  ast \subseteq (DOMAIN node) \X (DOMAIN node)
BY NodeDomain DEF EmitterInvariant, Graph, BP!BuilderInvariant, BP!TypeOK

LEMMA SameEvaluated ==
  ASSUME FlowInvariant, UNCHANGED <<node, entry, ast, cfg, order>>
  PROVE  Evaluated'
<1>1. EdgesKept
  BY DEF EdgesKept
<1> QED
  BY <1>1, AstIds, ArgumentsKept DEF FlowInvariant

(* EmitValue, ConnectReceiver, SwapOperands: nothing is created.           *)
LEMMA NoNodeFlow ==
  ASSUME FlowInvariant, EmitterInvariant', phase = "expression",
         UNCHANGED <<fn, phase, blk, cur, node, order, graph, members, flow, nodes,
                     topLevelOrder, entryPoints, exitPoints>>,
         \A i \in 1 .. Len(vals') : \E j \in 1 .. Len(vals) : vals'[i] = vals[j]
  PROVE  FlowInvariant'
<1>1. Evaluated'
  BY SameEvaluated DEF graph
<1>2. Quiet
  BY DEF Quiet, graph
<1> QED
  BY <1>1, <1>2, ExpressionStep

LEMMA ValueFlow ==
  ASSUME FlowInvariant, EmitterInvariant', EmitValue \/ ConnectReceiver
  PROVE  FlowInvariant'
<1>1. UNCHANGED <<fn, phase, blk, cur, vals, node, order, graph, members, flow, nodes,
                  topLevelOrder, entryPoints, exitPoints>> /\ phase = "expression"
  BY DEF EmitValue, ConnectReceiver, blockState, Todo
<1> QED
  BY <1>1, NoNodeFlow

LEMMA SwapFlow ==
  ASSUME FlowInvariant, EmitterInvariant', SwapOperands
  PROVE  FlowInvariant'
<1> DEFINE m == Len(vals)
<1>1. /\ phase = "expression"
      /\ UNCHANGED <<fn, phase, blk, cur, node, order, graph, members, flow, nodes,
                     topLevelOrder, entryPoints, exitPoints>>
  BY DEF SwapOperands, blockState, Todo
<1>2. EmitterInvariant /\ m \in Nat
  BY DEF FlowInvariant, EmitterInvariant, Loose
<1>3. /\ m >= 2 /\ Len(vals') = m
      /\ \A i \in 1 .. m : vals'[i] = IF i = m THEN vals[m - 1]
                                       ELSE IF i = m - 1 THEN vals[m] ELSE vals[i]
  BY <1>2, SwapStep
<1>4. \A i \in 1 .. Len(vals') : \E j \in 1 .. m : vals'[i] = vals[j]
  <2> HIDE DEF m
  <2>1. m \in 1 .. m /\ m - 1 \in 1 .. m
    BY <1>2, <1>3
  <2> QED
    BY <1>3, <2>1
<1> QED
  BY <1>1, <1>4, NoNodeFlow

LEMMA Appended ==
  ASSUME NEW S, NEW s \in Seq(S), NEW x \in S
  PROVE  /\ DOMAIN Append(s, x) = DOMAIN s \cup {Len(s) + 1} /\ Len(s) + 1 \notin DOMAIN s
         /\ Append(s, x)[Len(s) + 1] = x /\ \A k \in DOMAIN s : Append(s, x)[k] = s[k]
         /\ Len(Append(s, x)) = Len(s) + 1 /\ Append(s, x) \in Seq(S) /\ Len(s) \in Nat
OBVIOUS

LEMMA NodeCreated ==
  ASSUME EmitterInvariant, NEW task \in Created, NEW e \in {0, New}, Create(task, e)
  PROVE  /\ DOMAIN node' = DOMAIN node \cup {New} /\ New \notin DOMAIN node
         /\ node'[New] = [type |-> task.type, name |-> task.name, of |-> task.of]
         /\ \A k \in DOMAIN node : node'[k] = node[k]
         /\ entry'[New] = e /\ \A k \in DOMAIN node : entry'[k] = entry[k]
         /\ \A k \in DOMAIN node : order'[k] = order[k]
         /\ Len(vals') = Len(vals) + 1 /\ Len(vals) \in Nat /\ vals'[Len(vals) + 1] = New
         /\ \A i \in 1 .. Len(vals) : vals'[i] = vals[i]
<1> DEFINE t == [type |-> task.type, name |-> task.name, of |-> task.of]
           ids == DOMAIN node
<1>1. /\ node' = Append(node, t) /\ order' = Append(order, 0) /\ entry' = Append(entry, e)
      /\ vals' = Append(vals, New) /\ UNCHANGED <<ast, cfg>>
  BY DEF Create
<1>2. t \in NodeRecords /\ t.type # "LOCAL"
  BY DEF Created, NodeRecords
<1> HIDE DEF t
<1>3. /\ node \in Seq(NodeRecords) /\ entry \in Seq(Nat) /\ vals \in Seq(ids)
      /\ Len(entry) = Len(node) /\ Len(node) \in Nat /\ ids = 1 .. Len(node)
      /\ New = Len(node) + 1 /\ e \in Nat
  BY NodeDomain DEF EmitterInvariant, Typed, Loose, New
<1>4. order \in Seq(Nat) /\ Len(order) = Len(node)
  <2>1. order \in [1 .. Len(node) -> Nat]
    BY <1>3 DEF EmitterInvariant, Typed
  <2> QED
    BY <1>3, <2>1, SeqIsFunction
<1>5. /\ DOMAIN node' = ids \cup {New} /\ New \notin ids
      /\ node'[New] = t /\ \A k \in ids : node'[k] = node[k]
  BY <1>1, <1>2, <1>3, Appended
<1>6. entry'[New] = e /\ \A k \in ids : entry'[k] = entry[k]
  <2>1. DOMAIN entry = ids
    BY <1>3
  <2> QED
    BY <1>1, <1>3, <2>1, Appended
<1>7. \A k \in ids : order'[k] = order[k]
  <2>1. DOMAIN order = ids
    BY <1>3, <1>4, SeqMember
  <2> QED
    BY <1>1, <1>4, <2>1, Appended
<1>8. /\ Len(vals') = Len(vals) + 1 /\ Len(vals) \in Nat /\ vals'[Len(vals) + 1] = New
      /\ \A i \in 1 .. Len(vals) : vals'[i] = vals[i]
  <2>1. vals \in Seq(Nat) /\ New \in Nat
    BY <1>3
  <2> QED
    BY <1>1, <2>1, Appended
<1> QED
  BY <1>5, <1>6, <1>7, <1>8 DEF t

LEMMA CreateFlow ==
  ASSUME FlowInvariant, EmitterInvariant', phase = "expression",
         NEW task \in Created, NEW e \in {0, New}, Create(task, e),
         UNCHANGED <<fn, phase, blk, cur, receiver, members, flow, locals,
                     nodes, topLevelOrder, entryPoints, exitPoints>>
  PROVE  FlowInvariant'
<1> DEFINE t == [type |-> task.type, name |-> task.name, of |-> task.of]
           ids == DOMAIN node
<1>1. UNCHANGED <<ast, cfg>>
  BY DEF Create
<1>2. t.type # "LOCAL"
  BY DEF Created
<1> HIDE DEF t
<1>3. /\ DOMAIN node' = ids \cup {New} /\ New \notin ids
      /\ node'[New] = t /\ \A k \in ids : node'[k] = node[k]
      /\ entry'[New] = e /\ \A k \in ids : entry'[k] = entry[k]
      /\ \A k \in ids : order'[k] = order[k]
      /\ Len(vals') = Len(vals) + 1 /\ Len(vals) \in Nat /\ vals'[Len(vals) + 1] = New
      /\ \A i \in 1 .. Len(vals) : vals'[i] = vals[i]
  BY NodeCreated DEF FlowInvariant, t
<1>4. \A i \in 1 .. Len(vals') : vals'[i] = New \/ \E j \in 1 .. Len(vals) : vals'[i] = vals[j]
  <2>1. \A i \in 1 .. Len(vals) + 1 : i = Len(vals) + 1 \/ i \in 1 .. Len(vals)
    BY <1>3
  <2> QED
    BY <1>3, <2>1
<1>5. Evaluated'
  <2>1. EdgesKept
    BY <1>1, <1>3 DEF EdgesKept
  <2> QED
    BY <2>1, AstIds, ArgumentsKept DEF FlowInvariant
<1>6. Laid \subseteq ids
  BY DEF FlowInvariant, Placed, Finished
<1>7. Quiet
  <2>1. \A i \in 1 .. Len(vals') :
          \/ vals'[i] \in DOMAIN node' /\ vals'[i] \notin ids
          \/ \E j \in 1 .. Len(vals) : vals'[i] = vals[j]
    BY <1>3, <1>4
  <2> HIDE DEF ids
  <2> QED
    BY <1>2, <1>3, <1>6, <2>1 DEF Quiet, ids
<1> QED
  BY <1>5, <1>7, ExpressionStep

LEMMA NodeFlow ==
  ASSUME FlowInvariant, EmitterInvariant', EmitNode \/ BeginCall
  PROVE  FlowInvariant'
<1>1. EmitterInvariant
  BY DEF FlowInvariant
<1>2. /\ phase = "expression" /\ Head(work) \in Created
  <2>1. Todo("node") \/ Todo("begin")
    BY DEF EmitNode, BeginCall
  <2>2. phase = "expression" /\ Head(work) \in Tasks /\ Head(work).do \in {"node", "begin"}
    BY <1>1, <2>1, FirstTask
  <2> QED
    BY <2>2 DEF Tasks
<1>3. \E e \in {0, New} : Create(Head(work), e)
  BY DEF EmitNode, BeginCall
<1>4. UNCHANGED <<fn, phase, blk, cur, receiver, members, flow, locals,
                  nodes, topLevelOrder, entryPoints, exitPoints>>
  BY DEF EmitNode, BeginCall, blockState
<1> QED
  BY <1>2, <1>3, <1>4, CreateFlow

LEMMA JoinsAre ==
  ASSUME FlowInvariant, NEW a, NEW b, NEW c, JoinsVals(a, b, c)
  PROVE  /\ Joins(vals[a], SubSeq(vals, b, c), c - b + 1)
         /\ \A i \in 1 .. c - b + 1 : /\ SubSeq(vals, b, c)[i] = vals[b + i - 1]
                                     /\ b + i - 1 \in b .. c /\ b + i - 1 \in 1 .. Len(vals)
<1> DEFINE p == vals[a]
           kids == SubSeq(vals, b, c)
           ids == DOMAIN node
           n == c - b + 1
<1>1. /\ a \in 1 .. Len(vals) /\ b \in Nat /\ c \in Nat
      /\ 1 <= b /\ b <= c + 1 /\ c <= Len(vals) /\ a \notin b .. c
      /\ \A k \in ids : <<p, k>> \notin ast
      /\ ResolveConnections(p, kids)
      /\ UNCHANGED <<fn, phase, blk, cur, node, members, flow, nodes, topLevelOrder,
                     entryPoints, exitPoints>>
      /\ \A i \in 1 .. Len(vals') : \E j \in 1 .. Len(vals) : vals'[i] = vals[j]
  BY DEF JoinsVals
<1>2. /\ EmitterInvariant /\ Evaluated /\ Placed /\ Apart
      /\ vals \in Seq(ids) /\ Len(vals) \in Nat
      /\ \A i \in 1 .. Len(vals) : vals[i] \in ids
      /\ \A i, j \in 1 .. Len(vals) : i # j => vals[i] # vals[j]
      /\ \A i \in 1 .. Len(vals) : \A q \in ids : <<q, vals[i]>> \notin ast
  BY SeqMember DEF FlowInvariant, EmitterInvariant, Loose
<1>3. /\ kids \in Seq(ids) /\ Len(kids) = n /\ n \in Nat
      /\ \A i \in 1 .. n : /\ kids[i] = vals[b + i - 1] /\ b + i - 1 \in b .. c
                           /\ b + i - 1 \in 1 .. Len(vals)
  <2>1. /\ kids \in Seq(ids) /\ Len(kids) = n
        /\ \A i \in 1 .. n : kids[i] = vals[b + i - 1]
    BY <1>1, <1>2, Segment
  <2>2. n \in Nat /\ \A i \in 1 .. n : b + i - 1 \in b .. c /\ b + i - 1 \in 1 .. Len(vals)
    BY <1>1, <1>2
  <2> QED
    BY <2>1, <2>2
<1>4. \A i, j \in 1 .. n : i # j => kids[i] # kids[j]
  <2> SUFFICES ASSUME NEW i \in 1 .. n, NEW j \in 1 .. n, i # j PROVE kids[i] # kids[j]
    OBVIOUS
  <2>1. b + i - 1 # b + j - 1
    BY <1>1, <1>3
  <2> QED
    BY <1>2, <1>3, <2>1
<1>5. /\ kids \in [1 .. n -> ids] /\ DOMAIN kids = 1 .. n
      /\ (kids = <<>> <=> n = 0)
  BY <1>3, SeqIsFunction, SeqMember
<1>6. /\ order' = [k \in DOMAIN order |->
                     IF k \in Elements(kids) THEN CHOOSE i \in DOMAIN kids : kids[i] = k
                     ELSE order[k]]
      /\ Builder!Join(p, kids)
  BY <1>1 DEF ResolveConnections
<1>7. DOMAIN order = ids /\ DOMAIN entry = ids /\ p \in ids
  BY <1>1, <1>2, NodeDomain DEF EmitterInvariant, Typed
<1>8. \A i \in 1 .. n : kids[i] # p /\ kids[i] \in ids /\ \A q \in ids : <<q, kids[i]>> \notin ast
  <2> SUFFICES ASSUME NEW i \in 1 .. n
               PROVE  kids[i] # p /\ kids[i] \in ids /\ \A q \in ids : <<q, kids[i]>> \notin ast
    OBVIOUS
  <2> DEFINE j == b + i - 1
  <2>1. kids[i] = vals[j] /\ j \in 1 .. Len(vals) /\ j # a
    BY <1>1, <1>3
  <2> HIDE DEF j, kids
  <2> QED
    BY <1>1, <1>2, <2>1
<1> HIDE DEF kids, n
<1>10. /\ \A i \in 1 .. n : order'[kids[i]] = i
       /\ \A k \in ids : (\A i \in 1 .. n : kids[i] # k) => order'[k] = order[k]
  <2>1. \A k : k \in Elements(kids) <=> \E i \in 1 .. n : kids[i] = k
    BY <1>5 DEF Elements
  <2>2. \A i \in 1 .. n : (CHOOSE j \in 1 .. n : kids[j] = kids[i]) = i
    BY <1>4
  <2>3. ASSUME NEW i \in 1 .. n PROVE order'[kids[i]] = i
    BY <1>5, <1>6, <1>7, <1>8, <2>1, <2>2
  <2>4. ASSUME NEW k \in ids, \A i \in 1 .. n : kids[i] # k PROVE order'[k] = order[k]
    BY <1>6, <1>7, <2>1, <2>4
  <2> QED
    BY <2>3, <2>4
<1>11. /\ ast' = ast \cup {<<p, kids[i]>> : i \in 1 .. n}
       /\ cfg' = cfg \cup {<<kids[i], entry[kids[i + 1]]>> : i \in 1 .. n - 1}
                     \cup {<<kids[i], p>> : i \in {n} \cap 1 .. n}
       /\ entry' = [entry EXCEPT ![p] = IF n = 0 THEN p ELSE entry[kids[1]]]
  <2>1. Len(kids) = n
    BY <1>3
  <2>2. ast' = ast \cup {<<p, kids[i]>> : i \in 1 .. n}
    BY <1>6, <2>1 DEF Builder!Join, Builder!ChildEdges
  <2>3. cfg' = cfg \cup ({<<kids[i], entry[kids[i + 1]]>> : i \in 1 .. n - 1}
                     \cup {<<kids[i], p>> : i \in {n} \cap 1 .. n})
    BY <1>5, <1>6, <2>1 DEF Builder!Join, Builder!FlowEdges
  <2>4. entry' = [entry EXCEPT ![p] = IF n = 0 THEN p ELSE entry[kids[1]]]
    BY <1>5, <1>6 DEF Builder!Join, Builder!EntryOfParent
  <2> QED
    BY <2>2, <2>3, <2>4
<1>12. entry'[p] = (IF n = 0 THEN p ELSE entry[kids[1]]) /\ \A k \in ids : k # p => entry'[k] = entry[k]
  BY <1>7, <1>11
<1>13. Joins(p, kids, n)
  <2>1. \A q \in ids : <<p, q>> \notin ast /\ <<q, p>> \notin ast
    BY <1>1, <1>2
  <2> HIDE DEF p
  <2>2. DOMAIN node' = ids /\ n \in Nat
    BY <1>1, <1>3
  <2> QED
    BY <1>4, <1>5, <1>7, <1>8, <1>10, <1>11, <1>12, <2>1, <2>2 DEF Joins
<1> QED
  BY <1>3, <1>13 DEF kids, n

LEMMA JoinFlow ==
  ASSUME FlowInvariant, EmitterInvariant', phase = "expression",
         NEW a, NEW b, NEW c, JoinsVals(a, b, c)
  PROVE  FlowInvariant'
<1> DEFINE p == vals[a]
           kids == SubSeq(vals, b, c)
           ids == DOMAIN node
           n == c - b + 1
<1>1. /\ a \in 1 .. Len(vals)
      /\ UNCHANGED <<fn, phase, blk, cur, node, members, flow, nodes, topLevelOrder,
                     entryPoints, exitPoints>>
      /\ \A i \in 1 .. Len(vals') : \E j \in 1 .. Len(vals) : vals'[i] = vals[j]
  BY DEF JoinsVals
<1>2. EmitterInvariant /\ Evaluated /\ Placed /\ Apart
  BY DEF FlowInvariant
<1>3. Joins(p, kids, n) /\ \A i \in 1 .. n : \E j \in 1 .. Len(vals) : kids[i] = vals[j]
  <2>1. Joins(p, kids, n)
    BY JoinsAre, Zenon
  <2>2. \A i \in 1 .. n : /\ kids[i] = vals[b + i - 1]
                            /\ b + i - 1 \in b .. c /\ b + i - 1 \in 1 .. Len(vals)
    BY JoinsAre, Zenon
  <2> QED
    BY <2>1, <2>2
<1> HIDE DEF kids, n
<1>4. Evaluated'
  BY <1>2, <1>3, AstIds, ArgumentsJoined
<1>5. Quiet
  <2>1. \A i \in 1 .. Len(vals) : node[vals[i]].type # "LOCAL" /\ vals[i] \notin Laid
    BY <1>2 DEF Apart
  <2>2. Laid \subseteq ids
    BY <1>2 DEF Placed, Finished
  <2>3. \A k \in ids : (\A i \in 1 .. n : kids[i] # k) => order'[k] = order[k]
    BY <1>3 DEF Joins
  <2>4. \A k \in ids : k # p => entry'[k] = entry[k]
    BY <1>3 DEF Joins
  <2>5. \A k \in Laid : order'[k] = order[k] /\ entry'[k] = entry[k]
    BY <1>1, <1>3, <2>1, <2>2, <2>3, <2>4
  <2>6. \A k \in ids : node[k].type = "LOCAL" => entry'[k] = entry[k]
    BY <1>1, <2>1, <2>4
  <2> QED
    BY <1>1, <2>5, <2>6 DEF Quiet
<1> QED
  BY <1>1, <1>4, <1>5, ExpressionStep

LEMMA ResolveFlow ==
  ASSUME FlowInvariant, EmitterInvariant', ResolveUnderLast \/ ResolveUnderFirst
  PROVE  FlowInvariant'
<1>1. EmitterInvariant /\ phase = "expression"
  BY DEF FlowInvariant, ResolveUnderLast, ResolveUnderFirst, Todo
<1>2. \E a, b, c : JoinsVals(a, b, c)
  BY <1>1, ResolveUnderLastStep, ResolveUnderFirstStep
<1> QED
  BY <1>1, <1>2, JoinFlow

LEMMA VisitFlow ==
  ASSUME FlowInvariant, EmitterInvariant', VisitInstruction
  PROVE  FlowInvariant'
<1>1. /\ phase = "visit" /\ cur \in InBlock(blk)
      /\ UNCHANGED <<fn, blk, vals, node, order, graph, ref, receiver, members, flow, locals,
                     nodes, topLevelOrder, entryPoints, exitPoints>>
  BY DEF VisitInstruction, blockState
<1>2. /\ EmitterInvariant /\ Placed /\ Apart /\ Visiting /\ blk \in 1 .. NBlocks /\ blk \in Nat
      /\ WellFormed(fn) /\ fn.n \in Nat /\ cur \in 1 .. fn.n
  BY <1>1, NodeDomain DEF FlowInvariant, Progress, EmitterInvariant, Control, InBlock
<1>3. Evaluated'
  BY <1>1, SameEvaluated DEF graph
<1>4. Placed' /\ Apart' /\ PlacesStay
  <2>1. Quiet
    BY <1>1 DEF Quiet, graph
  <2> QED
    BY <1>2, <2>1, QuietPlaces
<1>5. CASE IsInlined(cur) \/ fn.kind[cur] \in NoNode
  <2>1. cur' = cur + 1 /\ phase' = phase /\ ~ HasStatement(cur)
    <3>1. cur > 0
      BY <1>2
    <3> QED
      BY <1>5, <3>1 DEF VisitInstruction, HasStatement, IsInlined
  <2>2. \A i \in 1 .. fn.n : (i < cur + 1 => fn.block[i] <= blk) /\ (fn.block[i] < blk => i < cur + 1)
    <3>1. \A i \in 1 .. fn.n : (i < cur => fn.block[i] <= blk) /\ (fn.block[i] < blk => i < cur)
      BY <1>2 DEF Visiting
    <3>2. fn.block[cur] = blk
      BY <1>1 DEF InBlock
    <3>3. \A i \in 1 .. fn.n : i < cur + 1 <=> i < cur \/ i = cur
      BY <1>2
    <3>4. blk <= blk
      BY <1>2
    <3> QED
      BY <3>1, <3>2, <3>3, <3>4
  <2>3. Len(nodes) = Cardinality({i \in ShownIn(blk) : i < cur + 1})
    <3>1. Len(nodes) = Cardinality({i \in ShownIn(blk) : i < cur})
      BY <1>1, <1>2 DEF Visiting
    <3>2. \A i \in ShownIn(blk) : i < cur + 1 <=> i < cur
      BY <1>2, <2>1 DEF ShownIn, InBlock
    <3>3. {i \in ShownIn(blk) : i < cur + 1} = {i \in ShownIn(blk) : i < cur}
      BY <3>2
    <3> QED
      BY <3>1, <3>3
  <2>4. Visiting'
    BY <1>1, <1>2, <1>4, <2>1, <2>2, <2>3, EarlierBlocks DEF Visiting
  <2> QED
    BY <1>1, <1>3, <1>4, <2>1, <2>4 DEF FlowInvariant, Progress
<1>6. CASE ~ (IsInlined(cur) \/ fn.kind[cur] \in NoNode)
  <2>1. phase' = "expression" /\ cur' = cur
    BY <1>6 DEF VisitInstruction
  <2>2. HasStatement(cur)'
    <3>1. cur > 0
      BY <1>2
    <3> QED
      BY <1>1, <1>6, <2>1, <3>1 DEF HasStatement, IsInlined
  <2>3. Visiting'
    BY <1>1, <1>2, <1>4, <2>1, VisitingStays
  <2> QED
    BY <1>3, <1>4, <2>1, <2>2, <2>3 DEF FlowInvariant, Progress
<1> QED
  BY <1>5, <1>6

----------------------------------------------------------------------------
(* EndStatement and EmitNoop lay one statement more.                       *)
LEMMA OneMore ==
  ASSUME EmitterInvariant, Placed, NEW r, r \notin Laid, r \in Finished',
         Laid' = Laid \cup {r}, nodes' = Append(nodes, r),
         order'[r] = topLevelOrder, topLevelOrder' = topLevelOrder + 1,
         \A k \in Laid : order'[k] = order[k] /\ entry'[k] = entry[k],
         DOMAIN node \subseteq DOMAIN node'
  PROVE  Placed' /\ PlacesStay
<1> DEFINE o == topLevelOrder
           m == Len(nodes)
<1>1. o \in Nat /\ nodes \in Seq(Finished) /\ m \in Nat
  BY DEF EmitterInvariant, Typed, Statements
<1>2. /\ o > 0 /\ {order[k] : k \in Laid} = 1 .. o - 1
      /\ \A k, l \in Laid : order[k] = order[l] => k = l
      /\ \A i \in 1 .. m : order[nodes[i]] = (o - 1 - m) + i
      /\ Laid \subseteq Finished
  BY DEF Placed
<1>3. {order'[k] : k \in Laid'} = 1 .. o
  <2>1. {order'[k] : k \in Laid \cup {r}} = {order[k] : k \in Laid} \cup {o}
    OBVIOUS
  <2>2. 1 .. o = (1 .. o - 1) \cup {o}
    BY <1>1, <1>2
  <2> QED
    BY <1>2, <2>1, <2>2
<1>4. \A k, l \in Laid' : order'[k] = order'[l] => k = l
  <2>1. \A k \in Laid : order[k] \in 1 .. o - 1
    BY <1>2
  <2>2. \A k \in Laid : order'[k] # o
    BY <1>1, <2>1
  <2> QED
    BY <1>2, <2>2
<1>5. /\ Len(nodes') = m + 1 /\ nodes'[m + 1] = r
      /\ \A i \in 1 .. m : nodes'[i] = nodes[i] /\ nodes[i] \in Laid
  <2>1. \A i \in 1 .. m : nodes[i] \in Laid
    BY <1>1, SeqMember DEF Laid, Elements
  <2>2. \A i \in 1 .. m : nodes'[i] = nodes[i]
    BY <1>1
  <2>3. Len(nodes') = m + 1 /\ nodes'[m + 1] = r
    BY <1>1
  <2> QED
    BY <2>1, <2>2, <2>3
<1>6. \A i \in 1 .. m + 1 : order'[nodes'[i]] = ((o + 1) - 1 - (m + 1)) + i
  <2> SUFFICES ASSUME NEW i \in 1 .. m + 1
               PROVE  order'[nodes'[i]] = ((o + 1) - 1 - (m + 1)) + i
    OBVIOUS
  <2>1. CASE i \in 1 .. m
    <3>1. order'[nodes'[i]] = (o - 1 - m) + i
      BY <1>2, <1>5, <2>1
    <3> QED
      BY <1>1, <3>1
  <2>2. CASE i = m + 1
    <3>1. order'[nodes'[i]] = o
      BY <1>5, <2>2
    <3> QED
      BY <1>1, <2>2, <3>1
  <2> QED
    BY <1>1, <2>1, <2>2
<1>7. Laid' \subseteq Finished'
  <2>1. \A k \in Laid : k \in Finished'
    BY <1>2 DEF Finished
  <2> QED
    BY <2>1
<1>8. Placed'
  <2>1. topLevelOrder' > 0 /\ topLevelOrder' - 1 = o
    BY <1>1
  <2> QED
    BY <1>3, <1>4, <1>5, <1>6, <1>7, <2>1 DEF Placed
<1>9. LaidStay
  BY DEF LaidStay
<1> QED
  BY <1>8, <1>9, PlacesKept

LEMMA StatementLaid ==
  ASSUME EmitterInvariant, EndStatement
  PROVE  /\ Len(vals) = 1 /\ vals[1] \in Finished /\ vals[1] \in DOMAIN node
         /\ \A q \in DOMAIN node : <<q, vals[1]>> \notin ast
         /\ nodes' = Append(nodes, vals[1]) /\ Laid' = Laid \cup {vals[1]}
         /\ order'[vals[1]] = topLevelOrder
         /\ \A k \in DOMAIN node : k # vals[1] => order'[k] = order[k]
<1> DEFINE r == vals[1]
           o == topLevelOrder
<1>1. /\ phase = "expression" /\ work = <<>>
      /\ order' = [order EXCEPT ![r] = o] /\ nodes' = nodes \o vals
      /\ UNCHANGED <<node, members>>
  BY DEF EndStatement
<1>2. EmitterInvariant /\ WorkFits
  BY <1>1 DEF EmitterInvariant, Control
<1>3. Len(vals) = 1 /\ r \in Finished /\ vals = <<r>>
  <2>1. PICK f \in {0, 1} : Runs(<<>>, Shape(Len(vals), Open, f), Shape(1, {}, 0))
    BY <1>1, <1>2 DEF WorkFits
  <2>2. Len(vals) = 1 /\ Open = {}
    BY <2>1, RunsNothing DEF Shape
  <2>3. vals \in Seq(DOMAIN node)
    BY <1>2 DEF EmitterInvariant, Loose
  <2>4. vals[1] \in DOMAIN node /\ entry[vals[1]] # 0
    BY <2>2, <2>3, SeqMember DEF Open
  <2>5. vals = <<vals[1]>>
    BY <2>2, <2>3
  <2> QED
    BY <2>2, <2>4, <2>5 DEF Finished
<1>4. r \in DOMAIN node /\ \A q \in DOMAIN node : <<q, r>> \notin ast
  BY <1>2, <1>3 DEF EmitterInvariant, Loose, Finished
<1>5. nodes' = Append(nodes, r) /\ Laid' = Laid \cup {r}
  <2>1. nodes \in Seq(Finished)
    BY <1>2 DEF EmitterInvariant, Statements
  <2> HIDE DEF r
  <2>2. nodes \o <<r>> = Append(nodes, r)
    BY <1>3, <2>1
  <2>3. nodes' = Append(nodes, r)
    BY <1>1, <1>3, <2>2
  <2>4. Elements(Append(nodes, r)) = Elements(nodes) \cup {r}
    <3>1. /\ DOMAIN nodes = 1 .. Len(nodes) /\ Len(nodes) \in Nat
          /\ DOMAIN Append(nodes, r) = 1 .. Len(nodes) + 1
          /\ Append(nodes, r)[Len(nodes) + 1] = r
          /\ \A i \in 1 .. Len(nodes) : Append(nodes, r)[i] = nodes[i]
      BY <2>1, <1>3
    <3>2. 1 .. Len(nodes) + 1 = (1 .. Len(nodes)) \cup {Len(nodes) + 1}
      BY <3>1
    <3> QED
      BY <3>1, <3>2 DEF Elements
  <2>5. Elements(nodes)' = Elements(nodes')
    BY DEF Elements
  <2> QED
    BY <1>1, <2>3, <2>4, <2>5 DEF Laid, StatementNodes
<1>6. order'[r] = o /\ \A k \in DOMAIN node : k # r => order'[k] = order[k]
  <2>1. DOMAIN order = DOMAIN node
    BY <1>2 DEF EmitterInvariant, Typed
  <2> QED
    BY <1>1, <1>4, <2>1
<1> QED
  BY <1>3, <1>4, <1>5, <1>6

LEMMA EndStatementFlow ==
  ASSUME FlowInvariant, EmitterInvariant', EndStatement
  PROVE  FlowInvariant'
<1> DEFINE r == vals[1]
           o == topLevelOrder
<1>1. /\ phase = "expression" /\ work = <<>>
      /\ order' = [order EXCEPT ![r] = o] /\ topLevelOrder' = o + 1
      /\ nodes' = nodes \o vals /\ vals' = <<>> /\ phase' = "visit" /\ cur' = cur + 1
      /\ UNCHANGED <<fn, blk, node, entry, ast, cfg, members, flow, entryPoints, exitPoints>>
  BY DEF EndStatement, graph
<1>2. /\ EmitterInvariant /\ Evaluated /\ Placed /\ Apart /\ Visiting /\ HasStatement(cur)
      /\ WorkFits /\ blk \in 1 .. NBlocks /\ cur \in InBlock(blk)
  BY <1>1 DEF FlowInvariant, Progress, EmitterInvariant, Control
<1>3. /\ Len(vals) = 1 /\ r \in Finished /\ r \in DOMAIN node
      /\ \A q \in DOMAIN node : <<q, r>> \notin ast
      /\ nodes' = Append(nodes, r) /\ Laid' = Laid \cup {r}
      /\ order'[r] = o /\ \A k \in DOMAIN node : k # r => order'[k] = order[k]
  BY <1>2, StatementLaid
<1>4. r \notin Laid
  BY <1>2, <1>3 DEF Apart
<1>7. Laid \subseteq DOMAIN node
  BY <1>2 DEF Placed, Finished
<1>8. Placed' /\ PlacesStay
  <2>1. r \in Finished'
    BY <1>1, <1>3 DEF Finished
  <2>2. \A k \in Laid : order'[k] = order[k] /\ entry'[k] = entry[k]
    BY <1>1, <1>3, <1>4, <1>7
  <2> HIDE DEF r
  <2> QED
    BY <1>1, <1>2, <1>3, <1>4, <2>1, <2>2, OneMore
<1>9. Evaluated'
  <2>1. EdgesKept
    BY <1>1, <1>3 DEF EdgesKept
  <2> QED
    BY <1>2, <2>1, AstIds, ArgumentsKept
<1>10. Apart'
  BY <1>1, <1>2 DEF Apart
<1>11. Visiting'
  <2>1. /\ \A b \in 1 .. blk - 1 : Landmarks(b)'
        /\ Elements(flow)' = WithinBlocks(blk - 1)'
        /\ EndOf(blk - 1)' = EndOf(blk - 1) /\ ShownIn(blk)' = ShownIn(blk)
        /\ o \in Nat /\ Len(nodes) \in Nat /\ EndOf(blk - 1) \in Nat
    BY <1>1, <1>2, <1>8, EarlierBlocks
  <2>2. WellFormed(fn) /\ fn.n \in Nat /\ cur \in 1 .. fn.n /\ fn.block[cur] = blk /\ blk \in Nat
    BY <1>2, NodeDomain DEF EmitterInvariant, InBlock
  <2>3. /\ \A i \in 1 .. fn.n : (i < cur => fn.block[i] <= blk) /\ (fn.block[i] < blk => i < cur)
        /\ o - 1 = EndOf(blk - 1) + Len(nodes)
        /\ Len(nodes) = Cardinality({i \in ShownIn(blk) : i < cur})
    BY <1>2 DEF Visiting
  <2>4. \A i \in 1 .. fn.n : i < cur + 1 <=> i < cur \/ i = cur
    BY <2>2
  <2>5. \A i \in 1 .. fn.n : (i < cur + 1 => fn.block[i] <= blk) /\ (fn.block[i] < blk => i < cur + 1)
    <3>1. blk <= blk
      BY <2>2
    <3> QED
      BY <2>2, <2>3, <2>4, <3>1
  <2>6. Len(nodes') = Len(nodes) + 1
    <3>1. nodes \in Seq(Finished)
      BY <1>2 DEF EmitterInvariant, Statements
    <3> HIDE DEF r
    <3> QED
      BY <1>3, <3>1
  <2>7. Cardinality({i \in ShownIn(blk) : i < cur + 1})
          = Cardinality({i \in ShownIn(blk) : i < cur}) + 1
    <3> DEFINE S == {i \in ShownIn(blk) : i < cur}
    <3>1. ShownIn(blk) \subseteq 1 .. fn.n /\ cur \in ShownIn(blk)
      BY <1>2 DEF ShownIn, InBlock
    <3>2. {i \in ShownIn(blk) : i < cur + 1} = S \cup {cur}
      BY <2>4, <3>1
    <3>3. cur \notin S
      BY <2>2
    <3>4. IsFiniteSet(S)
      <4>1. IsFiniteSet(ShownIn(blk)) /\ S \in SUBSET ShownIn(blk)
        BY <2>2, Counting
      <4> QED
        BY <4>1, FS_Subset
    <3>5. Cardinality(S \cup {cur}) = Cardinality(S) + 1
      BY <3>3, <3>4, FS_AddElement
    <3> QED
      BY <3>2, <3>5
  <2>8. topLevelOrder' - 1 = EndOf(blk - 1) + Len(nodes')
    <3>1. topLevelOrder' = topLevelOrder + 1
      BY <1>1
    <3> QED
      BY <2>1, <2>3, <2>6, <3>1
  <2>9. Len(nodes') = Cardinality({i \in ShownIn(blk) : i < cur + 1})
    BY <2>3, <2>6, <2>7
  <2> QED
    BY <1>1, <2>1, <2>5, <2>8, <2>9 DEF Visiting
<1> QED
  BY <1>1, <1>8, <1>9, <1>10, <1>11 DEF FlowInvariant, Progress

(* When cur has left the block, all of it has been visited.                *)
LEMMA BlockIsOver ==
  ASSUME EmitterInvariant, Visiting, phase = "visit", blk \in 1 .. NBlocks,
         cur \notin InBlock(blk)
  PROVE  /\ {i \in ShownIn(blk) : i < cur} = ShownIn(blk)
         /\ \A i \in 1 .. fn.n : i < cur <=> fn.block[i] <= blk
<1>1. /\ WellFormed(fn) /\ fn.n \in Nat /\ cur \in 1 .. fn.n + 1 /\ blk \in Nat
      /\ \A i \in 1 .. fn.n : fn.block[i] \in Nat
      /\ \A i, j \in 1 .. fn.n : i < j => fn.block[i] <= fn.block[j]
  <2>1. WellFormed(fn) /\ fn.n \in Nat /\ cur \in 1 .. fn.n + 1 /\ blk \in Nat
    BY NodeDomain DEF EmitterInvariant, Typed
  <2>2. \A i \in 1 .. fn.n : fn.block[i] \in Nat
    BY <2>1, Counting
  <2>3. \A i, j \in 1 .. fn.n : i < j => fn.block[i] <= fn.block[j]
    BY <2>1 DEF WellFormed
  <2> QED
    BY <2>1, <2>2, <2>3
<1>2. \A i \in 1 .. fn.n : (i < cur => fn.block[i] <= blk) /\ (fn.block[i] < blk => i < cur)
  BY DEF Visiting
<1>3. ASSUME NEW i \in 1 .. fn.n, ~ (i < cur) PROVE ~ (fn.block[i] <= blk)
  <2>1. cur \in 1 .. fn.n /\ i \in Nat /\ (cur < i \/ cur = i)
    BY <1>1, <1>3
  <2>2. fn.block[cur] <= fn.block[i]
    BY <1>1, <2>1
  <2>3. ~ (fn.block[cur] < blk)
    BY <1>2, <2>1
  <2>4. fn.block[cur] # blk
    BY <2>1 DEF InBlock
  <2> QED
    BY <1>1, <2>1, <2>2, <2>3, <2>4
<1>4. \A i \in 1 .. fn.n : i < cur <=> fn.block[i] <= blk
  BY <1>2, <1>3
<1>5. {i \in ShownIn(blk) : i < cur} = ShownIn(blk)
  <2>1. \A i \in ShownIn(blk) : i \in 1 .. fn.n /\ fn.block[i] <= blk
    BY <1>1 DEF ShownIn, InBlock
  <2> QED
    BY <1>4, <2>1
<1> QED
  BY <1>4, <1>5

LEMMA NoopLaid ==
  ASSUME EmitterInvariant, EmitNoop
  PROVE  /\ DOMAIN node' = DOMAIN node \cup {New} /\ New \notin DOMAIN node /\ New # 0
         /\ node'[New] = [type |-> "UNKNOWN", name |-> "noop", of |-> 0]
         /\ \A k \in DOMAIN node : node'[k] = node[k]
         /\ entry'[New] = New /\ \A k \in DOMAIN node : entry'[k] = entry[k]
         /\ order'[New] = topLevelOrder /\ \A k \in DOMAIN node : order'[k] = order[k]
         /\ nodes' = Append(nodes, New) /\ Laid' = Laid \cup {New}
<1> DEFINE t == [type |-> "UNKNOWN", name |-> "noop", of |-> 0]
           ids == DOMAIN node
           o == topLevelOrder
<1>1. /\ nodes = <<>> /\ node' = Append(node, t)
      /\ order' = Append(order, o) /\ entry' = Append(entry, New) /\ nodes' = <<New>>
      /\ UNCHANGED members
  BY DEF EmitNoop
<1>2. EmitterInvariant
  OBVIOUS
<1>3. /\ node \in Seq(NodeRecords) /\ entry \in Seq(Nat) /\ Len(entry) = Len(node)
      /\ Len(node) \in Nat /\ ids = 1 .. Len(node) /\ DOMAIN entry = ids
      /\ New = Len(node) + 1 /\ o \in Nat
      /\ order \in Seq(Nat) /\ Len(order) = Len(node) /\ DOMAIN order = ids
  <2>1. /\ node \in Seq(NodeRecords) /\ entry \in Seq(Nat) /\ Len(entry) = Len(node)
        /\ Len(node) \in Nat /\ ids = 1 .. Len(node) /\ DOMAIN entry = ids
        /\ New = Len(node) + 1 /\ o \in Nat /\ order \in [1 .. Len(node) -> Nat]
    BY <1>2, NodeDomain DEF EmitterInvariant, Typed, New
  <2> QED
    BY <2>1, SeqIsFunction
<1>4. t \in NodeRecords /\ t.type # "LOCAL"
  BY <1>2, NodeDomain DEF EmitterInvariant, NodeRecords, Names, Extern
<1> HIDE DEF t, o
<1>5. /\ DOMAIN node' = ids \cup {New} /\ New \notin ids /\ New # 0
      /\ node'[New] = t /\ \A k \in ids : node'[k] = node[k]
  BY <1>1, <1>3, <1>4, Appended
<1>6. entry'[New] = New /\ \A k \in ids : entry'[k] = entry[k]
  <2>1. New \in Nat
    BY <1>3
  <2> QED
    BY <1>1, <1>3, <2>1, Appended
<1>7. order'[New] = o /\ \A k \in ids : order'[k] = order[k]
  BY <1>1, <1>3, Appended
<1>8. nodes' = Append(nodes, New) /\ Laid' = Laid \cup {New}
  <2>1. Append(<<>>, New) = <<New>> /\ Elements(<<New>>) = {New} /\ Elements(<<>>) = {}
    BY DEF Elements
  <2>2. StatementNodes' = StatementNodes
    <3>1. \A p, k : <<p, k>> \in members => k \in ids
      BY <1>2 DEF EmitterInvariant, Edges
    <3>2. StatementNodes' = {k \in DOMAIN node' : <<BLOCK, k>> \in members /\ node'[k].type # "LOCAL"}
      BY <1>1 DEF StatementNodes, BLOCK
    <3> QED
      BY <1>5, <3>1, <3>2 DEF StatementNodes
  <2>3. Laid' = StatementNodes' \cup Elements(nodes')
    BY DEF Laid, Elements
  <2> QED
    BY <1>1, <2>1, <2>2, <2>3 DEF Laid
<1> QED
  BY <1>5, <1>6, <1>7, <1>8 DEF t, o

LEMMA NoopFlow ==
  ASSUME FlowInvariant, EmitterInvariant', EmitNoop
  PROVE  FlowInvariant'
<1> DEFINE t == [type |-> "UNKNOWN", name |-> "noop", of |-> 0]
           ids == DOMAIN node
           o == topLevelOrder
<1>1. /\ phase = "visit" /\ cur \notin InBlock(blk) /\ nodes = <<>>
      /\ node' = Append(node, t)
      /\ order' = Append(order, o) /\ entry' = Append(entry, New)
      /\ topLevelOrder' = o + 1 /\ nodes' = <<New>>
      /\ UNCHANGED <<fn, phase, blk, cur, vals, ast, cfg, members, flow,
                     entryPoints, exitPoints>>
  BY DEF EmitNoop
<1>2. /\ EmitterInvariant /\ Evaluated /\ Placed /\ Apart /\ Visiting
      /\ vals = <<>> /\ blk \in 1 .. NBlocks
  BY <1>1 DEF FlowInvariant, Progress, EmitterInvariant, Control
<1>3. /\ DOMAIN node' = ids \cup {New} /\ New \notin ids
      /\ node'[New] = t /\ \A k \in ids : node'[k] = node[k]
      /\ entry'[New] = New /\ \A k \in ids : entry'[k] = entry[k]
      /\ New # 0
      /\ order'[New] = o /\ \A k \in ids : order'[k] = order[k]
      /\ nodes' = Append(nodes, New) /\ Laid' = Laid \cup {New}
  BY <1>2, NoopLaid, Zenon
<1>4. t.type # "LOCAL" /\ o \in Nat
  BY <1>2 DEF EmitterInvariant, Typed
<1> HIDE DEF t, o
<1>8. Laid \subseteq ids
  BY <1>2 DEF Placed, Finished
<1>10. Placed' /\ PlacesStay
  <2>1. New \in Finished'
    BY <1>3 DEF Finished
  <2>2. \A k \in Laid : order'[k] = order[k] /\ entry'[k] = entry[k]
    BY <1>3, <1>8
  <2>3. New \notin Laid /\ ids \subseteq DOMAIN node'
    BY <1>3, <1>8
  <2>4. order'[New] = topLevelOrder /\ topLevelOrder' = topLevelOrder + 1
    BY <1>1, <1>3 DEF o
  <2> QED
    BY <1>2, <1>3, <2>1, <2>2, <2>3, <2>4, OneMore
<1>11. Evaluated'
  <2>1. EdgesKept
    BY <1>1, <1>3 DEF EdgesKept
  <2> QED
    BY <1>2, <2>1, AstIds, ArgumentsKept
<1>12. Apart'
  <2>1. \A k \in DOMAIN node' : node'[k].type = "LOCAL" => k \in ids
    BY <1>3, <1>4
  <2>2. \A k \in DOMAIN node' : node'[k].type = "LOCAL" => entry'[k] = 0
    BY <1>2, <1>3, <2>1 DEF Apart
  <2>3. 1 .. Len(vals') = {}
    BY <1>1, <1>2
  <2> QED
    BY <2>2, <2>3 DEF Apart
<1>13. Visiting'
  <2>1. /\ \A b \in 1 .. blk - 1 : Landmarks(b)'
        /\ Elements(flow)' = WithinBlocks(blk - 1)'
        /\ EndOf(blk - 1)' = EndOf(blk - 1)
        /\ InBlock(blk)' = InBlock(blk) /\ IsEmpty(blk)' = IsEmpty(blk)
        /\ EndOf(blk - 1) \in Nat
    BY <1>1, <1>2, <1>10, EarlierBlocks
  <2>2. o - 1 = EndOf(blk - 1)
    <3>1. o - 1 = EndOf(blk - 1) + Len(nodes) /\ Len(nodes) = 0
      BY <1>1, <1>2 DEF Visiting, o
    <3> QED
      BY <2>1, <3>1
  <2>3. IsEmpty(blk)
    <3>1. Len(nodes) = 0
      BY <1>1
    <3>2. 0 = Cardinality({i \in ShownIn(blk) : i < cur})
      BY <1>1, <1>2, <3>1 DEF Visiting
    <3>3. {i \in ShownIn(blk) : i < cur} = ShownIn(blk)
      BY <1>1, <1>2, BlockIsOver
    <3>4. WellFormed(fn) /\ blk \in Nat
      BY <1>2, NodeDomain DEF EmitterInvariant
    <3> QED
      BY <3>2, <3>3, <3>4, Counting
  <2>4. Len(nodes') = 1
    BY <1>1
  <2>5. topLevelOrder' - 1 = EndOf(blk - 1) + 1
    <3>1. topLevelOrder' = o + 1
      BY <1>1
    <3> QED
      BY <1>4, <2>2, <3>1
  <2>6. \A i \in 1 .. fn.n : (i < cur => fn.block[i] <= blk) /\ (fn.block[i] < blk => i < cur)
    BY <1>2 DEF Visiting
  <2> QED
    BY <1>1, <2>1, <2>3, <2>4, <2>5, <2>6 DEF Visiting
<1> QED
  BY <1>1, <1>10, <1>11, <1>12, <1>13 DEF FlowInvariant, Progress

LEMMA ElementsOfJoined ==
  ASSUME NEW S, NEW s \in Seq(S), NEW t \in Seq(S)
  PROVE  Elements(s \o t) = Elements(s) \cup Elements(t)
<1>1. /\ DOMAIN s = 1 .. Len(s) /\ Len(s) \in Nat /\ DOMAIN t = 1 .. Len(t) /\ Len(t) \in Nat
  BY SeqMember
<1>2. /\ DOMAIN (s \o t) = 1 .. Len(s) + Len(t)
      /\ \A i \in 1 .. Len(s) + Len(t) :
           (s \o t)[i] = IF i <= Len(s) THEN s[i] ELSE t[i - Len(s)]
  <2>1. /\ s \o t \in Seq(S) /\ Len(s \o t) = Len(s) + Len(t)
        /\ \A i \in 1 .. Len(s) + Len(t) :
             (s \o t)[i] = IF i <= Len(s) THEN s[i] ELSE t[i - Len(s)]
    BY ConcatProperties
  <2> QED
    BY <2>1, SeqMember
<1>3. ASSUME NEW x \in Elements(s \o t) PROVE x \in Elements(s) \cup Elements(t)
  <2>1. PICK i \in 1 .. Len(s) + Len(t) : x = (s \o t)[i]
    BY <1>2 DEF Elements
  <2>2. CASE i <= Len(s)
    <3>1. i \in DOMAIN s /\ x = s[i]
      BY <1>1, <1>2, <2>1, <2>2
    <3> QED
      BY <3>1 DEF Elements
  <2>3. CASE ~ (i <= Len(s))
    <3>1. i - Len(s) \in DOMAIN t
      BY <1>1, <2>3
    <3>2. x = t[i - Len(s)]
      BY <1>2, <2>1, <2>3
    <3> QED
      BY <3>1, <3>2 DEF Elements
  <2> QED
    BY <2>2, <2>3
<1>4. ASSUME NEW x \in Elements(s) PROVE x \in Elements(s \o t)
  <2>1. PICK i \in 1 .. Len(s) : x = s[i]
    BY <1>1 DEF Elements
  <2>2. i \in 1 .. Len(s) + Len(t) /\ i <= Len(s)
    BY <1>1
  <2>3. x = (s \o t)[i]
    BY <1>2, <2>1, <2>2
  <2> QED
    BY <1>2, <2>2, <2>3 DEF Elements
<1>5. ASSUME NEW x \in Elements(t) PROVE x \in Elements(s \o t)
  <2>1. PICK i \in 1 .. Len(t) : x = t[i]
    BY <1>1 DEF Elements
  <2> DEFINE j == Len(s) + i
  <2>2. j \in 1 .. Len(s) + Len(t) /\ ~ (j <= Len(s)) /\ j - Len(s) = i
    BY <1>1
  <2>3. x = (s \o t)[j]
    BY <1>2, <2>1, <2>2
  <2> QED
    BY <1>2, <2>2, <2>3 DEF Elements
<1> QED
  BY <1>3, <1>4, <1>5

(* EndBlock: the places of its statements say which edges it adds.         *)
LEMMA BlockLaid ==
  ASSUME EmitterInvariant, Apart, EndBlock
  PROVE  Laid' = Laid
<1> DEFINE ids == DOMAIN node
<1>1. /\ members' = members \cup {<<BLOCK, k>> : k \in Elements(nodes)}
      /\ nodes' = <<>> /\ node' = node
  BY DEF EndBlock
<1>2. \A k \in Elements(nodes) : k \in ids /\ node[k].type # "LOCAL"
  <2>1. nodes \in Seq(Finished)
    BY DEF EmitterInvariant, Statements
  <2> QED
    BY <2>1, SeqMember DEF Elements, Finished, Apart
<1>3. StatementNodes' = StatementNodes \cup Elements(nodes)
  <2>1. \A k : <<BLOCK, k>> \in members' <=> <<BLOCK, k>> \in members \/ k \in Elements(nodes)
    BY <1>1
  <2>2. StatementNodes' = {k \in ids : <<BLOCK, k>> \in members' /\ node[k].type # "LOCAL"}
    BY <1>1 DEF StatementNodes, BLOCK
  <2> QED
    BY <1>2, <2>1, <2>2 DEF StatementNodes
<1>4. Elements(nodes)' = {}
  BY <1>1 DEF Elements
<1>5. Laid' = StatementNodes' \cup Elements(nodes)'
  BY DEF Laid
<1> QED
  BY <1>3, <1>4, <1>5 DEF Laid

LEMMA EndBlockFlow ==
  ASSUME FlowInvariant, EmitterInvariant', EndBlock
  PROVE  FlowInvariant'
<1> DEFINE m == Len(nodes)
           o == topLevelOrder
           e == EndOf(blk - 1)
           ids == DOMAIN node
           new == [i \in 1 .. m - 1 |-> <<nodes[i], entry[nodes[i + 1]]>>]
<1>1. /\ phase = "visit" /\ nodes # <<>> /\ cur \notin InBlock(blk)
      /\ entryPoints' = Append(entryPoints, nodes[1])
      /\ exitPoints' = Append(exitPoints, nodes[m])
      /\ members' = members \cup {<<BLOCK, k>> : k \in Elements(nodes)}
      /\ flow' = flow \o new /\ nodes' = <<>>
      /\ UNCHANGED <<fn, cur, vals, node, order, entry, ast, cfg, topLevelOrder>>
  BY DEF EndBlock, graph
<1>2. \/ blk = NBlocks /\ phase' = "method" /\ blk' = blk
      \/ blk # NBlocks /\ blk' = blk + 1 /\ phase' = "visit"
  BY <1>1 DEF EndBlock
<1>3. /\ EmitterInvariant /\ Evaluated /\ Placed /\ Apart /\ Visiting
      /\ vals = <<>> /\ blk \in 1 .. NBlocks
      /\ Len(entryPoints) = blk - 1 /\ Len(exitPoints) = blk - 1
  BY <1>1 DEF FlowInvariant, Progress, EmitterInvariant, Control
<1>4. /\ WellFormed(fn) /\ fn.n \in Nat /\ NBlocks \in Nat /\ blk \in Nat /\ blk > 0
      /\ o \in Nat /\ e \in Nat /\ EndOf(blk) \in Nat /\ blk - 1 \in Nat
      /\ EndOf(blk) = e + (IF IsEmpty(blk) THEN 1 ELSE Cardinality(ShownIn(blk)))
  <2>1. WellFormed(fn) /\ fn.n \in Nat /\ NBlocks \in Nat /\ blk \in Nat /\ blk > 0 /\ o \in Nat
    <3>1. WellFormed(fn) /\ fn.n \in Nat /\ NBlocks \in Nat /\ o \in Nat
      BY <1>3, NodeDomain DEF EmitterInvariant, Typed
    <3> QED
      BY <1>3, <3>1
  <2> QED
    BY <2>1, EndOfBlock
<1>5. /\ nodes \in Seq(Finished) /\ m \in Nat /\ m >= 1 /\ DOMAIN nodes = 1 .. m
      /\ \A i \in 1 .. m : nodes[i] \in Finished
      /\ entryPoints \in Seq(Finished) /\ exitPoints \in Seq(Finished)
  BY <1>1, <1>3, SeqMember DEF EmitterInvariant, Statements
<1>6. /\ o - 1 = e + m /\ EndOf(blk) = e + m
      /\ e \in Nat /\ m \in Nat /\ m >= 1 /\ o \in Nat
  <2>1. o - 1 = e + m
    BY <1>3 DEF Visiting
  <2>2. m = IF IsEmpty(blk) THEN 1 ELSE Cardinality(ShownIn(blk))
    <3>1. {i \in ShownIn(blk) : i < cur} = ShownIn(blk)
      BY <1>1, <1>3, BlockIsOver
    <3>2. \/ m = Cardinality(ShownIn(blk))
          \/ IsEmpty(blk) /\ m = 1
      BY <1>3, <3>1 DEF Visiting
    <3>3. Cardinality(ShownIn(blk)) = 0 <=> IsEmpty(blk)
      BY <1>4, Counting
    <3> HIDE DEF m
    <3> QED
      BY <1>5, <3>2, <3>3
  <2> QED
    BY <1>4, <1>5, <2>1, <2>2
<1>7. Laid' = Laid
  BY <1>1, <1>3, BlockLaid
<1>8. Placed' /\ PlacesStay
  <2>1. Placed'
    <3>1. Len(nodes') = 0 /\ 1 .. Len(nodes') = {}
      BY <1>1
    <3>2. Finished' = Finished
      BY <1>1 DEF Finished
    <3> QED
      BY <1>1, <1>3, <1>7, <3>1, <3>2 DEF Placed
  <2>2. LaidStay
    BY <1>1, <1>7 DEF LaidStay
  <2> QED
    BY <1>3, <2>1, <2>2, PlacesKept
<1>9. Evaluated' /\ Apart'
  <2>1. EdgesKept
    BY <1>1 DEF EdgesKept
  <2>2. 1 .. Len(vals') = {}
    BY <1>1, <1>3
  <2> QED
    BY <1>1, <1>3, <2>1, <2>2, AstIds, ArgumentsKept DEF Apart
<1>10. \A i \in 1 .. m : nodes[i] = Place(e + i)
  <2> SUFFICES ASSUME NEW i \in 1 .. m PROVE nodes[i] = Place(e + i)
    OBVIOUS
  <2>1. nodes[i] \in Laid
    BY <1>5 DEF Laid, Elements
  <2>2. order[nodes[i]] = (o - 1 - m) + i
    BY <1>3 DEF Placed
  <2>3. (o - 1 - m) + i = e + i
    <3> HIDE DEF o, m, e
    <3> QED
      BY <1>6
  <2>4. Place(order[nodes[i]]) = nodes[i]
    BY <1>3, <2>1, AtPlace
  <2> QED
    BY <2>2, <2>3, <2>4
<1>11. Elements(flow') = WithinBlocks(blk)
  <2>1. flow \in Seq(ids \X ids)
    BY <1>3 DEF EmitterInvariant, Edges
  <2>2. new \in Seq(ids \X ids)
    <3>1. \A i \in 1 .. m - 1 : <<nodes[i], entry[nodes[i + 1]]>> \in ids \X ids
      <4>1. \A k \in Finished : k \in ids /\ entry[k] \in ids
        BY <1>3, EntryIds
      <4>2. \A i \in 1 .. m - 1 : i \in 1 .. m /\ i + 1 \in 1 .. m
        BY <1>5
      <4> QED
        BY <1>5, <4>1, <4>2
    <3>2. m - 1 \in Nat
      BY <1>6
    <3> DEFINE k == m - 1
    <3>3. new \in [1 .. k -> ids \X ids]
      BY <3>1
    <3> HIDE DEF k, new
    <3>4. k \in Nat
      BY <3>2 DEF k
    <3> QED
      BY <3>3, <3>4, SeqIsFunction
  <2> DEFINE pairs == ids \X ids
  <2>3. Elements(flow \o new) = Elements(flow) \cup Elements(new)
    <3> HIDE DEF new, pairs
    <3>1. flow \in Seq(pairs) /\ new \in Seq(pairs)
      BY <2>1, <2>2 DEF pairs
    <3> QED
      BY <3>1, ElementsOfJoined
  <2>4. Elements(new) = {<<nodes[i], entry[nodes[i + 1]]>> : i \in 1 .. m - 1}
    BY DEF Elements
  <2>5. {<<nodes[i], entry[nodes[i + 1]]>> : i \in 1 .. m - 1} = WithinBlock(blk)
    <3> DEFINE A == {<<nodes[i], entry[nodes[i + 1]]>> : i \in 1 .. m - 1}
               B == {<<Place(p), entry[Place(p + 1)]>> : p \in e + 1 .. EndOf(blk) - 1}
    <3>1. ASSUME NEW i \in 1 .. m - 1
          PROVE  \E p \in e + 1 .. EndOf(blk) - 1 :
                   <<nodes[i], entry[nodes[i + 1]]>> = <<Place(p), entry[Place(p + 1)]>>
      <4>1. /\ i \in 1 .. m /\ i + 1 \in 1 .. m /\ e + (i + 1) = (e + i) + 1
            /\ e + i \in e + 1 .. EndOf(blk) - 1
        <5> HIDE DEF m, e
        <5> QED
          BY <1>6
      <4>2. nodes[i] = Place(e + i) /\ nodes[i + 1] = Place((e + i) + 1)
        BY <1>10, <4>1
      <4> QED
        BY <4>1, <4>2
    <3>2. ASSUME NEW p \in e + 1 .. EndOf(blk) - 1
          PROVE  \E i \in 1 .. m - 1 :
                   <<nodes[i], entry[nodes[i + 1]]>> = <<Place(p), entry[Place(p + 1)]>>
      <4> DEFINE i == p - e
      <4>1. /\ i \in 1 .. m /\ i + 1 \in 1 .. m /\ i \in 1 .. m - 1
            /\ e + i = p /\ e + (i + 1) = p + 1
        <5> HIDE DEF m, e
        <5> QED
          BY <1>6
      <4> HIDE DEF i
      <4>2. nodes[i] = Place(p) /\ nodes[i + 1] = Place(p + 1)
        BY <1>10, <4>1
      <4> QED
        BY <4>1, <4>2
    <3>3. A = B
      <4>1. ASSUME NEW z \in A PROVE z \in B
        <5>1. PICK i \in 1 .. m - 1 : z = <<nodes[i], entry[nodes[i + 1]]>>
          OBVIOUS
        <5> QED
          BY <3>1, <5>1
      <4>2. ASSUME NEW z \in B PROVE z \in A
        <5>1. PICK p \in e + 1 .. EndOf(blk) - 1 : z = <<Place(p), entry[Place(p + 1)]>>
          OBVIOUS
        <5> QED
          BY <3>2, <5>1
      <4> HIDE DEF A, B
      <4> QED
        BY <4>1, <4>2
    <3> QED
      BY <3>3 DEF WithinBlock
  <2>6. WithinBlocks(blk) = WithinBlocks(blk - 1) \cup WithinBlock(blk)
    <3>1. 1 .. blk = (1 .. blk - 1) \cup {blk}
      BY <1>4
    <3> QED
      BY <3>1 DEF WithinBlocks
  <2>7. Elements(flow) = WithinBlocks(blk - 1)
    BY <1>3 DEF Visiting
  <2> HIDE DEF new
  <2> QED
    BY <1>1, <2>3, <2>4, <2>5, <2>6, <2>7
<1>12. PICK b \in Nat : b = blk
  BY <1>4
<1>13. Elements(flow)' = WithinBlocks(b)' /\ \A c \in 1 .. b : Landmarks(c)'
  <2>1. EndOf(b) = o - 1
    BY <1>6, <1>12
  <2>2. /\ WithinBlocks(b)' = WithinBlocks(b)
        /\ \A c \in 1 .. b :
             /\ Landmarks(c) /\ entryPoints'[c] = entryPoints[c] /\ exitPoints'[c] = exitPoints[c]
                  => Landmarks(c)'
             /\ Place(EndOf(c - 1) + 1)' = Place(EndOf(c - 1) + 1)
             /\ Place(EndOf(c))' = Place(EndOf(c))
    <3>1. EndOf(b) <= topLevelOrder - 1 /\ topLevelOrder \in Nat
      BY <1>4, <2>1
    <3> QED
      BY <1>1, <1>4, <1>8, <3>1, BlocksStay
  <2>3. Elements(flow)' = WithinBlocks(b)'
    <3>1. Elements(flow)' = Elements(flow')
      BY DEF Elements
    <3> QED
      BY <1>11, <1>12, <2>2, <3>1
  <2> DEFINE x == nodes[1]
             y == nodes[m]
  <2>4. /\ entryPoints'[b] = x /\ exitPoints'[b] = y
        /\ \A c \in 1 .. b - 1 : entryPoints'[c] = entryPoints[c] /\ exitPoints'[c] = exitPoints[c]
    <3>1. x \in Finished /\ y \in Finished
      BY <1>5
    <3> HIDE DEF x, y
    <3>2. Len(entryPoints) + 1 = b /\ Len(exitPoints) + 1 = b
          /\ DOMAIN entryPoints = 1 .. b - 1 /\ DOMAIN exitPoints = 1 .. b - 1
      BY <1>3, <1>4, <1>5, <1>12, SeqMember
    <3>3. entryPoints' = Append(entryPoints, x) /\ exitPoints' = Append(exitPoints, y)
      BY <1>1 DEF x, y
    <3> QED
      BY <1>5, <3>1, <3>2, <3>3, Appended
  <2>5. Landmarks(b)'
    <3>1. x = Place(e + 1) /\ y = Place(e + m)
      BY <1>5, <1>10
    <3>2. e = EndOf(b - 1) /\ e + m = EndOf(b) /\ b \in 1 .. b
      BY <1>4, <1>6, <1>12
    <3>3. x = Place(EndOf(b - 1) + 1) /\ y = Place(EndOf(b))
      BY <3>1, <3>2
    <3> HIDE DEF x, y
    <3> QED
      BY <2>2, <2>4, <3>2, <3>3 DEF Landmarks
  <2>6. ASSUME NEW c \in 1 .. b - 1 PROVE Landmarks(c)'
    <3>1. c \in 1 .. b
      OBVIOUS
    <3>2. Landmarks(c)
      BY <1>3, <1>12 DEF Visiting
    <3> QED
      BY <2>2, <2>4, <3>1, <3>2
  <2>7. \A c \in 1 .. b : c = b \/ c \in 1 .. b - 1
    OBVIOUS
  <2> QED
    BY <2>3, <2>5, <2>6, <2>7
<1>14. \A c : EndOf(c)' = EndOf(c) /\ ShownIn(c)' = ShownIn(c) /\ InBlock(c)' = InBlock(c)
  BY <1>1, EndOfSame
<1>15. CASE blk = NBlocks
  <2>1. phase' = "method" /\ NBlocks' = b
    BY <1>1, <1>2, <1>12, <1>15 DEF NBlocks
  <2>2. topLevelOrder' - 1 = EndOf(b)'
    BY <1>1, <1>6, <1>12, <1>14
  <2>3. LaidOut' /\ Elements(flow)' = WithinBlocks(NBlocks)'
    BY <1>1, <1>13, <2>1, <2>2 DEF LaidOut
  <2> QED
    BY <1>8, <1>9, <2>1, <2>3 DEF FlowInvariant, Progress
<1>16. CASE blk # NBlocks
  <2>1. phase' = "visit" /\ blk' = b + 1 /\ blk' - 1 = b
    BY <1>2, <1>4, <1>12, <1>16
  <2>2. topLevelOrder' - 1 = EndOf(b)'
    BY <1>1, <1>6, <1>12, <1>14
  <2>3. \A i \in 1 .. fn.n : i < cur <=> fn.block[i] <= b
    BY <1>1, <1>3, <1>12, BlockIsOver
  <2>4. \A i \in 1 .. fn.n : fn.block[i] \in Nat
    BY <1>4, Counting
  <2>5. \A i \in 1 .. fn.n : (i < cur => fn.block[i] <= b + 1) /\ (fn.block[i] < b + 1 => i < cur)
    BY <2>3, <2>4
  <2>6. Len(nodes') = Cardinality({i \in ShownIn(b + 1) : i < cur})
    <3>1. \A i \in ShownIn(b + 1) : ~ (i < cur)
      BY <2>3, <2>4 DEF ShownIn, InBlock
    <3>2. {i \in ShownIn(b + 1) : i < cur} = {}
      BY <3>1
    <3>3. Cardinality({i \in ShownIn(b + 1) : i < cur}) = 0
      BY <3>2, FS_EmptySet
    <3> QED
      BY <1>1, <3>3
  <2>7. Visiting'
    <3>1. /\ \A i \in 1 .. fn.n : (i < cur => fn.block[i] <= blk)' /\ (fn.block[i] < blk => i < cur)'
          /\ (topLevelOrder - 1)' = EndOf(blk - 1)' + Len(nodes)'
      <4>1. EndOf(blk - 1)' = EndOf(b)'
        BY <2>1
      <4>2. Len(nodes)' = 0
        BY <1>1
      <4>3. EndOf(b) \in Nat
        BY <1>4, <1>12
      <4> QED
        BY <1>1, <1>14, <2>1, <2>2, <2>5, <4>1, <4>2, <4>3
    <3>2. ShownIn(blk)' = ShownIn(b + 1)
      BY <1>14, <2>1
    <3>3. /\ \A c \in 1 .. b : Landmarks(c)' 
          /\ Elements(flow)' = WithinBlocks(blk - 1)'
      BY <1>13, <2>1
    <3> QED
      BY <1>1, <2>1, <2>6, <3>1, <3>2, <3>3 DEF Visiting
  <2> QED
    BY <1>8, <1>9, <2>1, <2>7 DEF FlowInvariant, Progress
<1> QED
  BY <1>15, <1>16

----------------------------------------------------------------------------
(* Once all blocks are laid out, only flow is added.                       *)
LEMMA OnlyFlow ==
  ASSUME EmitterInvariant, Evaluated, Placed, Apart,
         UNCHANGED <<node, order, entry, ast, cfg, members, nodes, topLevelOrder, vals>>
  PROVE  Evaluated' /\ Placed' /\ Apart' /\ PlacesStay
<1>1. Quiet
  BY DEF Quiet
<1>2. EdgesKept
  BY DEF EdgesKept
<1> QED
  BY <1>1, <1>2, QuietPlaces, AstIds, ArgumentsKept

LEMMA LaidOutStays ==
  ASSUME EmitterInvariant, LaidOut, PlacesStay, NBlocks > 0,
         UNCHANGED <<fn, nodes, topLevelOrder, entryPoints, exitPoints>>
  PROVE  /\ LaidOut' /\ WithinBlocks(NBlocks)' = WithinBlocks(NBlocks)
         /\ \A b \in 0 .. NBlocks : BlockExits(b)' = BlockExits(b)
         /\ Place(1)' = Place(1) /\ entry'[Place(1)] = entry[Place(1)]
         /\ EndOf(0) = 0
<1>1. WellFormed(fn) /\ NBlocks \in Nat /\ topLevelOrder \in Nat
  BY NodeDomain DEF EmitterInvariant, Typed
<1>2. PICK n \in Nat : n = NBlocks
  BY <1>1
<1>3. NBlocks' = n
  BY <1>2 DEF NBlocks
<1>4. topLevelOrder - 1 = EndOf(n) /\ \A b \in 1 .. n : Landmarks(b)
  BY <1>2 DEF LaidOut
<1>5. /\ WithinBlocks(n)' = WithinBlocks(n)
      /\ \A b \in 1 .. n :
           /\ Landmarks(b) /\ entryPoints'[b] = entryPoints[b] /\ exitPoints'[b] = exitPoints[b]
                => Landmarks(b)'
           /\ Place(EndOf(b - 1) + 1)' = Place(EndOf(b - 1) + 1)
           /\ entry'[Place(EndOf(b - 1) + 1)] = entry[Place(EndOf(b - 1) + 1)]
           /\ Place(EndOf(b))' = Place(EndOf(b))
  <2>1. EndOf(n) <= topLevelOrder - 1
    <3>1. EndOf(n) \in Nat
      BY <1>1, Counting
    <3> QED
      BY <1>4, <3>1
  <2> QED
    BY <1>1, <2>1, BlocksStay
<1>6. \A b : EndOf(b)' = EndOf(b) /\ Terminator(b)' = Terminator(b)
  BY EndOfSame
<1>7. LaidOut'
  <2>1. \A b \in 1 .. n : Landmarks(b)'
    BY <1>4, <1>5
  <2> QED
    BY <1>3, <1>4, <1>6, <2>1 DEF LaidOut
<1>8. ASSUME NEW b \in 1 .. n PROVE BlockExit(b)' = BlockExit(b)
  <2>1. \A c \in Elements(fn.succ[b]) : c \in 1 .. n
    <3>1. fn.succ \in Seq(Seq(1 .. n)) /\ Len(fn.succ) = n
      BY <1>1, <1>2 DEF WellFormed, NBlocks
    <3>2. fn.succ[b] \in Seq(1 .. n)
      BY <3>1, SeqMember
    <3> QED
      BY <3>2, SeqMember DEF Elements
  <2>2. Elements(fn.succ[b])' = Elements(fn.succ[b])
    BY DEF Elements
  <2> DEFINE targets == {<<Place(EndOf(b)), entry[Place(EndOf(c - 1) + 1)]>> : c \in Elements(fn.succ[b])}
  <2>3. targets' = targets
    <3> DEFINE at(c) == Place(EndOf(c - 1) + 1)
    <3>1. \A c \in 1 .. n : entry'[at(c)'] = entry[at(c)]
      BY <1>5
    <3>2. Place(EndOf(b))' = Place(EndOf(b))
      BY <1>5
    <3>3. targets' = {<<Place(EndOf(b))', entry'[at(c)']>> : c \in Elements(fn.succ[b])}
      BY <2>2
    <3>4. targets = {<<Place(EndOf(b)), entry[at(c)]>> : c \in Elements(fn.succ[b])}
      OBVIOUS
    <3> HIDE DEF at, targets
    <3> QED
      BY <2>1, <3>1, <3>2, <3>3, <3>4
  <2> HIDE DEF targets
  <2> QED
    BY <1>5, <1>6, <2>3 DEF BlockExit, targets, METHOD_RETURN
<1>9. ASSUME NEW b \in 0 .. n PROVE BlockExits(b)' = BlockExits(b)
  <2>1. \A c \in 1 .. b : c \in 1 .. n
    OBVIOUS
  <2> QED
    BY <1>8, <2>1 DEF BlockExits
<1>10. EndOf(0) = 0
  BY <1>1, EndOfNone
<1>11. Place(1)' = Place(1) /\ entry'[Place(1)] = entry[Place(1)]
  <2>1. n > 0 /\ EndOf(0) <= EndOf(n) /\ EndOf(n) \in Nat
        /\ EndOf(1 - 1) < EndOf(1) /\ EndOf(1) <= EndOf(n) /\ EndOf(1) \in Nat
    <3>1. 0 \in Nat /\ 1 \in Nat /\ 0 <= n /\ 1 <= n /\ 1 > 0
      BY <1>1, <1>2
    <3> QED
      BY <1>1, <1>2, <3>1, EndsInOrder, EndOfBlock, Counting
  <2>2. 1 \in 1 .. topLevelOrder - 1
    <3>1. 1 - 1 = 0
      OBVIOUS
    <3> QED
      BY <1>1, <1>4, <1>10, <2>1, <3>1
  <2> QED
    BY <2>2 DEF PlacesStay
<1> QED
  BY <1>2, <1>3, <1>5, <1>7, <1>9, <1>10, <1>11

LEMMA ConnectMethodFlow ==
  ASSUME FlowInvariant, EmitterInvariant', ConnectMethod
  PROVE  FlowInvariant'
<1> DEFINE first == <<METHOD, entry[entryPoints[1]]>>
<1>1. /\ phase = "method" /\ phase' = "terminators" /\ blk' = 1
      /\ flow' = Append(flow, first)
      /\ UNCHANGED <<fn, vals, node, order, entry, ast, cfg, members,
                     nodes, topLevelOrder, entryPoints, exitPoints>>
  BY DEF ConnectMethod, blockState, graph
<1>2. /\ EmitterInvariant /\ Evaluated /\ Placed /\ Apart /\ LaidOut
      /\ Elements(flow) = WithinBlocks(NBlocks)
      /\ NBlocks \in Nat /\ NBlocks > 0 /\ Len(entryPoints) = NBlocks
  <2>1. EmitterInvariant /\ Evaluated /\ Placed /\ Apart /\ LaidOut
        /\ Elements(flow) = WithinBlocks(NBlocks) /\ blk \in 1 .. NBlocks
        /\ Len(entryPoints) = NBlocks
    BY <1>1 DEF FlowInvariant, Progress, EmitterInvariant, Control
  <2>2. NBlocks \in Nat
    BY <2>1, NodeDomain DEF EmitterInvariant
  <2> QED
    BY <2>1, <2>2
<1>3. Evaluated' /\ Placed' /\ Apart' /\ PlacesStay
  BY <1>1, <1>2, OnlyFlow
<1>4. /\ LaidOut' /\ WithinBlocks(NBlocks)' = WithinBlocks(NBlocks)
      /\ Place(1)' = Place(1) /\ entry'[Place(1)] = entry[Place(1)]
      /\ EndOf(0) = 0
  BY <1>1, <1>2, <1>3, LaidOutStays
<1>5. first = <<METHOD, entry[Place(1)]>>
  <2>1. Landmarks(1)
    BY <1>2 DEF LaidOut
  <2>2. 1 - 1 = 0 /\ 0 + 1 = 1
    OBVIOUS
  <2> QED
    BY <1>4, <2>1, <2>2 DEF Landmarks
<1>6. Elements(flow)' = Elements(flow) \cup {first}
  <2> DEFINE pairs == (DOMAIN node) \X (DOMAIN node)
  <2>1. flow \in Seq(pairs) /\ flow' \in Seq(pairs)
    BY <1>1, <1>2 DEF EmitterInvariant, Edges
  <2> HIDE DEF first, pairs
  <2>2. flow' = flow \o <<first>> /\ Elements(<<first>>) = {first} /\ first \in pairs
        /\ <<first>> \in Seq(pairs)
    <3>1. flow' = flow \o <<first>>
      BY <1>1, <2>1
    <3>2. Len(flow) \in Nat /\ Len(flow') = Len(flow) + 1 /\ flow'[Len(flow) + 1] = first
          /\ Len(flow) + 1 \in 1 .. Len(flow')
      BY <1>1, <2>1
    <3>3. first \in pairs
      BY <2>1, <3>2, SeqMember
    <3>4. Elements(<<first>>) = {first}
      BY DEF Elements
    <3> QED
      BY <3>1, <3>3, <3>4
  <2>3. Elements(flow \o <<first>>) = Elements(flow) \cup {first}
    <3> DEFINE last == <<first>>
    <3>1. last \in Seq(pairs)
      BY <2>2
    <3> HIDE DEF last
    <3>2. Elements(flow \o last) = Elements(flow) \cup Elements(last)
      BY <2>1, <3>1, ElementsOfJoined
    <3> QED
      BY <2>2, <3>2 DEF last
  <2>4. Elements(flow)' = Elements(flow')
    BY DEF Elements
  <2> QED
    BY <2>2, <2>3, <2>4
<1> HIDE DEF first
<1>7. Connected(blk - 1)'
  <2>1. BlockExits(blk - 1)' = {}
    <3>1. (1 .. blk - 1)' = {}
      BY <1>1
    <3> QED
      BY <3>1 DEF BlockExits
  <2>2. <<METHOD, entry[Place(1)]>>' = first
    BY <1>4, <1>5 DEF METHOD
  <2> QED
    BY <1>2, <1>4, <1>6, <2>1, <2>2 DEF Connected
<1> QED
  BY <1>1, <1>3, <1>4, <1>7 DEF FlowInvariant, Progress

(* The second pass adds the edges to the successors of one block.         *)
LEMMA ConnectTerminatorFlow ==
  ASSUME FlowInvariant, EmitterInvariant', ConnectTerminator
  PROVE  FlowInvariant'
<1> DEFINE succ == fn.succ[blk]
           ids == DOMAIN node
           targets == IF fn.kind[Terminator(blk)] = "ret" THEN <<METHOD_RETURN>>
                      ELSE [j \in DOMAIN succ |-> entry[entryPoints[succ[j]]]]
           new == [j \in DOMAIN targets |-> <<exitPoints[blk], targets[j]>>]
<1>1. /\ phase = "terminators" /\ flow' = flow \o new
      /\ \/ blk = NBlocks /\ phase' = "done" /\ blk' = blk
         \/ blk # NBlocks /\ blk' = blk + 1 /\ phase' = phase
      /\ UNCHANGED <<fn, vals, node, order, entry, ast, cfg, members,
                     nodes, topLevelOrder, entryPoints, exitPoints>>
  BY DEF ConnectTerminator, blockState, graph
<1>2. /\ EmitterInvariant /\ Evaluated /\ Placed /\ Apart /\ LaidOut /\ Connected(blk - 1)
      /\ NBlocks \in Nat /\ NBlocks > 0 /\ blk \in 1 .. NBlocks /\ blk \in Nat /\ WellFormed(fn)
  <2>1. EmitterInvariant /\ Evaluated /\ Placed /\ Apart /\ LaidOut
        /\ Connected(blk - 1) /\ blk \in 1 .. NBlocks
    BY <1>1 DEF FlowInvariant, Progress, EmitterInvariant, Control
  <2>2. NBlocks \in Nat /\ WellFormed(fn)
    BY <2>1, NodeDomain DEF EmitterInvariant
  <2> QED
    BY <2>1, <2>2
<1>3. Evaluated' /\ Placed' /\ Apart' /\ PlacesStay
  BY <1>1, <1>2, OnlyFlow
<1>4. /\ LaidOut' /\ WithinBlocks(NBlocks)' = WithinBlocks(NBlocks)
      /\ \A b \in 0 .. NBlocks : BlockExits(b)' = BlockExits(b)
      /\ Place(1)' = Place(1) /\ entry'[Place(1)] = entry[Place(1)]
  BY <1>1, <1>2, <1>3, LaidOutStays
<1>5. /\ \A b \in 1 .. NBlocks : Landmarks(b)
  BY <1>2 DEF LaidOut
<1>6. /\ succ \in Seq(1 .. NBlocks) /\ DOMAIN succ = 1 .. Len(succ) /\ Len(succ) \in Nat
      /\ \A j \in DOMAIN succ : succ[j] \in 1 .. NBlocks
  <2>1. fn.succ \in Seq(Seq(1 .. NBlocks)) /\ Len(fn.succ) = NBlocks
    BY <1>2 DEF WellFormed, NBlocks
  <2>2. succ \in Seq(1 .. NBlocks)
    BY <1>2, <2>1, SeqMember
  <2> QED
    BY <2>2, SeqMember
<1> HIDE DEF succ
<1>7. Elements(new) = BlockExit(blk)
  <2>1. exitPoints[blk] = Place(EndOf(blk))
    BY <1>2, <1>5 DEF Landmarks
  <2>2. CASE fn.kind[Terminator(blk)] = "ret"
    <3>1. targets = <<METHOD_RETURN>> /\ DOMAIN targets = {1} /\ targets[1] = METHOD_RETURN
      BY <2>2
    <3> HIDE DEF targets
    <3>2. Elements(new) = {<<exitPoints[blk], METHOD_RETURN>>}
      BY <3>1 DEF Elements
    <3> HIDE DEF new
    <3> QED
      BY <2>1, <2>2, <3>2 DEF BlockExit
  <2>3. CASE fn.kind[Terminator(blk)] # "ret"
    <3>1. targets = [j \in DOMAIN succ |-> entry[entryPoints[succ[j]]]]
      BY <2>3
    <3> DEFINE Target(c) == <<Place(EndOf(blk)), entry[Place(EndOf(c - 1) + 1)]>>
    <3>2. ASSUME NEW j \in DOMAIN succ
          PROVE  j \in DOMAIN targets /\ <<exitPoints[blk], targets[j]>> = Target(succ[j])
      <4>1. entryPoints[succ[j]] = Place(EndOf(succ[j] - 1) + 1)
        BY <1>5, <1>6 DEF Landmarks
      <4>2. j \in DOMAIN targets /\ targets[j] = entry[entryPoints[succ[j]]]
        BY <3>1
      <4> QED
        BY <2>1, <4>1, <4>2
    <3>3. DOMAIN targets = DOMAIN succ
      BY <3>1
    <3> HIDE DEF targets, Target
    <3>4. Elements(new) = {Target(succ[j]) : j \in DOMAIN succ}
      BY <3>2, <3>3 DEF Elements
    <3>5. {Target(succ[j]) : j \in DOMAIN succ} = {Target(c) : c \in Elements(succ)}
      BY DEF Elements
    <3> HIDE DEF new
    <3>6. BlockExit(blk) = {Target(c) : c \in Elements(succ)}
      BY <2>3 DEF BlockExit, Target, succ
    <3> QED
      BY <3>4, <3>5, <3>6
  <2> QED
    BY <2>2, <2>3
<1>8. new \in Seq(ids \X ids)
  <2>1. exitPoints[blk] \in ids /\ \A b \in 1 .. NBlocks : entry[entryPoints[b]] \in ids
    <3>1. /\ entryPoints \in Seq(Finished) /\ exitPoints \in Seq(Finished)
          /\ Len(entryPoints) = NBlocks /\ Len(exitPoints) = NBlocks
      BY <1>1, <1>2 DEF EmitterInvariant, Statements, Control
    <3>2. \A b \in 1 .. NBlocks : entryPoints[b] \in Finished /\ exitPoints[b] \in Finished
      BY <3>1, SeqMember
    <3> QED
      BY <1>2, <3>2, EntryIds
  <2>2. \E n \in Nat : DOMAIN targets = 1 .. n /\ \A j \in 1 .. n : targets[j] \in ids
    <3>1. CASE fn.kind[Terminator(blk)] = "ret"
      <4>1. METHOD_RETURN \in ids
        <5>1. Len(node) >= 3
          BY <1>1, <1>2 DEF EmitterInvariant, Declared
        <5> HIDE DEF targets
        <5> QED
          BY <1>2, <5>1, NodeDomain DEF EmitterInvariant, METHOD_RETURN
      <4>2. targets = <<METHOD_RETURN>> /\ DOMAIN targets = 1 .. 1 /\ targets[1] = METHOD_RETURN
        BY <3>1
      <4> HIDE DEF targets
      <4>3. \A j \in 1 .. 1 : j = 1
        OBVIOUS
      <4>4. \A j \in 1 .. 1 : targets[j] \in ids
        BY <4>1, <4>2, <4>3
      <4>5. 1 \in Nat
        OBVIOUS
      <4> QED
        BY <4>2, <4>4, <4>5
    <3>2. CASE fn.kind[Terminator(blk)] # "ret"
      <4>1. targets = [j \in DOMAIN succ |-> entry[entryPoints[succ[j]]]]
        BY <3>2
      <4> HIDE DEF targets
      <4> QED
        BY <1>6, <2>1, <4>1
    <3> QED
      BY <3>1, <3>2
  <2> HIDE DEF targets
  <2>3. PICK n \in Nat : DOMAIN targets = 1 .. n /\ \A j \in 1 .. n : targets[j] \in ids
    BY <2>2
  <2>4. new \in [1 .. n -> ids \X ids]
    BY <2>1, <2>3
  <2> HIDE DEF new
  <2> QED
    BY <2>4, SeqIsFunction
<1>9. Elements(flow)' = Elements(flow) \cup BlockExit(blk)
  <2> DEFINE pairs == ids \X ids
  <2>1. flow \in Seq(pairs)
    BY <1>2 DEF EmitterInvariant, Edges
  <2> HIDE DEF pairs, new
  <2>2. new \in Seq(pairs)
    BY <1>8 DEF pairs
  <2>3. Elements(flow \o new) = Elements(flow) \cup Elements(new)
    BY <2>1, <2>2, ElementsOfJoined
  <2>4. Elements(flow)' = Elements(flow')
    BY DEF Elements
  <2> QED
    BY <1>1, <1>7, <2>3, <2>4
<1> HIDE DEF targets, new
<1>10. PICK b \in Nat : b = blk
  BY <1>2
<1>11. Connected(b)'
  <2>1. BlockExits(b) = BlockExits(b - 1) \cup BlockExit(b)
    <3>1. 1 .. b = (1 .. b - 1) \cup {b}
      BY <1>2, <1>10
    <3> QED
      BY <3>1 DEF BlockExits
  <2>2. BlockExits(b)' = BlockExits(b)
    BY <1>2, <1>4, <1>10
  <2>3. <<METHOD, entry[Place(1)]>>' = <<METHOD, entry[Place(1)]>>
    BY <1>4 DEF METHOD
  <2>4. Elements(flow) = WithinBlocks(NBlocks) \cup {<<METHOD, entry[Place(1)]>>} \cup BlockExits(b - 1)
    BY <1>2, <1>10 DEF Connected
  <2>5. Elements(flow)' = WithinBlocks(NBlocks)' \cup {<<METHOD, entry[Place(1)]>>}' \cup BlockExits(b)'
    BY <1>4, <1>9, <1>10, <2>1, <2>2, <2>3, <2>4
  <2> QED
    BY <2>5 DEF Connected
<1>12. Progress'
  <2>1. CASE blk = NBlocks
    <3>1. phase' = "done" /\ NBlocks' = b
      BY <1>1, <1>10, <2>1 DEF NBlocks
    <3> QED
      BY <1>4, <1>11, <3>1 DEF Progress
  <2>2. CASE blk # NBlocks
    <3>1. phase' = "terminators" /\ blk' - 1 = b
      BY <1>1, <1>2, <1>10, <2>2
    <3> QED
      BY <1>4, <1>11, <3>1 DEF Progress
  <2> QED
    BY <2>1, <2>2
<1> QED
  BY <1>3, <1>12 DEF FlowInvariant

LEMMA BodyHasBlocks ==
  ASSUME WellFormed(fn), fn.n > 0
  PROVE  NBlocks \in Nat /\ NBlocks > 0
<1>1. fn.succ \in Seq(Seq(1 .. Len(fn.succ))) /\ fn.succ # <<>>
  BY DEF WellFormed
<1> QED
  BY <1>1, SeqMember DEF NBlocks

LEMMA StutterFlow ==
  ASSUME FlowInvariant, EmitterInvariant', UNCHANGED vars
  PROVE  FlowInvariant'
<1>1. UNCHANGED <<fn, phase, blk, cur, vals, node, order, entry, ast, cfg, members, flow,
                  nodes, topLevelOrder, entryPoints, exitPoints>>
  BY DEF vars
<1>2. EmitterInvariant /\ Evaluated /\ Placed /\ Apart /\ WellFormed(fn) /\ NBlocks \in Nat
  BY NodeDomain DEF FlowInvariant, EmitterInvariant
<1>3. Evaluated' /\ Placed' /\ Apart' /\ PlacesStay
  BY <1>1, <1>2, OnlyFlow
<1>4. CASE phase = "prologue"
  BY <1>1, <1>3, <1>4 DEF FlowInvariant, Progress
<1>5. CASE phase \in {"visit", "expression"}
  <2>1. Visiting /\ blk \in 1 .. NBlocks
    BY <1>2, <1>5 DEF FlowInvariant, Progress, EmitterInvariant, Control
  <2>2. Visiting'
    BY <1>1, <1>2, <1>3, <2>1, VisitingStays
  <2>3. HasStatement(cur)' <=> HasStatement(cur)
    BY <1>1 DEF HasStatement
  <2> QED
    BY <1>1, <1>3, <1>5, <2>2, <2>3 DEF FlowInvariant, Progress
<1>6. CASE phase \in {"method", "terminators", "done"} /\ LaidOut /\ NBlocks > 0
  <2>1. /\ LaidOut' /\ WithinBlocks(NBlocks)' = WithinBlocks(NBlocks)
        /\ \A b \in 0 .. NBlocks : BlockExits(b)' = BlockExits(b)
        /\ Place(1)' = Place(1) /\ entry'[Place(1)] = entry[Place(1)]
    BY <1>1, <1>2, <1>3, <1>6, LaidOutStays
  <2>2. PICK n \in Nat : n = NBlocks
    BY <1>2
  <2>3. NBlocks' = n
    BY <1>1, <2>2 DEF NBlocks
  <2>4. Elements(flow)' = Elements(flow)
    BY <1>1 DEF Elements
  <2>5. ASSUME NEW b \in 0 .. n, Connected(b) PROVE Connected(b)'
    <3>1. BlockExits(b)' = BlockExits(b)
      BY <2>1, <2>2
    <3> QED
      BY <2>1, <2>4, <2>5, <3>1 DEF Connected, METHOD
  <2>6. CASE phase = "method"
    BY <1>1, <1>3, <2>1, <2>4, <2>6 DEF FlowInvariant, Progress
  <2>7. CASE phase = "terminators"
    <3>1. Connected(blk - 1) /\ blk \in 1 .. n
      BY <1>2, <2>2, <2>7 DEF FlowInvariant, Progress, EmitterInvariant, Control
    <3>2. PICK b \in 0 .. n : b = blk - 1
      BY <2>2, <3>1
    <3>3. Connected(blk - 1)'
      BY <1>1, <2>5, <3>1, <3>2
    <3> QED
      BY <1>1, <1>3, <2>1, <2>7, <3>3 DEF FlowInvariant, Progress
  <2>8. CASE phase = "done"
    <3>1. HasBody' = HasBody
      BY <1>1 DEF HasBody
    <3>2. HasBody => Connected(n)
      BY <2>2, <2>8 DEF FlowInvariant, Progress
    <3>3. HasBody' => Connected(NBlocks)'
      BY <2>2, <2>3, <2>5, <3>1, <3>2
    <3> QED
      BY <1>1, <1>3, <2>1, <2>8, <3>3 DEF FlowInvariant, Progress
  <2> QED
    BY <1>6, <2>6, <2>7, <2>8
<1>7. CASE phase = "done" /\ ~ HasBody
  <2>1. HasBody' = HasBody
    BY <1>1 DEF HasBody
  <2> QED
    BY <1>1, <1>3, <1>7, <2>1 DEF FlowInvariant, Progress
<1>8. \/ phase = "prologue" \/ phase \in {"visit", "expression"}
      \/ phase \in {"method", "terminators", "done"} /\ LaidOut /\ NBlocks > 0
      \/ phase = "done" /\ ~ HasBody
  <2>1. CASE phase \in {"method", "terminators"}
    <3>1. LaidOut /\ blk \in 1 .. NBlocks
      BY <1>2, <2>1 DEF FlowInvariant, Progress, EmitterInvariant, Control
    <3> QED
      BY <1>2, <2>1, <3>1
  <2>2. CASE phase = "done" /\ HasBody
    <3>1. LaidOut /\ fn.n > 0
      BY <2>2 DEF FlowInvariant, Progress, HasBody
    <3>2. NBlocks > 0
      BY <1>2, <3>1, BodyHasBlocks
    <3> QED
      BY <2>2, <3>1, <3>2
  <2> QED
    BY <2>1, <2>2 DEF FlowInvariant, Progress
<1> QED
  BY <1>4, <1>5, <1>6, <1>7, <1>8

LEMMA NothingLaid ==
  ASSUME EmitterInvariant, EmitPrologue
  PROVE  Laid' = {}
<1>1. phase = "prologue" /\ nodes' = nodes
  BY DEF EmitPrologue, blockState
<1>2. node = <<>> /\ nodes = <<>>
  BY <1>1 DEF EmitterInvariant, Control
<1>3. \A k : <<BLOCK, k>> \in members' => node'[k].type = "LOCAL"
  BY <1>2, PrologueStep
<1>4. StatementNodes' = {k \in DOMAIN node' : <<BLOCK, k>> \in members' /\ node'[k].type # "LOCAL"}
  BY DEF StatementNodes, BLOCK
<1>5. Elements(nodes)' = {}
  BY <1>1, <1>2 DEF Elements
<1>6. Laid' = StatementNodes' \cup Elements(nodes)'
  BY DEF Laid
<1> QED
  BY <1>3, <1>4, <1>5, <1>6

LEMMA PrologueFlow ==
  ASSUME FlowInvariant, EmitterInvariant', EmitPrologue
  PROVE  FlowInvariant'
<1>1. /\ phase = "prologue" /\ phase' = IF fn.n = 0 THEN "done" ELSE "visit"
      /\ UNCHANGED <<fn, blk, cur, vals, ast, cfg, flow,
                     nodes, topLevelOrder, entryPoints, exitPoints>>
      /\ \E size : entry' = [k \in 1 .. size |-> 0]
  BY DEF EmitPrologue, blockState
<1>2. /\ EmitterInvariant /\ Evaluated /\ WellFormed(fn) /\ fn.n \in Nat
      /\ topLevelOrder = 1 /\ cur = 1 /\ flow = <<>> /\ blk = 1
      /\ node = <<>> /\ vals = <<>> /\ nodes = <<>>
  BY <1>1, NodeDomain DEF FlowInvariant, Progress, EmitterInvariant, Control
<1>3. \A k \in DOMAIN node' : entry'[k] = 0
  <2>1. DOMAIN entry' = DOMAIN node'
    <3>1. Typed'
      BY DEF EmitterInvariant
    <3>2. /\ entry' \in Seq(Nat) /\ Len(entry') = Len(node') /\ node' \in Seq(NodeRecords')
      BY <3>1 DEF Typed
    <3> QED
      BY <3>2, SeqMember
  <2> QED
    BY <1>1, <2>1
<1>4. Evaluated'
  <2>1. EdgesKept
    <3>1. DOMAIN node = {}
      BY <1>2
    <3> QED
      BY <1>1, <1>3, <3>1 DEF EdgesKept
  <2> QED
    BY <1>2, <2>1, AstIds, ArgumentsKept
<1>5. Laid' = {}
  BY <1>2, NothingLaid
<1>6. Placed'
  <2>1. topLevelOrder' = 1 /\ 1 .. topLevelOrder' - 1 = {} /\ 1 .. Len(nodes') = {}
        /\ topLevelOrder' > 0
    BY <1>1, <1>2
  <2>2. {order'[k] : k \in Laid'} = {}
    BY <1>5
  <2> QED
    BY <1>5, <2>1, <2>2 DEF Placed
<1>7. Apart'
  <2>1. 1 .. Len(vals') = {}
    BY <1>1, <1>2
  <2> QED
    BY <1>3, <2>1 DEF Apart
<1>8. CASE fn.n = 0
  <2>1. phase' = "done" /\ ~ HasBody'
    BY <1>1, <1>8 DEF HasBody
  <2> QED
    BY <1>4, <1>6, <1>7, <2>1 DEF FlowInvariant, Progress
<1>9. CASE fn.n # 0
  <2>1. EndOf(0)' = 0
    BY <1>1, <1>2, EndOfSame, EndOfNone
  <2>2. \A i \in 1 .. fn.n : ~ (i < 1) /\ ~ (fn.block[i] < 1)
    BY <1>2, Counting
  <2>3. Cardinality({i \in ShownIn(1)' : i < 1}) = 0
    <3>1. ShownIn(1)' = ShownIn(1) /\ ShownIn(1) \subseteq 1 .. fn.n
      BY <1>1, EndOfSame DEF ShownIn, InBlock
    <3>2. {i \in ShownIn(1)' : i < 1} = {}
      BY <2>2, <3>1
    <3> QED
      BY <3>2, FS_EmptySet
  <2>4. blk' = 1 /\ blk' - 1 = 0 /\ cur' = 1 /\ topLevelOrder' - 1 = 0 /\ Len(nodes') = 0
        /\ 1 .. blk' - 1 = {} /\ 0 + 0 = 0
    BY <1>1, <1>2
  <2>5. Elements(flow)' = {} /\ WithinBlocks(blk - 1)' = {}
    <3>1. Elements(flow)' = {}
      BY <1>1, <1>2 DEF Elements
    <3> QED
      BY <2>4, <3>1 DEF WithinBlocks
  <2>6. Visiting'
    <3>1. EndOf(blk - 1)' = 0 /\ ShownIn(blk)' = ShownIn(1)'
      BY <2>1, <2>4
    <3> QED
      BY <1>1, <2>2, <2>3, <2>4, <2>5, <3>1 DEF Visiting
  <2>7. phase' = "visit"
    BY <1>1, <1>9
  <2> QED
    BY <1>4, <1>6, <1>7, <2>6, <2>7 DEF FlowInvariant, Progress
<1> QED
  BY <1>8, <1>9

LEMMA InitFlow == Init => FlowInvariant
<1> SUFFICES ASSUME Init PROVE FlowInvariant
  OBVIOUS
<1>1. EmitterInvariant
  BY InitInvariant
<1>2. /\ node = <<>> /\ ast = {} /\ cfg = {} /\ members = {} /\ nodes = <<>> /\ vals = <<>>
      /\ topLevelOrder = 1 /\ phase = "prologue" /\ cur = 1 /\ flow = <<>> /\ DOMAIN node = {}
  BY DEF Init
<1>3. Evaluated
  <2>1. Adjacent = {} /\ Last = {}
    BY <1>2 DEF Adjacent, Last
  <2>2. ArgumentFlow = {}
    BY <2>1 DEF ArgumentFlow
  <2> QED
    BY <1>2, <2>2 DEF Evaluated
<1>4. Laid = {}
  BY <1>2 DEF Laid, StatementNodes, Elements
<1>5. Placed
  <2>1. 1 .. topLevelOrder - 1 = {} /\ 1 .. Len(nodes) = {} /\ topLevelOrder > 0
    BY <1>2
  <2>2. {order[k] : k \in Laid} = {}
    BY <1>4
  <2> QED
    BY <1>4, <2>1, <2>2 DEF Placed
<1>6. Apart
  <2>1. 1 .. Len(vals) = {}
    BY <1>2
  <2> QED
    BY <1>2, <2>1 DEF Apart
<1>7. Progress
  BY <1>2 DEF Progress
<1> QED
  BY <1>1, <1>3, <1>5, <1>6, <1>7 DEF FlowInvariant

----------------------------------------------------------------------------
LEMMA FlowStep ==
  ASSUME FlowInvariant, [Next]_vars
  PROVE  FlowInvariant'
<1>1. EmitterInvariant'
  <2>1. EmitterInvariant
    BY DEF FlowInvariant
  <2> QED
    BY <2>1, StepInvariant
<1>2. CASE EmitPrologue
  BY <1>1, <1>2, PrologueFlow
<1>3. CASE VisitInstruction
  BY <1>1, <1>3, VisitFlow
<1>4. CASE EmitNode \/ BeginCall
  BY <1>1, <1>4, NodeFlow
<1>5. CASE EmitValue \/ ConnectReceiver
  BY <1>1, <1>5, ValueFlow
<1>6. CASE SwapOperands
  BY <1>1, <1>6, SwapFlow
<1>7. CASE ResolveUnderLast \/ ResolveUnderFirst
  BY <1>1, <1>7, ResolveFlow
<1>8. CASE EndStatement
  BY <1>1, <1>8, EndStatementFlow
<1>9. CASE EmitNoop
  BY <1>1, <1>9, NoopFlow
<1>10. CASE EndBlock
  BY <1>1, <1>10, EndBlockFlow
<1>11. CASE ConnectMethod
  BY <1>1, <1>11, ConnectMethodFlow
<1>12. CASE ConnectTerminator
  BY <1>1, <1>12, ConnectTerminatorFlow
<1>13. CASE UNCHANGED vars
  BY <1>1, <1>13, StutterFlow
<1> QED
  BY <1>2, <1>3, <1>4, <1>5, <1>6, <1>7, <1>8, <1>9, <1>10, <1>11, <1>12, <1>13 DEF Next

(* After every step the statements laid out so far are numbered without a  *)
(* gap, every finished block has its first and its last statement where    *)
(* the instructions before it say, and the edges are those of LLVM.        *)
THEOREM FlowInvariantHolds == Spec => []FlowInvariant
<1>1. Init => FlowInvariant
  BY InitFlow
<1>2. FlowInvariant /\ [Next]_vars => FlowInvariant'
  BY FlowStep
<1> QED
  BY <1>1, <1>2, PTL DEF Spec

LEMMA InvariantFlow == FlowInvariant => FlowIsLLVMFlow
<1> SUFFICES ASSUME FlowInvariant, Done, HasBody
             PROVE  /\ Numbered(StatementNodes) /\ Cardinality(StatementNodes) = EndOf(NBlocks)
                    /\ \A p \in DOMAIN node : Numbered(Arguments(p)) /\ StartsAt(p)
                    /\ \A k \in StatementNodes : entry[k] # 0
                    /\ cfg = ArgumentFlow
                    /\ Elements(flow) = {<<METHOD, entry[FirstOf(1)]>>}
                                          \cup UNION {StatementFlow(b) \cup BlockFlow(b) :
                                                         b \in 1 .. NBlocks}
  BY DEF FlowIsLLVMFlow, StartsAt
<1>1. /\ Evaluated /\ Placed /\ LaidOut /\ Connected(NBlocks) /\ WellFormed(fn)
      /\ NBlocks \in Nat /\ EndOf(NBlocks) \in Nat
  <2>1. /\ Evaluated /\ Placed /\ LaidOut /\ Connected(NBlocks) /\ EmitterInvariant
    BY DEF FlowInvariant, Progress, Done
  <2>2. WellFormed(fn) /\ NBlocks \in Nat
    BY <2>1, NodeDomain DEF EmitterInvariant
  <2> QED
    BY <2>1, <2>2, Counting
<1>2. Laid = StatementNodes
  <2>1. Elements(<<>>) = {}
    BY DEF Elements
  <2> QED
    BY <1>1, <2>1 DEF LaidOut, Laid
<1>3. Numbered(StatementNodes) /\ Cardinality(StatementNodes) = EndOf(NBlocks)
  <2>1. {order[k] : k \in StatementNodes} = 1 .. EndOf(NBlocks)
    BY <1>1, <1>2 DEF Placed, LaidOut
  <2>2. Ordered(StatementNodes)
    BY <1>1, <1>2, <2>1 DEF Placed, Ordered
  <2> QED
    BY <1>1, <2>1, <2>2, OrderedIsNumbered
<1>4. \A p \in DOMAIN node : Numbered(Arguments(p)) /\ StartsAt(p)
  BY <1>1, OrderedIsNumbered DEF Evaluated
<1>5. \A k \in StatementNodes : entry[k] # 0
  BY <1>1, <1>2 DEF Placed, Finished
<1>6. \A o : StatementAt(o) = Place(o)
  BY <1>2 DEF StatementAt, Place
<1>7. FirstOf(1) = Place(1)
  <2>1. EndOf(1 - 1) + 1 = 1
    <3>1. 1 - 1 = 0 /\ 0 + 1 = 1
      OBVIOUS
    <3> QED
      BY <1>1, <3>1, EndOfNone
  <2> QED
    BY <1>6, <2>1 DEF FirstOf
<1>8. \A b \in 1 .. NBlocks : StatementFlow(b) = WithinBlock(b) /\ BlockFlow(b) = BlockExit(b)
  BY <1>6 DEF StatementFlow, WithinBlock, BlockFlow, BlockExit, FirstOf, LastOf
<1>9. UNION {StatementFlow(b) \cup BlockFlow(b) : b \in 1 .. NBlocks}
        = WithinBlocks(NBlocks) \cup BlockExits(NBlocks)
  BY <1>8 DEF WithinBlocks, BlockExits
<1>10. Elements(flow) = {<<METHOD, entry[FirstOf(1)]>>} \cup WithinBlocks(NBlocks)
                          \cup BlockExits(NBlocks)
  BY <1>1, <1>7 DEF Connected
<1> QED
  BY <1>1, <1>3, <1>4, <1>5, <1>9, <1>10 DEF Evaluated

(* The control flow of a finished method is that of its LLVM function,     *)
(* whatever its blocks, branches and expressions: METHOD leads to the      *)
(* first block, control passes the statements of a block in the order of   *)
(* its instructions, each from its first argument to its root, and the     *)
(* last leads to where each successor of the terminator starts, or to      *)
(* METHOD_RETURN. No edge is missing and there is no other.                *)
THEOREM FlowIsFaithful == Spec => []FlowIsLLVMFlow
BY FlowInvariantHolds, InvariantFlow, PTL

==============================================================================
