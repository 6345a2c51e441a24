------------------------- MODULE MethodMeaningProofs -------------------------
(***************************************************************************)
(* For every well-formed function: that the statements of the finished     *)
(* method say what the instructions of the LLVM function say, and that a   *)
(* load reads what it reads in LLVM wherever its node is, when the marks   *)
(* are clean.                                                              *)
(***************************************************************************)
EXTENDS MethodMeaning, MethodEmitterProofs

(***************************************************************************)
(* What the expressions mean. While an expression is being built, what its *)
(* nodes are to mean is decided: an entry is the meaning of a node of vals *)
(* and whether the node has its arguments already. Does is what a task     *)
(* needs of the stack of entries and does to it.                           *)
(***************************************************************************)
Sayings == Names \ {"declaration"}
Meanings == Sayings \X (Extern .. fn.n) \X Nat
Entry(m, d) == [is |-> m, done |-> d]
Entries == [is : Meanings, done : {0, 1}]
Stacks == Seq(Entries)
Whole(ms) == [j \in 1 .. Len(ms) |-> Entry(ms[j], 1)]

Does(t, a, b) ==
  \/ /\ t.do \in {"node", "begin"}
     /\ \E m \in Meanings, d \in {0, 1} :
          /\ m[1] = t.name /\ m[2] = t.of
          /\ d = 1 => t.do = "node" /\ Parts(m) = <<>>
          /\ b = a \o <<Entry(m, d)>>
  \/ t.do = "value" /\ b = a \o <<Entry(Operand(t.of), 1)>>
  \/ /\ t.do = "resolve"
     /\ \E c \in Stacks, m \in Meanings :
          /\ t.n = Len(Parts(m)) /\ Whole(Parts(m)) \in Stacks
          /\ a = c \o (Whole(Parts(m)) \o <<Entry(m, 0)>>)
          /\ b = c \o <<Entry(m, 1)>>
  \/ /\ t.do = "close"
     /\ \E c \in Stacks, m \in Meanings :
          /\ t.n = Len(Parts(m)) /\ Whole(Parts(m)) \in Stacks
          /\ a = c \o (<<Entry(m, 0)>> \o Whole(Parts(m)))
          /\ b = c \o <<Entry(m, 1)>>
  \/ /\ t.do = "swap"
     /\ \E c \in Stacks, x, y \in Entries : a = c \o <<x, y>> /\ b = c \o <<y, x>>
  \/ t.do = "receiver" /\ b = a

Leads(s, a, b) ==
  \E p \in [0 .. Len(s) -> Stacks] :
    /\ p[0] = a /\ p[Len(s)] = b
    /\ \A i \in 1 .. Len(s) : Does(s[i], p[i - 1], p[i])

LEMMA LeadsNothing ==
  /\ \A a \in Stacks : Leads(<<>>, a, a)
  /\ \A a, b : Leads(<<>>, a, b) => a = b
<1>1. ASSUME NEW a \in Stacks PROVE Leads(<<>>, a, a)
  <2> DEFINE p == [i \in 0 .. Len(<<>>) |-> a]
  <2>1. p \in [0 .. Len(<<>>) -> Stacks] /\ p[0] = a /\ p[Len(<<>>)] = a
    OBVIOUS
  <2>2. \A i \in 1 .. Len(<<>>) : Does(<<>>[i], p[i - 1], p[i])
    OBVIOUS
  <2> HIDE DEF p
  <2> QED
    BY <2>1, <2>2 DEF Leads
<1>2. ASSUME NEW a, NEW b, Leads(<<>>, a, b) PROVE a = b
  BY <1>2 DEF Leads
<1> QED
  BY <1>1, <1>2

LEMMA LeadsTask ==
  ASSUME NEW t, NEW a \in Stacks, NEW b \in Stacks, Does(t, a, b)
  PROVE  Leads(<<t>>, a, b)
<1> DEFINE p == [i \in 0 .. Len(<<t>>) |-> IF i = 0 THEN a ELSE b]
<1>1. Len(<<t>>) = 1
  OBVIOUS
<1>2. p \in [0 .. Len(<<t>>) -> Stacks] /\ p[0] = a /\ p[Len(<<t>>)] = b
  BY <1>1
<1>3. ASSUME NEW i \in 1 .. Len(<<t>>) PROVE Does(<<t>>[i], p[i - 1], p[i])
  <2>1. i = 1 /\ i - 1 = 0
    BY <1>1
  <2>2. p[i - 1] = a /\ p[i] = b /\ <<t>>[i] = t
    BY <1>1, <2>1
  <2> HIDE DEF p
  <2> QED
    BY <2>2
<1> HIDE DEF p
<1> QED
  BY <1>2, <1>3 DEF Leads

LEMMA LeadsHead ==
  ASSUME NEW T, NEW s \in Seq(T), s # <<>>, NEW a, NEW b, Leads(s, a, b)
  PROVE  /\ a \in Stacks
         /\ \E c \in Stacks : Does(Head(s), a, c) /\ Leads(Tail(s), c, b)
<1>1. PICK p \in [0 .. Len(s) -> Stacks] :
        /\ p[0] = a /\ p[Len(s)] = b
        /\ \A i \in 1 .. Len(s) : Does(s[i], p[i - 1], p[i])
  BY DEF Leads
<1>2. Len(s) \in Nat /\ Len(s) >= 1 /\ Head(s) = s[1] /\ Len(Tail(s)) = Len(s) - 1
  OBVIOUS
<1>3. Does(Head(s), a, p[1]) /\ p[1] \in Stacks /\ a \in Stacks
  <2>1. 1 \in 1 .. Len(s) /\ 1 \in 0 .. Len(s) /\ 0 \in 0 .. Len(s) /\ 1 - 1 = 0
    BY <1>2
  <2> QED
    BY <1>1, <1>2, <2>1
<1> DEFINE q == [i \in 0 .. Len(s) - 1 |-> p[i + 1]]
<1>4. q \in [0 .. Len(s) - 1 -> Stacks] /\ q[0] = p[1] /\ q[Len(s) - 1] = b
  BY <1>1, <1>2
<1>5. ASSUME NEW i \in 1 .. Len(s) - 1 PROVE Does(Tail(s)[i], q[i - 1], q[i])
  <2>1. i + 1 \in 1 .. Len(s) /\ (i + 1) - 1 = i /\ (i - 1) + 1 = i
        /\ i - 1 \in 0 .. Len(s) - 1 /\ i \in 0 .. Len(s) - 1
    BY <1>2
  <2>2. q[i - 1] = p[i] /\ q[i] = p[i + 1]
    BY <2>1
  <2>3. Tail(s)[i] = s[i + 1]
    BY <1>2
  <2>4. Does(s[i + 1], p[(i + 1) - 1], p[i + 1])
    BY <1>1, <2>1
  <2> HIDE DEF q
  <2> QED
    BY <2>1, <2>2, <2>3, <2>4
<1>6. Leads(Tail(s), p[1], b)
  <2> HIDE DEF q
  <2> QED
    BY <1>2, <1>4, <1>5 DEF Leads
<1> QED
  BY <1>3, <1>6

LEMMA LeadsBoth ==
  ASSUME NEW T, NEW s \in Seq(T), NEW t \in Seq(T), NEW a, NEW b, NEW c,
         Leads(s, a, b), Leads(t, b, c)
  PROVE  Leads(s \o t, a, c)
<1>1. PICK p \in [0 .. Len(s) -> Stacks] :
        /\ p[0] = a /\ p[Len(s)] = b
        /\ \A i \in 1 .. Len(s) : Does(s[i], p[i - 1], p[i])
  BY DEF Leads
<1>2. PICK q \in [0 .. Len(t) -> Stacks] :
        /\ q[0] = b /\ q[Len(t)] = c
        /\ \A i \in 1 .. Len(t) : Does(t[i], q[i - 1], q[i])
  BY DEF Leads
<1> DEFINE m == Len(s)
           n == Len(t)
           r == [i \in 0 .. m + n |-> IF i <= m THEN p[i] ELSE q[i - m]]
<1>3. m \in Nat /\ n \in Nat /\ Len(s \o t) = m + n
  OBVIOUS
<1>4. \A i \in 1 .. m + n : (s \o t)[i] = IF i <= m THEN s[i] ELSE t[i - m]
  OBVIOUS
<1>5. /\ \A i \in 0 .. m : r[i] = p[i]
      /\ \A i \in m .. m + n : r[i] = q[i - m]
  <2>1. \A i \in 0 .. m : r[i] = p[i]
    BY <1>3
  <2>2. ASSUME NEW i \in m .. m + n PROVE r[i] = q[i - m]
    <3>1. CASE i = m
      BY <1>1, <1>2, <1>3, <3>1
    <3>2. CASE i # m
      BY <1>3, <3>2
    <3> QED
      BY <3>1, <3>2
  <2> QED
    BY <2>1, <2>2
<1>6. r \in [0 .. m + n -> Stacks] /\ r[0] = a /\ r[m + n] = c
  <2>1. 0 \in 0 .. m /\ m + n \in m .. m + n /\ (m + n) - m = n
    BY <1>3
  <2>2. r[0] = a /\ r[m + n] = c
    <3> HIDE DEF r
    <3> QED
      BY <1>1, <1>2, <1>5, <2>1
  <2>3. ASSUME NEW i \in 0 .. m + n PROVE r[i] \in Stacks
    <3>1. i \in 0 .. m \/ (i \in m .. m + n /\ i - m \in 0 .. n)
      BY <1>3
    <3> HIDE DEF r, m, n
    <3> QED
      BY <1>1, <1>2, <1>5, <3>1 DEF m, n
  <2> QED
    BY <2>2, <2>3
<1>7. ASSUME NEW i \in 1 .. m + n PROVE Does((s \o t)[i], r[i - 1], r[i])
  <2>1. CASE i <= m
    <3>1. i \in 1 .. m /\ i \in 0 .. m /\ i - 1 \in 0 .. m
      BY <1>3, <2>1
    <3> HIDE DEF r, m, n
    <3> QED
      BY <1>1, <1>4, <1>5, <2>1, <3>1 DEF m
  <2>2. CASE ~ (i <= m)
    <3>1. i - m \in 1 .. n /\ i \in m .. m + n /\ i - 1 \in m .. m + n
          /\ (i - 1) - m = (i - m) - 1
      BY <1>3, <2>2
    <3>2. Does(t[i - m], q[(i - m) - 1], q[i - m])
      BY <1>2, <3>1
    <3> HIDE DEF r, m, n
    <3> QED
      BY <1>4, <1>5, <2>2, <3>1, <3>2
  <2> QED
    BY <2>1, <2>2
<1> HIDE DEF r
<1> QED
  BY <1>3, <1>6, <1>7 DEF Leads
----------------------------------------------------------------------------
LEMMA MeaningIs ==
  ASSUME NEW name \in Sayings, NEW of \in Extern .. fn.n, NEW k \in Nat
  PROVE  /\ <<name, of, k>> \in Meanings
         /\ <<name, of, k>>[1] = name /\ <<name, of, k>>[2] = of /\ <<name, of, k>>[3] = k
BY DEF Meanings

LEMMA EntryIs ==
  ASSUME NEW m \in Meanings, NEW d \in {0, 1}
  PROVE  Entry(m, d) \in Entries /\ <<Entry(m, d)>> \in Stacks
BY DEF Entry, Entries, Stacks

(* Sequences of anything.                                                  *)
LEMMA Joined ==
  ASSUME NEW S
  PROVE  /\ <<>> \in Seq(S)
         /\ \A s, t \in Seq(S) : s \o t \in Seq(S)
         /\ \A s, t, u \in Seq(S) : (s \o t) \o u = s \o (t \o u)
         /\ \A s \in Seq(S) : s \o <<>> = s /\ <<>> \o s = s
OBVIOUS

LEMMA JoinedPair ==
  ASSUME NEW x, NEW y
  PROVE  <<x>> \o <<y>> = <<x, y>>
<1> DEFINE s == <<x>> \o <<y>>
<1>1. <<x>> \in Seq({x, y}) /\ <<y>> \in Seq({x, y}) /\ Len(<<x>>) = 1 /\ Len(<<y>>) = 1
      /\ <<x>>[1] = x /\ <<y>>[1] = y
  OBVIOUS
<1>2. s \in Seq({x, y}) /\ Len(s) = 2 /\ s[1] = x /\ s[2] = y
  <2>1. /\ s \in Seq({x, y}) /\ Len(s) = Len(<<x>>) + Len(<<y>>)
        /\ \A i \in 1 .. Len(<<x>>) + Len(<<y>>) :
             s[i] = IF i <= Len(<<x>>) THEN <<x>>[i] ELSE <<y>>[i - Len(<<x>>)]
    BY <1>1, ConcatProperties
  <2> HIDE DEF s
  <2> QED
    BY <1>1, <2>1
<1> HIDE DEF s
<1>3. s = [i \in 1 .. 2 |-> s[i]]
  BY <1>2
<1>4. <<x, y>> = [i \in 1 .. 2 |-> <<x, y>>[i]]
  OBVIOUS
<1>5. \A i \in 1 .. 2 : s[i] = <<x, y>>[i]
  BY <1>2
<1> QED
  BY <1>3, <1>4, <1>5 DEF s

LEMMA WholeIs ==
  ASSUME NEW ms \in Seq(Meanings)
  PROVE  Whole(ms) \in Stacks /\ Len(Whole(ms)) = Len(ms)
<1>1. Len(ms) \in Nat /\ \A j \in 1 .. Len(ms) : ms[j] \in Meanings
  BY SeqMember
<1>2. \A j \in 1 .. Len(ms) : Entry(ms[j], 1) \in Entries
  BY <1>1, EntryIs
<1>3. Whole(ms) \in [1 .. Len(ms) -> Entries]
  BY <1>2 DEF Whole
<1> HIDE DEF Whole
<1> QED
  BY <1>1, <1>3, SeqIsFunction DEF Stacks

LEMMA WholeOf ==
  /\ Whole(<<>>) = <<>>
  /\ \A x : Whole(<<x>>) = <<Entry(x, 1)>>
  /\ \A x, y : Whole(<<x, y>>) = <<Entry(x, 1)>> \o <<Entry(y, 1)>>
<1>1. Whole(<<>>) = <<>>
  BY DEF Whole
<1>2. ASSUME NEW x PROVE Whole(<<x>>) = <<Entry(x, 1)>>
  <2>1. Len(<<x>>) = 1 /\ <<x>>[1] = x
    OBVIOUS
  <2> DEFINE e == Entry(x, 1)
  <2>2. Whole(<<x>>) = [j \in 1 .. 1 |-> e]
    BY <2>1 DEF Whole
  <2> HIDE DEF e
  <2>3. [j \in 1 .. 1 |-> e] = <<e>>
    OBVIOUS
  <2> QED
    BY <2>2, <2>3 DEF e
<1>3. ASSUME NEW x, NEW y PROVE Whole(<<x, y>>) = <<Entry(x, 1)>> \o <<Entry(y, 1)>>
  <2> DEFINE e == Entry(x, 1)
             f == Entry(y, 1)
  <2>1. Whole(<<x, y>>) = [j \in 1 .. 2 |-> IF j = 1 THEN e ELSE f]
    BY DEF Whole
  <2> HIDE DEF e, f
  <2>2. [j \in 1 .. 2 |-> IF j = 1 THEN e ELSE f] = <<e, f>>
    OBVIOUS
  <2> QED
    BY <2>1, <2>2, JoinedPair DEF e, f
<1> QED
  BY <1>1, <1>2, <1>3

(* s finds e on top of the stack and leaves f instead.                     *)
Takes(s, e, f) ==
  /\ s \in Seq(Tasks) /\ e \in Stacks /\ f \in Stacks
  /\ \A a \in Stacks : Leads(s, a \o e, a \o f)

Gives(s, e) == Takes(s, <<>>, e)

LEMMA TakesBoth ==
  ASSUME NEW s, NEW t, NEW e, NEW f, NEW g, Takes(s, e, f), Takes(t, f, g)
  PROVE  Takes(s \o t, e, g)
<1>1. s \in Seq(Tasks) /\ t \in Seq(Tasks) /\ s \o t \in Seq(Tasks) /\ e \in Stacks /\ g \in Stacks
  BY Joined DEF Takes
<1>2. ASSUME NEW a \in Stacks PROVE Leads(s \o t, a \o e, a \o g)
  <2>1. Leads(s, a \o e, a \o f) /\ Leads(t, a \o f, a \o g)
    BY DEF Takes
  <2> QED
    BY <1>1, <2>1, LeadsBoth
<1> QED
  BY <1>1, <1>2 DEF Takes

LEMMA TakesAbove ==
  ASSUME NEW s, NEW e, NEW f, NEW x \in Stacks, Takes(s, e, f)
  PROVE  Takes(s, x \o e, x \o f)
<1>1. /\ s \in Seq(Tasks) /\ e \in Stacks /\ f \in Stacks
      /\ x \o e \in Stacks /\ x \o f \in Stacks
  BY Joined DEF Takes, Stacks
<1>2. ASSUME NEW a \in Stacks PROVE Leads(s, a \o (x \o e), a \o (x \o f))
  <2>1. a \o x \in Stacks /\ (a \o x) \o e = a \o (x \o e) /\ (a \o x) \o f = a \o (x \o f)
    <3>1. a \in Seq(Entries) /\ x \in Seq(Entries) /\ e \in Seq(Entries) /\ f \in Seq(Entries)
      BY <1>1 DEF Stacks
    <3>2. /\ \A p, q \in Seq(Entries) : p \o q \in Seq(Entries)
          /\ \A p, q, r \in Seq(Entries) : (p \o q) \o r = p \o (q \o r)
      BY Joined, Zenon
    <3>3. (a \o x) \o e = a \o (x \o e) /\ (a \o x) \o f = a \o (x \o f)
      BY <3>1, <3>2, Zenon
    <3> QED
      BY <3>1, <3>2, <3>3, Zenon DEF Stacks
  <2>2. Leads(s, (a \o x) \o e, (a \o x) \o f)
    BY <2>1 DEF Takes
  <2> QED
    BY <2>1, <2>2
<1> QED
  BY <1>1, <1>2 DEF Takes

LEMMA GivesBoth ==
  ASSUME NEW s, NEW t, NEW e, NEW f, Gives(s, e), Gives(t, f)
  PROVE  Gives(s \o t, e \o f)
<1>1. e \in Stacks /\ e \o <<>> = e
  BY Joined DEF Gives, Takes, Stacks
<1>2. Takes(t, e \o <<>>, e \o f)
  BY <1>1, TakesAbove DEF Gives
<1> QED
  BY <1>1, <1>2, TakesBoth DEF Gives

LEMMA TakesTask ==
  ASSUME NEW t \in Tasks, NEW e \in Stacks, NEW f \in Stacks,
         \A a \in Stacks : Does(t, a \o e, a \o f)
  PROVE  Takes(<<t>>, e, f)
<1>1. ASSUME NEW a \in Stacks PROVE Leads(<<t>>, a \o e, a \o f)
  <2>1. a \o e \in Stacks /\ a \o f \in Stacks
    BY Joined DEF Stacks
  <2> QED
    BY <2>1, LeadsTask
<1>2. <<t>> \in Seq(Tasks)
  OBVIOUS
<1> QED
  BY <1>1, <1>2 DEF Takes

(* The tasks, one by one.                                                  *)
LEMMA GivesNode ==
  ASSUME NEW t \in Created, NEW m \in Meanings, m[1] = t.name, m[2] = t.of
  PROVE  /\ Gives(<<t>>, <<Entry(m, 0)>>)
         /\ t.do = "node" /\ Parts(m) = <<>> => Gives(<<t>>, <<Entry(m, 1)>>)
<1>1. t \in Tasks /\ t.do \in {"node", "begin"}
  BY DEF Tasks, Created
<1>2. ASSUME NEW d \in {0, 1}, d = 1 => t.do = "node" /\ Parts(m) = <<>>
      PROVE  Gives(<<t>>, <<Entry(m, d)>>)
  <2>1. <<Entry(m, d)>> \in Stacks /\ <<>> \in Stacks
    BY EntryIs, Joined DEF Stacks
  <2>2. ASSUME NEW a \in Stacks PROVE Does(t, a \o <<>>, a \o <<Entry(m, d)>>)
    <3>1. a \o <<>> = a
      BY Joined DEF Stacks
    <3> QED
      BY <1>1, <1>2, <3>1 DEF Does
  <2> QED
    BY <1>1, <2>1, <2>2, TakesTask DEF Gives
<1> QED
  BY <1>2

LEMMA GivesValue ==
  ASSUME NEW v \in Operands, Operand(v) \in Meanings
  PROVE  Gives(Value(v), <<Entry(Operand(v), 1)>>)
<1> DEFINE t == [do |-> "value", of |-> v]
<1>1. t.do = "value" /\ t.of = v /\ t \in Tasks /\ Value(v) = <<t>>
  BY DEF Tasks, Value
<1> HIDE DEF t
<1>2. <<Entry(Operand(v), 1)>> \in Stacks /\ <<>> \in Stacks
  BY EntryIs, Joined DEF Stacks
<1>3. ASSUME NEW a \in Stacks PROVE Does(t, a \o <<>>, a \o <<Entry(Operand(v), 1)>>)
  <2>1. a \o <<>> = a
    BY Joined DEF Stacks
  <2> QED
    BY <1>1, <2>1 DEF Does
<1> QED
  BY <1>1, <1>2, <1>3, TakesTask DEF Gives

LEMMA TakesResolve ==
  ASSUME NEW m \in Meanings, Parts(m) \in Seq(Meanings)
  PROVE  Takes(Resolve(Len(Parts(m))), Whole(Parts(m)) \o <<Entry(m, 0)>>, <<Entry(m, 1)>>)
<1> DEFINE n == Len(Parts(m))
           t == [do |-> "resolve", n |-> n]
           w == Whole(Parts(m))
<1>1. n \in Nat /\ w \in Stacks
  BY SeqMember, WholeIs
<1>2. t.do = "resolve" /\ t.n = n /\ t \in Tasks /\ Resolve(n) = <<t>>
  BY <1>1 DEF Tasks, Resolve
<1> HIDE DEF t
<1>3. <<Entry(m, 0)>> \in Stacks /\ <<Entry(m, 1)>> \in Stacks
  BY EntryIs
<1>4. w \o <<Entry(m, 0)>> \in Stacks
  BY <1>1, <1>3, Joined DEF Stacks
<1>5. \A a \in Stacks : Does(t, a \o (w \o <<Entry(m, 0)>>), a \o <<Entry(m, 1)>>)
  BY <1>1, <1>2 DEF Does
<1> HIDE DEF w
<1> QED
  BY <1>2, <1>3, <1>4, <1>5, TakesTask DEF w

LEMMA TakesClose ==
  ASSUME NEW m \in Meanings, Parts(m) \in Seq(Meanings)
  PROVE  Takes(Close(Len(Parts(m))), <<Entry(m, 0)>> \o Whole(Parts(m)), <<Entry(m, 1)>>)
<1> DEFINE n == Len(Parts(m))
           t == [do |-> "close", n |-> n]
           w == Whole(Parts(m))
<1>1. n \in Nat /\ w \in Stacks
  BY SeqMember, WholeIs
<1>2. t.do = "close" /\ t.n = n /\ t \in Tasks /\ Close(n) = <<t>>
  BY <1>1 DEF Tasks, Close
<1> HIDE DEF t
<1>3. <<Entry(m, 0)>> \in Stacks /\ <<Entry(m, 1)>> \in Stacks
  BY EntryIs
<1>4. <<Entry(m, 0)>> \o w \in Stacks
  BY <1>1, <1>3, Joined DEF Stacks
<1>5. \A a \in Stacks : Does(t, a \o (<<Entry(m, 0)>> \o w), a \o <<Entry(m, 1)>>)
  BY <1>1, <1>2 DEF Does
<1> HIDE DEF w
<1> QED
  BY <1>2, <1>3, <1>4, <1>5, TakesTask DEF w

LEMMA TakesSwap ==
  ASSUME NEW x \in Entries, NEW y \in Entries
  PROVE  Takes(Swap, <<x>> \o <<y>>, <<y>> \o <<x>>)
<1> DEFINE t == [do |-> "swap"]
<1>1. t.do = "swap" /\ t \in Tasks /\ Swap = <<t>>
  BY DEF Tasks, Swap
<1> HIDE DEF t
<1>2. <<x>> \o <<y>> = <<x, y>> /\ <<y>> \o <<x>> = <<y, x>>
  BY JoinedPair
<1>3. <<x, y>> \in Stacks /\ <<y, x>> \in Stacks
  BY DEF Stacks
<1>4. \A a \in Stacks : Does(t, a \o <<x, y>>, a \o <<y, x>>)
  BY <1>1 DEF Does
<1> QED
  BY <1>1, <1>2, <1>3, <1>4, TakesTask

LEMMA TakesReceive ==
  ASSUME NEW e \in Stacks
  PROVE  Takes(Receive, e, e)
<1> DEFINE t == [do |-> "receiver"]
<1>1. t.do = "receiver" /\ t \in Tasks /\ Receive = <<t>>
  BY DEF Tasks, Receive
<1> HIDE DEF t
<1>2. \A a \in Stacks : Does(t, a \o e, a \o e)
  BY <1>1 DEF Does
<1> QED
  BY <1>1, <1>2, TakesTask

----------------------------------------------------------------------------
LEMMA GivesJoined ==
  ASSUME NEW m \in Meanings, Parts(m) \in Seq(Meanings), NEW s, Gives(s, Whole(Parts(m))),
         NEW t \in Created, t.do = "node", m[1] = t.name, m[2] = t.of
  PROVE  Gives((s \o <<t>>) \o Resolve(Len(Parts(m))), <<Entry(m, 1)>>)
<1>1. Gives(s \o <<t>>, Whole(Parts(m)) \o <<Entry(m, 0)>>)
  BY GivesNode, GivesBoth
<1> QED
  BY <1>1, TakesResolve, TakesBoth DEF Gives

LEMMA GivesOp ==
  ASSUME NEW m \in Meanings, Parts(m) \in Seq(Meanings), NEW s, Gives(s, Whole(Parts(m)))
  PROVE  Gives((s \o Op(m[1], m[2])) \o Resolve(Len(Parts(m))), <<Entry(m, 1)>>)
<1> DEFINE t == [do |-> "node", type |-> "CALL", name |-> m[1], of |-> m[2]]
<1>1. m[1] \in Names /\ m[2] \in Extern .. fn.n
  BY DEF Meanings, Sayings
<1>2. t \in Created /\ t.do = "node" /\ t.name = m[1] /\ t.of = m[2] /\ Op(m[1], m[2]) = <<t>>
  BY <1>1 DEF Created, Op, Node
<1> HIDE DEF t
<1> QED
  BY <1>2, GivesJoined

(* A call is created, and then its arguments.                              *)
LEMMA GivesCall ==
  ASSUME NEW m \in Meanings, Parts(m) \in Seq(Meanings), NEW s, Gives(s, Whole(Parts(m))),
         NEW t \in Created, m[1] = t.name, m[2] = t.of
  PROVE  Gives((<<t>> \o s) \o Close(Len(Parts(m))), <<Entry(m, 1)>>)
<1>1. Gives(<<t>> \o s, <<Entry(m, 0)>> \o Whole(Parts(m)))
  BY GivesNode, GivesBoth
<1> QED
  BY <1>1, TakesClose, TakesBoth DEF Gives

----------------------------------------------------------------------------
(* What Values and Accesses build up, step by step.                        *)
LEMMA ValuesAre ==
  ASSUME NEW args \in Seq(Operands)
  PROVE  \E F : /\ F[0] = <<>> /\ Values(args) = F[Len(args)]
                /\ \A k \in 1 .. Len(args) : F[k] = F[k - 1] \o Value(args[k])
<1> DEFINE m == Len(args)
           S == Seq(Tasks)
           G == [k \in Nat |-> [s \in S |-> IF k \in 1 .. m THEN s \o Value(args[k]) ELSE s]]
           Body(f) == [k \in 0 .. m |-> IF k = 0 THEN <<>> ELSE f[k - 1] \o Value(args[k])]
           F == CHOOSE f : f = Body(f)
<1>1. Values(args) = F[m]
  BY DEF Values
<1>2. m \in Nat /\ \A k \in 1 .. m : args[k] \in Operands
  OBVIOUS
<1>3. \A k \in 1 .. m : Value(args[k]) \in S
  BY <1>2, BuildsValue DEF Builds, Turns
<1>4. \E f : f = Body(f)
  <2>1. G \in Steps(S) /\ <<>> \in S
    BY <1>3 DEF Steps
  <2> HIDE DEF G
  <2>2. PICK f : Recurses(f, S, <<>>, G, 0, m)
    <3>1. 0 \in Nat /\ m \in Nat /\ G \in Steps(S) /\ <<>> \in S
      BY <1>2, <2>1
    <3> HIDE DEF S, m
    <3> QED
      BY <3>1, Recursion, Zenon
  <2>3. ASSUME NEW k \in 0 .. m, k # 0 PROVE G[k][f[k - 1]] = f[k - 1] \o Value(args[k])
    <3>1. k \in 1 .. m /\ k \in Nat /\ k - 1 \in 0 .. m
      BY <1>2, <2>3
    <3>2. f[k - 1] \in S
      BY <2>2, <3>1 DEF Recurses
    <3> QED
      BY <3>1, <3>2 DEF G
  <2>4. f = Body(f)
    BY <2>2, <2>3 DEF Recurses
  <2> QED
    BY <2>4
<1>5. F = Body(F)
  <2> HIDE DEF Body
  <2> QED
    BY <1>4
<1> HIDE DEF F, S
<1>6. F[0] = <<>>
  <2>1. 0 \in 0 .. m
    BY <1>2
  <2> QED
    BY <1>5, <2>1
<1>7. ASSUME NEW k \in 1 .. m PROVE F[k] = F[k - 1] \o Value(args[k])
  <2>1. k \in 0 .. m /\ k # 0
    BY <1>2
  <2> QED
    BY <1>5, <2>1
<1> QED
  BY <1>1, <1>6, <1>7

FirstAccess(i, first) ==
  Value(fn.args[i][1]) \o (IF first = 2
    THEN (Value(fn.args[i][2]) \o Op("pointerShift", i)) \o Resolve(2) ELSE <<>>)

NextAccess(i, s, k) == ((s \o Index(fn.args[i][k])) \o Op("access", i)) \o Resolve(2)

LEMMA AccessesAre ==
  ASSUME NEW i \in 1 .. fn.n, NEW first \in {1, 2}, fn.n \in Nat,
         fn.args[i] \in Seq(Operands \cup {Field}), Len(fn.args[i]) >= first,
         \A k \in 1 .. first : fn.args[i][k] \in Operands
  PROVE  \E F : /\ F[first] = FirstAccess(i, first) /\ Accesses(i, first) = F[Len(fn.args[i])]
                /\ \A k \in first + 1 .. Len(fn.args[i]) : F[k] = NextAccess(i, F[k - 1], k)
<1> DEFINE args == fn.args[i]
           m == Len(args)
           S == Seq(Tasks)
           start == FirstAccess(i, first)
           more(s, k) == NextAccess(i, s, k)
           G == [k \in Nat |-> [s \in S |-> IF k \in 1 .. m THEN more(s, k) ELSE s]]
           Body(f) == [k \in first .. m |-> IF k = first THEN start ELSE more(f[k - 1], k)]
           F == CHOOSE f : f = Body(f)
<1>1. Accesses(i, first) = F[m]
  BY DEF Accesses, FirstAccess, NextAccess
<1>2. m \in Nat /\ first \in Nat /\ first <= m /\ i \in Extern .. fn.n
      /\ \A k \in 1 .. m : args[k] \in Operands \cup {Field}
  BY DEF Extern
<1>3. \A name \in {"pointerShift", "access"} : Op(name, i) \in S
  BY <1>2 DEF Op, Node, Tasks, Created, Names
<1>4. Resolve(2) \in S
  BY DEF Resolve, Tasks
<1>5. start \in S
  <2>1. \A k \in 1 .. first : Value(args[k]) \in S
    BY BuildsValue DEF Builds, Turns
  <2>2. Value(args[1]) \in S /\ (first = 2 => Value(args[2]) \in S)
    BY <2>1
  <2> QED
    BY <1>3, <1>4, <2>2 DEF FirstAccess
<1>6. \A s \in S : \A k \in 1 .. m : more(s, k) \in S
  <2> SUFFICES ASSUME NEW s \in S, NEW k \in 1 .. m PROVE more(s, k) \in S
    OBVIOUS
  <2>1. Index(args[k]) \in S
    BY <1>2, BuildsIndex DEF Builds, Turns
  <2> QED
    BY <1>3, <1>4, <2>1 DEF NextAccess
<1> HIDE DEF start, more
<1>7. \E f : f = Body(f)
  <2>1. G \in Steps(S)
    BY <1>6 DEF Steps
  <2> HIDE DEF G
  <2>2. PICK f : Recurses(f, S, start, G, first, m)
    <3> HIDE DEF S, m
    <3> QED
      BY <1>2, <1>5, <2>1, Recursion, Zenon
  <2>3. ASSUME NEW k \in first .. m, k # first PROVE G[k][f[k - 1]] = more(f[k - 1], k)
    <3>1. k \in 1 .. m /\ k \in Nat /\ k - 1 \in first .. m
      BY <1>2, <2>3
    <3>2. f[k - 1] \in S
      BY <2>2, <3>1 DEF Recurses
    <3> QED
      BY <3>1, <3>2 DEF G
  <2>4. f = Body(f)
    BY <2>2, <2>3 DEF Recurses
  <2> QED
    BY <2>4
<1>8. F = Body(F)
  <2> HIDE DEF Body
  <2> QED
    BY <1>7
<1> HIDE DEF F, S
<1>9. F[first] = start
  <2>1. first \in first .. m
    BY <1>2
  <2> QED
    BY <1>8, <2>1
<1>10. ASSUME NEW k \in first + 1 .. m PROVE F[k] = more(F[k - 1], k)
  <2>1. k \in first .. m /\ k # first
    BY <1>2
  <2> QED
    BY <1>8, <2>1
<1> QED
  BY <1>1, <1>9, <1>10 DEF start, more

----------------------------------------------------------------------------
LEMMA Computes ==
  ASSUME WellFormed(fn), NEW i \in 1 .. fn.n
  PROVE  /\ Computed(i) \in Meanings
         /\ \A k \in Nat : Access(i, k) \in Meanings
<1>1. i \in Extern .. fn.n /\ 0 \in Nat /\ Len(fn.args[i]) \in Nat
  BY OperandsOf
<1>2. {"pointerShift", "access", "indirection", "cast", "call", "return", "unreachable", "op"}
        \subseteq Sayings
  BY DEF Names, Sayings
<1>3. \A k \in Nat : Access(i, k) \in Meanings
  BY <1>1, <1>2, MeaningIs DEF Access
<1>4. \A name \in Sayings : <<name, i, 0>> \in Meanings
  BY <1>1, MeaningIs
<1>5. Access(i, Len(fn.args[i])) \in Meanings
  BY <1>1, <1>3
<1> QED
  BY <1>2, <1>3, <1>4, <1>5 DEF Computed

LEMMA OperandIs ==
  ASSUME WellFormed(fn), NEW v \in Operands \cup {Field}
  PROVE  Operand(v) \in Meanings
<1>1. v \in Extern .. fn.n /\ fn.n \in Nat /\ fn.inlined \subseteq 1 .. fn.n
  <2>1. fn.n \in Nat /\ fn.inlined \subseteq 1 .. fn.n
    BY DEF WellFormed
  <2>2. Field \in Extern .. fn.n
    BY <2>1 DEF Field, Extern
  <2> QED
    BY <2>1, <2>2 DEF Operands
<1>2. CASE v \in fn.inlined
  BY <1>1, <1>2, Computes DEF Operand
<1>3. CASE v \notin fn.inlined
  <2>1. {"addressOf", "field", "leaf"} \subseteq Sayings /\ 0 \in Nat
    BY DEF Names, Sayings
  <2>2. \A name \in Sayings : <<name, v, 0>> \in Meanings
    BY <1>1, <2>1, MeaningIs
  <2> QED
    BY <1>3, <2>1, <2>2 DEF Operand
<1> QED
  BY <1>2, <1>3

(* A leaf.                                                                 *)
LEMMA GivesLeaf ==
  ASSUME NEW m \in Meanings, Parts(m) = <<>>, NEW type,
         type \in {"CALL", "RETURN", "IDENTIFIER", "LITERAL", "FIELD_IDENTIFIER", "UNKNOWN"},
         type = "IDENTIFIER" => m[2] \in LocalsDomain \cup {Extern},
         type = "LITERAL" => m[2] \in {Constant, Global}
  PROVE  Gives(Node(type, m[1], m[2]), <<Entry(m, 1)>>)
<1> DEFINE t == [do |-> "node", type |-> type, name |-> m[1], of |-> m[2]]
<1>1. m[1] \in Names /\ m[2] \in Extern .. fn.n
  BY DEF Meanings, Sayings
<1>2. t \in Created /\ t.do = "node" /\ t.name = m[1] /\ t.of = m[2]
      /\ Node(type, m[1], m[2]) = <<t>>
  BY <1>1 DEF Created, Node
<1> HIDE DEF t
<1> QED
  BY <1>2, GivesNode

Upto(args, k) == [j \in 1 .. k |-> Operand(args[j])]

LEMMA GivesValues ==
  ASSUME WellFormed(fn), NEW args \in Seq(Operands)
  PROVE  /\ Upto(args, Len(args)) \in Seq(Meanings)
         /\ Len(Upto(args, Len(args))) = Len(args)
         /\ Gives(Values(args), Whole(Upto(args, Len(args))))
<1> DEFINE m == Len(args)
<1>1. m \in Nat /\ \A k \in 1 .. m : args[k] \in Operands
  OBVIOUS
<1>2. \A k \in 1 .. m : /\ Operand(args[k]) \in Meanings
                        /\ Gives(Value(args[k]), <<Entry(Operand(args[k]), 1)>>)
  BY <1>1, OperandIs, GivesValue
<1>3. ASSUME NEW k \in Nat, k <= m
      PROVE  Upto(args, k) \in Seq(Meanings) /\ Len(Upto(args, k)) = k
  <2>1. \A j \in 1 .. k : Operand(args[j]) \in Meanings
    <3>1. \A j \in 1 .. k : j \in 1 .. m
      BY <1>1, <1>3
    <3> HIDE DEF m
    <3> QED
      BY <1>2, <3>1
  <2>2. Upto(args, k) \in [1 .. k -> Meanings]
    BY <2>1 DEF Upto
  <2> QED
    BY <2>2, SeqIsFunction
<1>4. PICK F : /\ F[0] = <<>> /\ Values(args) = F[m]
               /\ \A k \in 1 .. m : F[k] = F[k - 1] \o Value(args[k])
  BY ValuesAre
<1> DEFINE Good == {k \in Nat : k <= m => Gives(F[k], Whole(Upto(args, k)))}
<1>5. 0 \in Good
  <2>1. Upto(args, 0) = <<>>
    BY DEF Upto
  <2>2. Gives(<<>>, <<>>)
    <3>1. <<>> \in Seq(Tasks) /\ <<>> \in Stacks
      BY DEF Stacks
    <3>2. \A a \in Stacks : Leads(<<>>, a \o <<>>, a \o <<>>)
      BY <3>1, LeadsNothing, Joined DEF Stacks
    <3> QED
      BY <3>1, <3>2 DEF Gives, Takes
  <2> QED
    BY <1>4, <2>1, <2>2, WholeOf
<1>6. ASSUME NEW k \in Nat, k \in Good PROVE k + 1 \in Good
  <2> SUFFICES ASSUME k + 1 <= m PROVE Gives(F[k + 1], Whole(Upto(args, k + 1)))
    OBVIOUS
  <2>1. k + 1 \in 1 .. m /\ (k + 1) - 1 = k /\ k <= m
    BY <1>1
  <2>2. F[k + 1] = F[k] \o Value(args[k + 1])
    BY <1>4, <2>1
  <2>3. Gives(F[k], Whole(Upto(args, k)))
    BY <1>6, <2>1
  <2> DEFINE e == Entry(Operand(args[k + 1]), 1)
             w == Whole(Upto(args, k))
  <2>4. Whole(Upto(args, k + 1)) = w \o <<e>>
    <3>1. Len(Upto(args, k)) = k /\ Len(Upto(args, k + 1)) = k + 1
      BY <1>3, <2>1
    <3>2. w = [j \in 1 .. k |-> Entry(Operand(args[j]), 1)]
      BY <3>1 DEF Whole, Upto
    <3>3. Whole(Upto(args, k + 1)) = [j \in 1 .. k + 1 |-> Entry(Operand(args[j]), 1)]
      BY <3>1 DEF Whole, Upto
    <3>4. w \in Seq(Entries) /\ Len(w) = k /\ e \in Entries
      BY <1>2, <1>3, <2>1, <3>1, WholeIs, EntryIs DEF Stacks
    <3>5. /\ Len(w \o <<e>>) = k + 1
          /\ \A j \in 1 .. k + 1 : (w \o <<e>>)[j] = IF j <= k THEN w[j] ELSE e
          /\ w \o <<e>> \in Seq(Entries)
      <4> HIDE DEF w, e
      <4> QED
        BY <3>4
    <3>6. w \o <<e>> = [j \in 1 .. k + 1 |-> (w \o <<e>>)[j]]
      <4> HIDE DEF w, e
      <4> QED
        BY <3>5
    <3>7. \A j \in 1 .. k + 1 : (w \o <<e>>)[j] = Entry(Operand(args[j]), 1)
      <4>1. \A j \in 1 .. k + 1 : j <= k \/ j = k + 1
        OBVIOUS
      <4>2. \A j \in 1 .. k + 1 : j <= k => w[j] = Entry(Operand(args[j]), 1)
        BY <3>2
      <4> HIDE DEF w
      <4> QED
        BY <3>5, <4>1, <4>2 DEF e
    <3> HIDE DEF w, e
    <3> QED
      BY <3>3, <3>6, <3>7
  <2>5. Gives(Value(args[k + 1]), <<e>>)
    BY <1>2, <2>1
  <2> HIDE DEF e, w, Good
  <2> QED
    BY <2>2, <2>3, <2>4, <2>5, GivesBoth DEF w
<1>7. m \in Good
  <2> HIDE DEF Good
  <2> QED
    BY <1>1, <1>5, <1>6, Inductive
<1> QED
  BY <1>1, <1>3, <1>4, <1>7

LEMMA PartsOf ==
  ASSUME NEW i, NEW k
  PROVE  /\ Parts(<<"access", i, k>>) = <<Path(i, k - 1), Operand(fn.args[i][k])>>
         /\ Parts(<<"pointerShift", i, k>>) = <<Operand(fn.args[i][1]), Operand(fn.args[i][2])>>
         /\ Parts(<<"cast", i, k>>) = <<<<"type", i, 0>>, Operand(fn.args[i][1])>>
         /\ Parts(<<"addressOf", i, k>>) = <<<<"leaf", i, 0>>>>
         /\ Parts(<<"call", i, k>>) = AllOperands(i) /\ Parts(<<"return", i, k>>) = AllOperands(i)
         /\ Parts(<<"op", i, k>>) = IF fn.kind[i] = "op" THEN AllOperands(i) ELSE <<>>
         /\ Parts(<<"indirection", i, k>>)
              = IF fn.kind[i] = "store" THEN <<Operand(fn.args[i][2])>>
                ELSE <<Operand(fn.args[i][1])>>
         /\ Parts(<<"assignment", i, k>>)
              = IF fn.kind[i] = "store"
                THEN <<<<"indirection", i, 0>>, Operand(fn.args[i][1])>>
                ELSE <<<<"leaf", i, 0>>, Result(i)>>
         /\ \A name \in {"type", "leaf", "field", "unreachable", "noop"} :
              Parts(<<name, i, k>>) = <<>>
<1>1. \A name : <<name, i, k>>[1] = name /\ <<name, i, k>>[2] = i /\ <<name, i, k>>[3] = k
  OBVIOUS
<1>2. /\ Parts(<<"access", i, k>>) = <<Path(i, k - 1), Operand(fn.args[i][k])>>
      /\ Parts(<<"pointerShift", i, k>>) = <<Operand(fn.args[i][1]), Operand(fn.args[i][2])>>
      /\ Parts(<<"cast", i, k>>) = <<<<"type", i, 0>>, Operand(fn.args[i][1])>>
      /\ Parts(<<"addressOf", i, k>>) = <<<<"leaf", i, 0>>>>
  BY <1>1 DEF Parts
<1>3. /\ Parts(<<"call", i, k>>) = AllOperands(i) /\ Parts(<<"return", i, k>>) = AllOperands(i)
      /\ Parts(<<"op", i, k>>) = IF fn.kind[i] = "op" THEN AllOperands(i) ELSE <<>>
  BY <1>1 DEF Parts
<1>4. Parts(<<"indirection", i, k>>)
        = IF fn.kind[i] = "store" THEN <<Operand(fn.args[i][2])>>
          ELSE <<Operand(fn.args[i][1])>>
  BY <1>1 DEF Parts
<1>5. Parts(<<"assignment", i, k>>)
        = IF fn.kind[i] = "store" THEN <<<<"indirection", i, 0>>, Operand(fn.args[i][1])>>
          ELSE <<<<"leaf", i, 0>>, Result(i)>>
  BY <1>1 DEF Parts
<1>6. \A name \in {"type", "leaf", "field", "unreachable", "noop"} : Parts(<<name, i, k>>) = <<>>
  BY <1>1 DEF Parts
<1> QED
  BY <1>2, <1>3, <1>4, <1>5, <1>6

LEMMA GivesIndex ==
  ASSUME WellFormed(fn), NEW v \in Operands \cup {Field}
  PROVE  Gives(Index(v), <<Entry(Operand(v), 1)>>)
<1>1. Operand(v) \in Meanings
  BY OperandIs
<1>2. CASE v = Field
  <2> DEFINE m == <<"field", v, 0>>
  <2>1. v \notin fn.inlined /\ v # Global
    <3>1. fn.n \in Nat /\ fn.inlined \subseteq 1 .. fn.n
      BY DEF WellFormed
    <3> QED
      BY <1>2, <3>1 DEF Field, Global
  <2>2. Operand(v) = m
    BY <1>2, <2>1 DEF Operand
  <2>3. m[1] = "field" /\ m[2] = v /\ Parts(m) = <<>>
    BY PartsOf
  <2>4. Index(v) = Node("FIELD_IDENTIFIER", "field", v)
    BY <1>2 DEF Index
  <2> HIDE DEF m
  <2> QED
    BY <1>1, <2>2, <2>3, <2>4, GivesLeaf
<1>3. CASE v # Field
  BY <1>1, <1>3, GivesValue DEF Index
<1> QED
  BY <1>2, <1>3

LEMMA Pairs ==
  ASSUME NEW S, NEW x \in S, NEW y \in S
  PROVE  /\ <<x>> \in Seq(S) /\ Len(<<x>>) = 1
         /\ <<x, y>> \in Seq(S) /\ Len(<<x, y>>) = 2
OBVIOUS

(* Two arguments and what joins them.                                      *)
LEMMA GivesPair ==
  ASSUME NEW m \in Meanings, NEW x \in Meanings, NEW y \in Meanings, Parts(m) = <<x, y>>,
         NEW s, NEW t, Gives(s, <<Entry(x, 1)>>), Gives(t, <<Entry(y, 1)>>)
  PROVE  Gives(((s \o t) \o Op(m[1], m[2])) \o Resolve(2), <<Entry(m, 1)>>)
<1>1. <<x, y>> \in Seq(Meanings) /\ Len(<<x, y>>) = 2
  BY Pairs, Zenon
<1>2. Gives(s \o t, Whole(<<x, y>>))
  <2>1. Gives(s \o t, <<Entry(x, 1)>> \o <<Entry(y, 1)>>)
    BY GivesBoth
  <2>2. Whole(<<x, y>>) = <<Entry(x, 1)>> \o <<Entry(y, 1)>>
    BY WholeOf
  <2> QED
    BY <2>1, <2>2
<1>3. Gives(((s \o t) \o Op(m[1], m[2])) \o Resolve(Len(Parts(m))), <<Entry(m, 1)>>)
  BY <1>1, <1>2, GivesOp
<1> QED
  BY <1>1, <1>3

LEMMA GivesSingle ==
  ASSUME NEW m \in Meanings, NEW x \in Meanings, Parts(m) = <<x>>,
         NEW s, Gives(s, <<Entry(x, 1)>>)
  PROVE  Gives((s \o Op(m[1], m[2])) \o Resolve(1), <<Entry(m, 1)>>)
<1>1. <<x>> \in Seq(Meanings) /\ Len(<<x>>) = 1
  BY Pairs, Zenon
<1>2. Gives(s, Whole(<<x>>))
  BY WholeOf
<1>3. Gives((s \o Op(m[1], m[2])) \o Resolve(Len(Parts(m))), <<Entry(m, 1)>>)
  BY <1>1, <1>2, GivesOp
<1> QED
  BY <1>1, <1>3

LEMMA GivesAccesses ==
  ASSUME WellFormed(fn), NEW i \in 1 .. fn.n, NEW first \in {1, 2},
         fn.kind[i] = IF first = 2 THEN "gep" ELSE "extract"
  PROVE  /\ Path(i, Len(fn.args[i])) \in Meanings
         /\ Gives(Accesses(i, first), <<Entry(Path(i, Len(fn.args[i])), 1)>>)
<1> DEFINE args == fn.args[i]
           m == Len(args)
<1>1. /\ fn.n \in Nat /\ m \in Nat /\ m >= first
      /\ args \in Seq(Operands \cup {Field})
      /\ \A k \in 1 .. m : args[k] \in Operands \cup {Field}
      /\ \A k \in 1 .. first : k \in 1 .. m /\ args[k] \in Operands
  <2>1. /\ fn.n \in Nat /\ m \in Nat /\ m >= Arity(fn.kind[i])
        /\ args \in Seq(Operands \cup {Field})
        /\ \A k \in 1 .. m : k = 1 \/ (k = 2 /\ fn.kind[i] = "gep") => args[k] \in Operands
    BY OperandsOf
  <2>2. Arity(fn.kind[i]) = first
    BY DEF Arity
  <2>3. \A k \in 1 .. m : args[k] \in Operands \cup {Field}
    BY <2>1, SeqMember
  <2> HIDE DEF args, m
  <2> QED
    BY <2>1, <2>2, <2>3
<1>2. \A k \in 1 .. m : Operand(args[k]) \in Meanings
  BY <1>1, OperandIs
<1>3. \A k \in first .. m : Path(i, k) \in Meanings
  <2>1. 1 \in 1 .. m
    BY <1>1
  <2>2. \A k \in first .. m : k \in Nat
    BY <1>1
  <2>3. Operand(fn.args[i][1]) \in Meanings
    BY <1>2, <2>1
  <2> QED
    BY <2>2, <2>3, Computes DEF Path
<1>4. PICK F : /\ F[first] = FirstAccess(i, first) /\ Accesses(i, first) = F[m]
               /\ \A k \in first + 1 .. m : F[k] = NextAccess(i, F[k - 1], k)
  BY <1>1, AccessesAre
<1>5. Gives(FirstAccess(i, first), <<Entry(Path(i, first), 1)>>)
  <2>1. Gives(Value(args[1]), <<Entry(Operand(args[1]), 1)>>)
    BY <1>1, <1>2, GivesValue
  <2>2. CASE first = 2
    <3> DEFINE p == <<"pointerShift", i, 0>>
               x == Operand(args[1])
               y == Operand(args[2])
    <3>1. Path(i, 2) = p
      BY <2>2 DEF Path, Access
    <3>2. p \in Meanings /\ p[1] = "pointerShift" /\ p[2] = i /\ Parts(p) = <<x, y>>
      <4>1. 2 \in first .. m
        BY <1>1, <2>2
      <4>2. p \in Meanings
        BY <1>3, <3>1, <4>1
      <4>3. Parts(p) = <<x, y>>
        BY PartsOf
      <4>4. p[1] = "pointerShift" /\ p[2] = i
        OBVIOUS
      <4> QED
        BY <4>2, <4>3, <4>4
    <3>3. Gives(Value(args[2]), <<Entry(y, 1)>>) /\ x \in Meanings /\ y \in Meanings
      BY <1>1, <1>2, <2>2, GivesValue
    <3>4. /\ Value(args[1]) \in Seq(Tasks) /\ Value(args[2]) \in Seq(Tasks)
          /\ Op("pointerShift", i) \in Seq(Tasks) /\ Resolve(2) \in Seq(Tasks)
      <4>1. Value(args[1]) \in Seq(Tasks) /\ Value(args[2]) \in Seq(Tasks)
        BY <2>1, <3>3 DEF Gives, Takes
      <4>2. i \in Extern .. fn.n
        BY OperandsOf
      <4> QED
        BY <4>1, <4>2 DEF Op, Node, Tasks, Created, Names, Resolve
    <3> DEFINE op == Op("pointerShift", i)
    <3> HIDE DEF p, x, y
    <3>5. Gives(((Value(args[1]) \o Value(args[2])) \o op) \o Resolve(2), <<Entry(p, 1)>>)
      BY <2>1, <3>2, <3>3, GivesPair DEF x
    <3>6. FirstAccess(i, first) = Value(args[1]) \o ((Value(args[2]) \o op) \o Resolve(2))
      BY <2>2 DEF FirstAccess
    <3> HIDE DEF op
    <3>7. ((Value(args[1]) \o Value(args[2])) \o op) \o Resolve(2)
            = Value(args[1]) \o ((Value(args[2]) \o op) \o Resolve(2))
      <4> DEFINE a == Value(args[1])
                 b == Value(args[2])
                 r == Resolve(2)
      <4>1. a \in Seq(Tasks) /\ b \in Seq(Tasks) /\ op \in Seq(Tasks) /\ r \in Seq(Tasks)
        BY <3>4 DEF op
      <4> HIDE DEF a, b, r
      <4>2. b \o op \in Seq(Tasks) /\ a \o b \in Seq(Tasks)
        BY <4>1
      <4>3. (a \o b) \o op = a \o (b \o op)
        BY <4>1, Associative
      <4>4. (a \o (b \o op)) \o r = a \o ((b \o op) \o r)
        BY <4>1, <4>2, Associative
      <4>5. ((a \o b) \o op) \o r = a \o ((b \o op) \o r)
        BY <4>3, <4>4
      <4> QED
        BY <4>5 DEF a, b, r
    <3> QED
      BY <2>2, <3>1, <3>5, <3>6, <3>7
  <2>3. CASE first = 1
    <3>1. Path(i, 1) = Operand(args[1])
      BY <2>3 DEF Path
    <3>2. FirstAccess(i, first) = Value(args[1]) \o <<>>
      BY <2>3 DEF FirstAccess
    <3>3. Value(args[1]) \o <<>> = Value(args[1])
      <4>1. Value(args[1]) \in Seq(Tasks)
        BY <2>1 DEF Gives, Takes
      <4> QED
        BY <4>1
    <3> QED
      BY <2>1, <2>3, <3>1, <3>2, <3>3
  <2> QED
    BY <2>2, <2>3
<1> DEFINE Good == {k \in Nat : k + first <= m => Gives(F[k + first], <<Entry(Path(i, k + first), 1)>>)}
<1>6. 0 \in Good
  <2>1. 0 + first = first
    OBVIOUS
  <2> QED
    BY <1>4, <1>5, <2>1
<1>7. ASSUME NEW k \in Nat, k \in Good PROVE k + 1 \in Good
  <2> DEFINE n == k + 1 + first
  <2> SUFFICES ASSUME n <= m PROVE Gives(F[n], <<Entry(Path(i, n), 1)>>)
    OBVIOUS
  <2>1. /\ n \in first + 1 .. m /\ n - 1 = k + first /\ n \in 1 .. m /\ n - 1 \in first .. m
        /\ n \in first .. m /\ k + first <= m /\ n > first
    BY <1>1
  <2>2. Gives(F[n - 1], <<Entry(Path(i, n - 1), 1)>>)
    BY <1>7, <2>1
  <2> HIDE DEF n, Good
  <2> DEFINE a == <<"access", i, n>>
  <2>3. Path(i, n) = a
    BY <2>1 DEF Path, Access
  <2>4. a \in Meanings /\ a[1] = "access" /\ a[2] = i
        /\ Parts(a) = <<Path(i, n - 1), Operand(args[n])>>
    BY <1>3, <2>1, <2>3, PartsOf
  <2>5. Gives(Index(args[n]), <<Entry(Operand(args[n]), 1)>>)
    BY <1>1, <2>1, GivesIndex
  <2>6. Path(i, n - 1) \in Meanings /\ Operand(args[n]) \in Meanings
    BY <1>2, <1>3, <2>1
  <2>7. F[n] = NextAccess(i, F[n - 1], n)
    BY <1>4, <2>1
  <2> HIDE DEF a
  <2>8. Gives(((F[n - 1] \o Index(args[n])) \o Op("access", i)) \o Resolve(2), <<Entry(a, 1)>>)
    BY <2>2, <2>4, <2>5, <2>6, GivesPair
  <2> QED
    BY <2>3, <2>7, <2>8 DEF NextAccess
<1>8. m - first \in Good
  <2>1. m - first \in Nat
    BY <1>1
  <2> HIDE DEF Good
  <2> QED
    BY <1>6, <1>7, <2>1, Inductive
<1>9. (m - first) + first = m /\ m \in first .. m
  BY <1>1
<1>10. Gives(F[m], <<Entry(Path(i, m), 1)>>)
  <2>1. (m - first) + first <= m
    BY <1>1, <1>9
  <2>2. Gives(F[(m - first) + first], <<Entry(Path(i, (m - first) + first), 1)>>)
    BY <1>8, <2>1
  <2> HIDE DEF m
  <2> QED
    BY <1>9, <2>2
<1>11. Path(i, m) \in Meanings
  BY <1>3, <1>9
<1> QED
  BY <1>4, <1>10, <1>11

LEMMA AllOperandsAre ==
  ASSUME WellFormed(fn), NEW i \in 1 .. fn.n, fn.args[i] \in Seq(Operands)
  PROVE  /\ AllOperands(i) \in Seq(Meanings) /\ Len(AllOperands(i)) = Len(fn.args[i])
         /\ Gives(Values(fn.args[i]), Whole(AllOperands(i)))
<1>1. AllOperands(i) = Upto(fn.args[i], Len(fn.args[i]))
  BY DEF AllOperands, Upto
<1> QED
  BY <1>1, GivesValues

(* The receiver of an indirect call is its first argument.                 *)
LEMMA GivesReceived ==
  ASSUME WellFormed(fn), NEW args \in Seq(Operands), Len(args) >= 1
  PROVE  Gives((Value(args[1]) \o Receive) \o Values(Tail(args)), Whole(Upto(args, Len(args))))
<1> DEFINE m == Len(args)
           e == Entry(Operand(args[1]), 1)
           rest == Upto(Tail(args), m - 1)
<1>1. /\ m \in Nat /\ m - 1 \in Nat /\ args[1] \in Operands
      /\ Tail(args) \in Seq(Operands) /\ Len(Tail(args)) = m - 1
      /\ \A j \in 1 .. m - 1 : Tail(args)[j] = args[j + 1]
  OBVIOUS
<1>2. Operand(args[1]) \in Meanings
  BY <1>1, OperandIs
<1>3. e \in Entries /\ <<e>> \in Stacks
  BY <1>2, EntryIs
<1>4. Gives(Value(args[1]) \o Receive, <<e>>)
  <2>1. Gives(Value(args[1]), <<e>>)
    BY <1>1, <1>2, GivesValue
  <2>2. Takes(Receive, <<e>>, <<e>>)
    BY <1>3, TakesReceive
  <2> HIDE DEF e
  <2> QED
    BY <2>1, <2>2, TakesBoth DEF Gives
<1>5. rest \in Seq(Meanings) /\ Len(rest) = m - 1 /\ Gives(Values(Tail(args)), Whole(rest))
  BY <1>1, GivesValues
<1>6. Whole(Upto(args, m)) = <<e>> \o Whole(rest)
  <2>1. Len(Upto(args, m)) = m /\ Whole(rest) \in Seq(Entries) /\ Len(Whole(rest)) = m - 1
    BY <1>5, GivesValues, WholeIs DEF Stacks
  <2>2. Whole(Upto(args, m)) = [j \in 1 .. m |-> Entry(Operand(args[j]), 1)]
    BY <2>1 DEF Whole, Upto
  <2>3. Whole(rest) = [j \in 1 .. m - 1 |-> Entry(Operand(args[j + 1]), 1)]
    <3>1. \A j \in 1 .. m - 1 : rest[j] = Operand(args[j + 1])
      BY <1>1 DEF Upto
    <3> HIDE DEF rest
    <3> QED
      BY <1>5, <3>1 DEF Whole
  <2> DEFINE w == Whole(rest)
             both == <<e>> \o w
  <2>4. /\ both \in Seq(Entries) /\ Len(both) = m
        /\ \A j \in 1 .. m : both[j] = IF j = 1 THEN e ELSE w[j - 1]
    <3> HIDE DEF w, e
    <3>1. <<e>> \in Seq(Entries) /\ Len(<<e>>) = 1 /\ <<e>>[1] = e /\ w \in Seq(Entries)
          /\ Len(w) = m - 1
      BY <1>3, <2>1 DEF w
    <3>2. /\ both \in Seq(Entries) /\ Len(both) = Len(<<e>>) + Len(w)
          /\ \A j \in 1 .. Len(<<e>>) + Len(w) :
               both[j] = IF j <= Len(<<e>>) THEN <<e>>[j] ELSE w[j - Len(<<e>>)]
      BY <3>1, ConcatProperties
    <3> HIDE DEF both
    <3> QED
      BY <1>1, <3>1, <3>2
  <2>5. \A j \in 1 .. m : both[j] = Entry(Operand(args[j]), 1)
    <3>1. ASSUME NEW j \in 1 .. m, j # 1 PROVE w[j - 1] = Entry(Operand(args[j]), 1)
      <4>1. j - 1 \in 1 .. m - 1 /\ (j - 1) + 1 = j
        BY <1>1, <3>1
      <4>2. w[j - 1] = Entry(Operand(args[(j - 1) + 1]), 1)
        BY <2>3, <4>1
      <4> HIDE DEF w
      <4> QED
        BY <4>1, <4>2
    <3> HIDE DEF w, both
    <3> QED
      BY <2>4, <3>1
  <2>6. both = [j \in 1 .. m |-> both[j]]
    <3> HIDE DEF both
    <3> QED
      BY <2>4
  <2> HIDE DEF both
  <2>7. both = [j \in 1 .. m |-> Entry(Operand(args[j]), 1)]
    BY <2>5, <2>6
  <2> QED
    BY <2>2, <2>7 DEF both
<1> HIDE DEF e, rest
<1>7. Gives((Value(args[1]) \o Receive) \o Values(Tail(args)), <<e>> \o Whole(rest))
  BY <1>4, <1>5, GivesBoth
<1> QED
  BY <1>6, <1>7

LEMMA GivesExpression ==
  ASSUME WellFormed(fn), NEW i \in 1 .. fn.n, fn.kind[i] \in Emitted
  PROVE  Result(i) \in Meanings /\ Gives(Expression(i), <<Entry(Result(i), 1)>>)
<1> DEFINE args == fn.args[i]
           kind == fn.kind[i]
           m == Len(args)
<1>1. /\ fn.n \in Nat /\ i \in Extern .. fn.n /\ m \in Nat /\ m >= Arity(kind)
      /\ args \in Seq(Operands \cup {Field})
      /\ kind \notin {"gep", "extract"} => args \in Seq(Operands)
      /\ \A k \in 1 .. m : k = 1 \/ (k = 2 /\ kind = "gep") => args[k] \in Operands
  BY OperandsOf
<1>2. Computed(i) \in Meanings
  BY Computes
<1>3. CASE kind = "load"
  <2> DEFINE r == <<"indirection", i, 0>>
             x == Operand(args[1])
  <2>1. Arity(kind) = 1 /\ Result(i) = r /\ r = Computed(i)
    BY <1>3 DEF Arity, Result, Computed
  <2>2. args[1] \in Operands
    BY <1>1, <2>1
  <2>3. x \in Meanings /\ Gives(Value(args[1]), <<Entry(x, 1)>>)
    BY <2>2, OperandIs, GivesValue
  <2>4. Parts(r) = <<x>> /\ r[1] = "indirection" /\ r[2] = i
    BY <1>3, PartsOf
  <2>5. Expression(i) = (Value(args[1]) \o Op("indirection", i)) \o Resolve(1)
    BY <1>3 DEF Expression
  <2> HIDE DEF r, x
  <2>6. Gives((Value(args[1]) \o Op(r[1], r[2])) \o Resolve(1), <<Entry(r, 1)>>)
    BY <1>2, <2>1, <2>3, <2>4, GivesSingle
  <2> QED
    BY <1>2, <2>1, <2>4, <2>5, <2>6
<1>4. CASE kind = "cast"
  <2> DEFINE r == <<"cast", i, 0>>
             t == <<"type", i, 0>>
             x == Operand(args[1])
  <2>1. Arity(kind) = 1 /\ Result(i) = r /\ r = Computed(i)
    BY <1>4 DEF Arity, Result, Computed
  <2>2. args[1] \in Operands
    BY <1>1, <2>1
  <2>3. x \in Meanings /\ Gives(Value(args[1]), <<Entry(x, 1)>>)
    BY <2>2, OperandIs, GivesValue
  <2>4. Parts(r) = <<t, x>> /\ r[1] = "cast" /\ r[2] = i
    BY PartsOf
  <2>5. t \in Meanings /\ Parts(t) = <<>> /\ t[1] = "type" /\ t[2] = i
    <3>1. "type" \in Sayings /\ 0 \in Nat
      BY DEF Names, Sayings
    <3>2. t \in Meanings
      BY <1>1, <3>1, MeaningIs
    <3>3. Parts(t) = <<>>
      BY PartsOf
    <3> QED
      BY <3>2, <3>3
  <2>6. Expression(i) = ((Node("UNKNOWN", "type", i) \o Value(args[1])) \o Op("cast", i))
                          \o Resolve(2)
    BY <1>4 DEF Expression
  <2> HIDE DEF r, x, t
  <2>7. Gives(Node("UNKNOWN", "type", i), <<Entry(t, 1)>>)
    BY <2>5, GivesLeaf
  <2>8. Gives(((Node("UNKNOWN", "type", i) \o Value(args[1])) \o Op(r[1], r[2])) \o Resolve(2),
              <<Entry(r, 1)>>)
    BY <1>2, <2>1, <2>3, <2>4, <2>5, <2>7, GivesPair
  <2> QED
    BY <1>2, <2>1, <2>4, <2>6, <2>8
<1>5. CASE kind \in {"gep", "extract"}
  <2> DEFINE first == IF kind = "gep" THEN 2 ELSE 1
  <2>1. Expression(i) = Accesses(i, first)
    BY <1>5 DEF Expression
  <2>2. first \in {1, 2} /\ kind = IF first = 2 THEN "gep" ELSE "extract"
    BY <1>5
  <2>3. Result(i) = Path(i, m)
    BY <1>5 DEF Result, Path, Computed
  <2> HIDE DEF first
  <2> QED
    BY <2>1, <2>2, <2>3, GivesAccesses
<1>6. CASE kind = "op"
  <2> DEFINE r == <<"op", i, 0>>
  <2>1. Result(i) = r /\ r = Computed(i)
    BY <1>6 DEF Result, Computed
  <2>2. AllOperands(i) \in Seq(Meanings) /\ Len(AllOperands(i)) = m
        /\ Gives(Values(args), Whole(AllOperands(i)))
    BY <1>1, <1>6, AllOperandsAre
  <2>3. Parts(r) = AllOperands(i) /\ r[1] = "op" /\ r[2] = i
    BY <1>6, PartsOf
  <2>4. Expression(i) = (Values(args) \o Op("op", i)) \o Resolve(m)
    BY <1>6 DEF Expression
  <2> HIDE DEF r
  <2>5. Gives((Values(args) \o Op(r[1], r[2])) \o Resolve(Len(Parts(r))), <<Entry(r, 1)>>)
    BY <1>2, <2>1, <2>2, <2>3, GivesOp
  <2> QED
    BY <1>2, <2>1, <2>2, <2>3, <2>4, <2>5
<1>7. CASE kind \in {"call", "vcall", "invoke", "icall"}
  <2> DEFINE t == [do |-> "begin", type |-> "CALL", name |-> "call", of |-> i]
             r == <<"call", i, 0>>
             w == Whole(AllOperands(i))
  <2>1. t \in Created /\ t.name = "call" /\ t.of = i /\ Begin("CALL", "call", i) = <<t>>
    BY <1>1 DEF Created, Begin, Names
  <2>2. Result(i) = r /\ r = Computed(i)
    BY <1>7 DEF Result, Computed
  <2>3. args \in Seq(Operands)
    BY <1>1, <1>7
  <2>4. AllOperands(i) \in Seq(Meanings) /\ Len(AllOperands(i)) = m /\ Gives(Values(args), w)
    BY <2>3, AllOperandsAre
  <2>5. Parts(r) = AllOperands(i) /\ r[1] = "call" /\ r[2] = i
    BY PartsOf
  <2> HIDE DEF r, t, w
  <2>6. ASSUME NEW s, Gives(s, w), Expression(i) = (<<t>> \o s) \o Close(m)
        PROVE  Gives(Expression(i), <<Entry(r, 1)>>)
    <3>1. Gives((<<t>> \o s) \o Close(Len(Parts(r))), <<Entry(r, 1)>>)
      BY <1>2, <2>1, <2>2, <2>4, <2>5, <2>6, GivesCall DEF w
    <3> QED
      BY <2>4, <2>5, <2>6, <3>1
  <2>7. CASE kind # "icall"
    <3>1. Expression(i) = (Begin("CALL", "call", i) \o Values(args)) \o Close(m)
      BY <1>7, <2>7 DEF Expression
    <3> QED
      BY <1>2, <2>1, <2>2, <2>4, <2>6, <3>1
  <2>8. CASE kind = "icall"
    <3> DEFINE fst == Value(args[1]) \o Receive
               rest == Values(Tail(args))
    <3>1. Arity(kind) = 1 /\ m >= 1
      BY <1>1, <2>8 DEF Arity
    <3>2. Gives(fst \o rest, w)
      <4>1. AllOperands(i) = Upto(args, m)
        BY DEF AllOperands, Upto
      <4>2. Gives(fst \o rest, Whole(Upto(args, m)))
        BY <2>3, <3>1, GivesReceived
      <4> QED
        BY <4>1, <4>2 DEF w
    <3>3. Expression(i) = (((Begin("CALL", "call", i) \o Value(args[1])) \o Receive)
                             \o rest) \o Close(m)
      BY <2>8 DEF Expression
    <3>4. /\ <<t>> \in Seq(Tasks) /\ Value(args[1]) \in Seq(Tasks) /\ Receive \in Seq(Tasks)
          /\ fst \in Seq(Tasks) /\ rest \in Seq(Tasks)
      <4>1. <<t>> \in Seq(Tasks) /\ Receive \in Seq(Tasks)
        BY <2>1 DEF Tasks, Receive
      <4>2. args[1] \in Operands /\ Tail(args) \in Seq(Operands)
        BY <2>3, <3>1
      <4>3. Value(args[1]) \in Seq(Tasks) /\ rest \in Seq(Tasks)
        BY <4>2, BuildsValue, BuildsValues DEF Builds, Turns
      <4> QED
        BY <4>1, <4>3
    <3>5. (<<t>> \o Value(args[1])) \o Receive = <<t>> \o fst
      BY <3>4, Associative
    <3> HIDE DEF fst, rest
    <3>6. (<<t>> \o fst) \o rest = <<t>> \o (fst \o rest)
      BY <3>4, Associative
    <3>7. Expression(i) = (<<t>> \o (fst \o rest)) \o Close(m)
      BY <2>1, <3>3, <3>5, <3>6
    <3> QED
      BY <1>2, <2>2, <2>6, <3>2, <3>7
  <2> QED
    BY <2>7, <2>8
<1>8. CASE kind \in {"unhandled", "fence", "resume"}
  <2> DEFINE r == <<"op", i, 0>>
  <2>1. Result(i) = r /\ r = Computed(i)
    BY <1>8 DEF Result, Computed
  <2>2. Parts(r) = <<>> /\ r[1] = "op" /\ r[2] = i
    BY <1>8, PartsOf
  <2>3. Expression(i) = Op("op", i) \o Resolve(0)
    BY <1>8 DEF Expression
  <2>4. Gives(<<>>, Whole(<<>>)) /\ <<>> \in Seq(Meanings) /\ Len(<<>>) = 0
    <3>1. <<>> \in Seq(Tasks) /\ <<>> \in Stacks /\ <<>> \in Seq(Meanings)
      BY Joined DEF Stacks
    <3>2. \A a \in Stacks : Leads(<<>>, a \o <<>>, a \o <<>>)
      BY <3>1, LeadsNothing, Joined DEF Stacks
    <3>3. Len(<<>>) = 0
      OBVIOUS
    <3> QED
      BY <3>1, <3>2, <3>3, WholeOf DEF Gives, Takes
  <2>5. <<>> \o Op("op", i) = Op("op", i)
    BY DEF Op, Node
  <2> HIDE DEF r
  <2>6. Gives((<<>> \o Op(r[1], r[2])) \o Resolve(Len(Parts(r))), <<Entry(r, 1)>>)
    BY <1>2, <2>1, <2>2, <2>4, GivesOp
  <2> QED
    BY <1>2, <2>1, <2>2, <2>3, <2>4, <2>5, <2>6
<1> QED
  BY <1>3, <1>4, <1>5, <1>6, <1>7, <1>8 DEF Emitted, HaveValue

(* emitRefOrConstant: what it emits for v means what v means.              *)
LEMMA GivesRefOrConstant ==
  ASSUME WellFormed(fn), DOMAIN locals = LocalsDomain, NEW v \in Operands
  PROVE  Gives(RefOrConstant(v), <<Entry(Operand(v), 1)>>)
<1>1. /\ v \in Extern .. fn.n /\ fn.n \in Nat /\ v # Field
      /\ v > 0 => v \in LocalVariables \cup fn.inlined
      /\ v = Parameter => fn.params > 0
      /\ fn.params \in Nat
      /\ \A i \in fn.inlined : i \in 1 .. fn.n /\ fn.kind[i] \in {"gep", "cast", "load"}
  BY DEF Operands, WellFormed
<1>2. Operand(v) \in Meanings
  BY OperandIs
<1>3. v \in fn.inlined <=> IsInlined(v)
  BY <1>1 DEF IsInlined
<1>4. CASE IsInlined(v)
  <2>1. v \in 1 .. fn.n /\ fn.kind[v] \in Emitted
    BY <1>1, <1>4 DEF IsInlined, Emitted, HaveValue
  <2>2. RefOrConstant(v) = Expression(v)
    BY <1>4 DEF RefOrConstant
  <2>3. Operand(v) = Result(v)
    <3>1. Operand(v) = Computed(v)
      BY <1>3, <1>4 DEF Operand
    <3>2. fn.kind[v] # "extract"
      BY <1>1, <1>3, <1>4
    <3> QED
      BY <3>1, <3>2 DEF Result
  <2> QED
    BY <2>1, <2>2, <2>3, GivesExpression
<1>5. CASE ~ IsInlined(v) /\ v = Global
  <2> DEFINE m == <<"addressOf", v, 0>>
             x == <<"leaf", v, 0>>
  <2>1. RefOrConstant(v) = (Node("LITERAL", "leaf", v) \o Op("addressOf", v)) \o Resolve(1)
    BY <1>5 DEF RefOrConstant
  <2>2. Operand(v) = m
    BY <1>3, <1>5 DEF Operand
  <2>3. Parts(m) = <<x>> /\ Parts(x) = <<>>
    BY PartsOf
  <2>4. m[1] = "addressOf" /\ m[2] = v /\ x[1] = "leaf" /\ x[2] = v
    OBVIOUS
  <2>5. x \in Meanings
    <3>1. "leaf" \in Sayings /\ 0 \in Nat
      BY DEF Names, Sayings
    <3> QED
      BY <1>1, <3>1, MeaningIs
  <2> HIDE DEF m, x
  <2>6. Gives(Node("LITERAL", "leaf", v), <<Entry(x, 1)>>)
    <3>1. x[2] \in {Constant, Global}
      BY <1>5, <2>4
    <3>2. Gives(Node("LITERAL", x[1], x[2]), <<Entry(x, 1)>>)
      BY <2>3, <2>5, <3>1, GivesLeaf
    <3> QED
      BY <2>4, <3>2
  <2>7. Gives((Node("LITERAL", "leaf", v) \o Op(m[1], m[2])) \o Resolve(1), <<Entry(m, 1)>>)
    BY <1>2, <2>2, <2>3, <2>5, <2>6, GivesSingle
  <2> QED
    BY <2>1, <2>2, <2>4, <2>7
<1>6. CASE ~ IsInlined(v) /\ v # Global
  <2> DEFINE x == <<"leaf", v, 0>>
             type == IF v \in LocalsDomain \cup {Extern} THEN "IDENTIFIER" ELSE "LITERAL"
  <2>1. RefOrConstant(v) = Node(type, "leaf", v)
    BY <1>6 DEF RefOrConstant
  <2>2. Operand(v) = x
    BY <1>1, <1>3, <1>6 DEF Operand
  <2>3. Parts(x) = <<>> /\ x[1] = "leaf" /\ x[2] = v
    BY PartsOf
  <2>4. type = "LITERAL" => v \in {Constant, Global}
    <3> SUFFICES ASSUME v \notin LocalsDomain \cup {Extern} PROVE v = Constant
      OBVIOUS
    <3>1. v <= 0
      BY <1>1, <1>6 DEF IsInlined, LocalsDomain, Extern
    <3>2. v = Parameter => v \in {Parameter : i \in 1 .. fn.params}
      BY <1>1
    <3>3. v # Parameter
      BY <3>2 DEF LocalsDomain
    <3> QED
      BY <1>1, <1>6, <3>1, <3>3 DEF Extern, Parameter, Global, Field, Constant
  <2>5. type = "IDENTIFIER" => v \in LocalsDomain \cup {Extern}
    OBVIOUS
  <2>6. type \in {"IDENTIFIER", "LITERAL"}
    OBVIOUS
  <2> HIDE DEF x, type
  <2>7. Gives(Node(type, x[1], x[2]), <<Entry(x, 1)>>)
    BY <1>2, <2>2, <2>3, <2>4, <2>5, <2>6, GivesLeaf
  <2> QED
    BY <2>1, <2>2, <2>3, <2>7
<1> QED
  BY <1>4, <1>5, <1>6

(* Both sides are there, the left one below the right one or above it.     *)
LEMMA GivesAssignment ==
  ASSUME NEW m \in Meanings, m[1] = "assignment",
         NEW x \in Meanings, NEW y \in Meanings, Parts(m) = <<x, y>>, NEW s
  PROVE  /\ Gives(s, <<Entry(x, 1)>> \o <<Entry(y, 1)>>) =>
              /\ Gives((s \o Op("assignment", m[2])) \o Resolve(2), <<Entry(m, 1)>>)
              /\ Gives(s \o (Op("assignment", m[2]) \o Resolve(2)), <<Entry(m, 1)>>)
         /\ Gives(s, <<Entry(y, 1)>> \o <<Entry(x, 1)>>) =>
              /\ Gives(((s \o Swap) \o Op("assignment", m[2])) \o Resolve(2), <<Entry(m, 1)>>)
              /\ Gives((s \o Swap) \o (Op("assignment", m[2]) \o Resolve(2)), <<Entry(m, 1)>>)
<1>1. ASSUME NEW t, Gives(t, <<Entry(x, 1)>> \o <<Entry(y, 1)>>)
      PROVE  /\ Gives((t \o Op("assignment", m[2])) \o Resolve(2), <<Entry(m, 1)>>)
             /\ Gives(t \o (Op("assignment", m[2]) \o Resolve(2)), <<Entry(m, 1)>>)
  <2>1. <<x, y>> \in Seq(Meanings) /\ Len(<<x, y>>) = 2
    BY Pairs, Zenon
  <2>2. Gives(t, Whole(<<x, y>>))
    BY <1>1, WholeOf
  <2>3. Gives((t \o Op(m[1], m[2])) \o Resolve(Len(Parts(m))), <<Entry(m, 1)>>)
    BY <2>1, <2>2, GivesOp
  <2>4. Gives((t \o Op("assignment", m[2])) \o Resolve(2), <<Entry(m, 1)>>)
    BY <2>1, <2>3
  <2>5. (t \o Op("assignment", m[2])) \o Resolve(2) = t \o (Op("assignment", m[2]) \o Resolve(2))
    <3>1. t \in Seq(Tasks)
      BY <1>1 DEF Gives, Takes
    <3>2. m[2] \in Extern .. fn.n
      BY DEF Meanings
    <3>3. Op("assignment", m[2]) \in Seq(Tasks) /\ Resolve(2) \in Seq(Tasks)
      BY <3>2 DEF Op, Node, Resolve, Tasks, Created, Names
    <3> QED
      BY <3>1, <3>3, Associative
  <2> QED
    BY <2>4, <2>5
<1>2. ASSUME Gives(s, <<Entry(y, 1)>> \o <<Entry(x, 1)>>)
      PROVE  Gives(s \o Swap, <<Entry(x, 1)>> \o <<Entry(y, 1)>>)
  <2>1. Entry(x, 1) \in Entries /\ Entry(y, 1) \in Entries
    BY EntryIs
  <2>2. Takes(Swap, <<Entry(y, 1)>> \o <<Entry(x, 1)>>, <<Entry(x, 1)>> \o <<Entry(y, 1)>>)
    BY <2>1, TakesSwap
  <2> QED
    BY <1>2, <2>2, TakesBoth DEF Gives
<1> QED
  BY <1>1, <1>2

LEMMA SaysIs ==
  ASSUME WellFormed(fn), NEW i \in 1 .. fn.n
  PROVE  Says(i) \in Meanings
<1>1. "assignment" \in Sayings /\ 0 \in Nat /\ i \in Extern .. fn.n
  BY OperandsOf DEF Names, Sayings
<1>2. <<"assignment", i, 0>> \in Meanings
  BY <1>1, MeaningIs
<1> QED
  BY <1>2, Computes DEF Says

LEMMA GivesStatement ==
  ASSUME WellFormed(fn), NEW i \in 1 .. fn.n, ~ IsInlined(i), fn.kind[i] \notin NoNode,
         NEW s \in Statement(i)
  PROVE  Gives(s, <<Entry(Says(i), 1)>>)
<1> DEFINE args == fn.args[i]
           kind == fn.kind[i]
           m == Len(args)
<1>1. /\ fn.n \in Nat /\ i \in Extern .. fn.n /\ m \in Nat /\ m >= Arity(kind)
      /\ kind \notin {"gep", "extract"} => args \in Seq(Operands)
      /\ kind \in Kinds
  BY OperandsOf
<1>2. CASE kind \in HaveValue
  <2> DEFINE r == <<"assignment", i, 0>>
             x == <<"leaf", i, 0>>
             y == Result(i)
  <2>1. i \in Operands /\ i \notin fn.inlined /\ i # Global /\ i # Field
    <3>1. i \in LocalVariables /\ i \notin fn.inlined
      BY <1>2 DEF LocalVariables, IsInlined
    <3> QED
      BY <1>1, <3>1 DEF Operands, Parameter, Field, Global
  <2>2. Operand(i) = x /\ Says(i) = r /\ Parts(r) = <<x, y>> /\ r[1] = "assignment" /\ r[2] = i
    <3>1. Operand(i) = x
      BY <2>1 DEF Operand
    <3>2. Says(i) = r
      BY <1>2 DEF Says
    <3>3. Parts(r) = <<x, y>>
      BY <1>2, PartsOf DEF HaveValue
    <3> QED
      BY <3>1, <3>2, <3>3
  <2>3. x \in Meanings
    BY <2>1, <2>2, OperandIs
  <2> HIDE DEF r, x, y
  <2>4. r \in Meanings
    BY <2>2, SaysIs
  <2>5. Gives(Value(i), <<Entry(x, 1)>>)
    BY <2>1, <2>2, <2>3, GivesValue
  <2>6. y \in Meanings /\ Gives(Expression(i), <<Entry(y, 1)>>)
    BY <1>2, GivesExpression DEF Emitted, y
  <2>7. /\ Gives(Value(i) \o Expression(i), <<Entry(x, 1)>> \o <<Entry(y, 1)>>)
        /\ Gives(Expression(i) \o Value(i), <<Entry(y, 1)>> \o <<Entry(x, 1)>>)
    BY <2>5, <2>6, GivesBoth
  <2>8. s \in Assignment(i)
    BY <1>2 DEF Statement, HaveValue
  <2> DEFINE assign == Op("assignment", i) \o Resolve(2)
  <2>9. s = (Value(i) \o Expression(i)) \o assign
         \/ s = ((Expression(i) \o Value(i)) \o Swap) \o assign
    BY <2>8 DEF Assignment
  <2>10. Gives((Value(i) \o Expression(i)) \o assign, <<Entry(r, 1)>>)
    BY <2>2, <2>3, <2>4, <2>6, <2>7, GivesAssignment
  <2>11. Gives(((Expression(i) \o Value(i)) \o Swap) \o assign, <<Entry(r, 1)>>)
    BY <2>2, <2>3, <2>4, <2>6, <2>7, GivesAssignment
  <2> HIDE DEF assign
  <2> QED
    BY <2>2, <2>9, <2>10, <2>11
<1>3. CASE kind = "store"
  <2> DEFINE r == <<"assignment", i, 0>>
             x == <<"indirection", i, 0>>
             y == Operand(args[1])
             z == Operand(args[2])
             addressed == ((Value(args[1]) \o Value(args[2])) \o Op("indirection", i)) \o Resolve(1)
  <2>1. s = ((addressed \o Swap) \o Op("assignment", i)) \o Resolve(2)
    BY <1>3 DEF Statement, HaveValue
  <2>2. args[1] \in Operands /\ args[2] \in Operands
    <3>1. Arity(kind) = 2 /\ args \in Seq(Operands)
      BY <1>1, <1>3 DEF Arity
    <3> QED
      BY <1>1, <3>1
  <2>3. y \in Meanings /\ z \in Meanings
    BY <2>2, OperandIs
  <2>4. Gives(Value(args[1]), <<Entry(y, 1)>>) /\ Gives(Value(args[2]), <<Entry(z, 1)>>)
    BY <2>2, <2>3, GivesValue
  <2>5. Parts(r) = <<x, y>> /\ Parts(x) = <<z>>
    BY <1>3, PartsOf
  <2>6. r[1] = "assignment" /\ r[2] = i /\ x[1] = "indirection" /\ x[2] = i
    OBVIOUS
  <2>7. Says(i) = r
    BY <1>3 DEF Says
  <2>8. x \in Meanings
    <3>1. "indirection" \in Sayings /\ 0 \in Nat
      BY DEF Names, Sayings
    <3> QED
      BY <1>1, <3>1, MeaningIs
  <2>9. r \in Meanings
    BY <2>7, SaysIs
  <2> HIDE DEF r, x, y, z
  <2>10. Gives(addressed, <<Entry(y, 1)>> \o <<Entry(x, 1)>>)
    <3>1. Gives((Value(args[2]) \o Op(x[1], x[2])) \o Resolve(1), <<Entry(x, 1)>>)
      BY <2>3, <2>4, <2>5, <2>8, GivesSingle
    <3>2. Gives(Value(args[1]) \o ((Value(args[2]) \o Op("indirection", i)) \o Resolve(1)),
                <<Entry(y, 1)>> \o <<Entry(x, 1)>>)
      BY <2>4, <2>6, <3>1, GivesBoth
    <3>3. addressed = Value(args[1]) \o ((Value(args[2]) \o Op("indirection", i)) \o Resolve(1))
      <4> DEFINE a == Value(args[1])
                 b == Value(args[2])
                 op == Op("indirection", i)
                 res == Resolve(1)
      <4>1. a \in Seq(Tasks) /\ b \in Seq(Tasks)
        BY <2>4 DEF Gives, Takes
      <4>2. op \in Seq(Tasks) /\ res \in Seq(Tasks)
        BY <1>1 DEF Op, Node, Resolve, Tasks, Created, Names
      <4> HIDE DEF a, b, op, res
      <4>3. b \o op \in Seq(Tasks) /\ a \o b \in Seq(Tasks)
        BY <4>1, <4>2
      <4>4. (a \o b) \o op = a \o (b \o op)
        BY <4>1, <4>2, Associative
      <4>5. (a \o (b \o op)) \o res = a \o ((b \o op) \o res)
        BY <4>1, <4>2, <4>3, Associative
      <4>6. ((a \o b) \o op) \o res = a \o ((b \o op) \o res)
        BY <4>4, <4>5
      <4> QED
        BY <4>6 DEF a, b, op, res
    <3> QED
      BY <3>2, <3>3
  <2> HIDE DEF addressed
  <2>11. Gives(((addressed \o Swap) \o Op("assignment", r[2])) \o Resolve(2), <<Entry(r, 1)>>)
    BY <2>3, <2>5, <2>6, <2>8, <2>9, <2>10, GivesAssignment
  <2> QED
    BY <2>1, <2>6, <2>7, <2>11
<1>4. CASE kind = "ret"
  <2> DEFINE t == [do |-> "begin", type |-> "RETURN", name |-> "return", of |-> i]
             r == <<"return", i, 0>>
  <2>1. t \in Created /\ t.name = "return" /\ t.of = i /\ Begin("RETURN", "return", i) = <<t>>
    BY <1>1 DEF Created, Begin, Names
  <2>2. s = (Begin("RETURN", "return", i) \o Values(args)) \o Close(m)
    BY <1>4 DEF Statement, HaveValue
  <2>3. Says(i) = r
    BY <1>4 DEF Says, HaveValue, Computed
  <2>4. AllOperands(i) \in Seq(Meanings) /\ Len(AllOperands(i)) = m
        /\ Gives(Values(args), Whole(AllOperands(i)))
    BY <1>1, <1>4, AllOperandsAre
  <2>5. Parts(r) = AllOperands(i) /\ r[1] = "return" /\ r[2] = i
    BY PartsOf
  <2>6. r \in Meanings
    BY <2>3, SaysIs
  <2> HIDE DEF t, r
  <2>7. Gives((<<t>> \o Values(args)) \o Close(Len(Parts(r))), <<Entry(r, 1)>>)
    BY <2>1, <2>4, <2>5, <2>6, GivesCall
  <2> QED
    BY <2>1, <2>2, <2>3, <2>4, <2>5, <2>7
<1>5. CASE kind = "unreachable"
  <2> DEFINE r == <<"unreachable", i, 0>>
  <2>1. s = Node("UNKNOWN", "unreachable", i)
    BY <1>5 DEF Statement, HaveValue
  <2>2. Says(i) = r
    BY <1>5 DEF Says, HaveValue, Computed
  <2>3. Parts(r) = <<>> /\ r[1] = "unreachable" /\ r[2] = i
    BY PartsOf
  <2>4. r \in Meanings
    BY <2>2, SaysIs
  <2> HIDE DEF r
  <2>5. Gives(Node("UNKNOWN", r[1], r[2]), <<Entry(r, 1)>>)
    BY <2>3, <2>4, GivesLeaf
  <2> QED
    BY <2>1, <2>2, <2>3, <2>5
<1>6. CASE kind \notin HaveValue \cup {"store", "ret", "unreachable"}
  <2>1. kind \in Emitted
    BY <1>1, <1>6 DEF Kinds, Terminators, HaveValue, NoNode, Emitted
  <2>2. s = Expression(i)
    BY <1>6 DEF Statement
  <2>3. Says(i) = Result(i)
    BY <1>6 DEF Says, Result, HaveValue
  <2> QED
    BY <2>1, <2>2, <2>3, GivesExpression
<1> QED
  BY <1>2, <1>3, <1>4, <1>5, <1>6

----------------------------------------------------------------------------
(* Every statement has its own number, and it lies in its block.           *)
Rank(i) == {j \in InBlock(fn.block[i]) : j <= i /\ HasStatement(j)}

LEMMA NumberOf ==
  ASSUME WellFormed(fn), NEW i \in 1 .. fn.n, HasStatement(i), NEW b, b = fn.block[i]
  PROVE  /\ b \in Nat /\ b > 0 /\ EndOf(b - 1) \in Nat /\ EndOf(b) \in Nat
         /\ IsFiniteSet(Rank(i)) /\ Cardinality(Rank(i)) \in Nat
         /\ StatementNumber(i) = EndOf(b - 1) + Cardinality(Rank(i))
         /\ EndOf(b - 1) < StatementNumber(i) /\ StatementNumber(i) <= EndOf(b)
<1>1. b \in Nat /\ b > 0 /\ fn.n \in Nat
  BY Counting
<1>2. /\ b - 1 \in Nat /\ EndOf(b - 1) \in Nat /\ EndOf(b) \in Nat
      /\ EndOf(b) = EndOf(b - 1) + (IF IsEmpty(b) THEN 1 ELSE Cardinality(ShownIn(b)))
  BY <1>1, EndOfBlock
<1>3. IsFiniteSet(ShownIn(b)) /\ Cardinality(ShownIn(b)) \in Nat
  BY <1>1, Counting
<1>4. Rank(i) \in SUBSET ShownIn(b) /\ i \in Rank(i)
  BY <1>1 DEF Rank, ShownIn, InBlock
<1>5. /\ IsFiniteSet(Rank(i)) /\ Cardinality(Rank(i)) \in Nat
      /\ Cardinality(Rank(i)) <= Cardinality(ShownIn(b))
  BY <1>3, <1>4, FS_Subset, FS_CardinalityType
<1>6. Cardinality(Rank(i)) # 0
  BY <1>4, <1>5, FS_EmptySet
<1>7. ~ IsEmpty(b)
  <2>1. i \in InBlock(b)
    BY DEF InBlock
  <2> QED
    BY <2>1 DEF IsEmpty
<1>8. StatementNumber(i) = EndOf(b - 1) + Cardinality(Rank(i))
  BY DEF StatementNumber, Rank
<1> QED
  BY <1>1, <1>2, <1>3, <1>5, <1>6, <1>7, <1>8

LEMMA StatedOnce ==
  ASSUME WellFormed(fn), NEW i \in 1 .. fn.n, HasStatement(i)
  PROVE  StatementSays(StatementNumber(i)) = Says(i)
<1> DEFINE b == fn.block[i]
<1>1. /\ b \in Nat /\ EndOf(b - 1) \in Nat /\ EndOf(b) \in Nat
      /\ IsFiniteSet(Rank(i)) /\ Cardinality(Rank(i)) \in Nat
      /\ StatementNumber(i) = EndOf(b - 1) + Cardinality(Rank(i))
      /\ EndOf(b - 1) < StatementNumber(i) /\ StatementNumber(i) <= EndOf(b)
  BY NumberOf
<1>2. ASSUME NEW j \in 1 .. fn.n, HasStatement(j), StatementNumber(j) = StatementNumber(i)
      PROVE  j = i
  <2> DEFINE c == fn.block[j]
  <2>1. /\ c \in Nat /\ EndOf(c - 1) \in Nat /\ EndOf(c) \in Nat /\ b > 0 /\ c > 0
        /\ IsFiniteSet(Rank(j)) /\ Cardinality(Rank(j)) \in Nat
        /\ StatementNumber(j) = EndOf(c - 1) + Cardinality(Rank(j))
        /\ EndOf(c - 1) < StatementNumber(j) /\ StatementNumber(j) <= EndOf(c)
    BY <1>2, NumberOf
  <2>2. c = b
    <3>1. CASE b < c
      <4>1. c - 1 \in Nat /\ b <= c - 1
        BY <1>1, <2>1, <3>1
      <4>2. EndOf(b) <= EndOf(c - 1)
        <5> HIDE DEF b, c
        <5> QED
          BY <1>1, <4>1, EndsInOrder
      <4> HIDE DEF b, c
      <4> QED
        BY <1>1, <1>2, <2>1, <4>2
    <3>2. CASE c < b
      <4>1. b - 1 \in Nat /\ c <= b - 1
        BY <1>1, <2>1, <3>2
      <4>2. EndOf(c) <= EndOf(b - 1)
        <5> HIDE DEF b, c
        <5> QED
          BY <2>1, <4>1, EndsInOrder
      <4> HIDE DEF b, c
      <4> QED
        BY <1>1, <1>2, <2>1, <4>2
    <3> QED
      BY <1>1, <2>1, <3>1, <3>2
  <2>3. Cardinality(Rank(i)) = Cardinality(Rank(j))
    <3> HIDE DEF b, c
    <3> QED
      BY <1>1, <1>2, <2>1, <2>2
  <2>4. \A x, y \in {i, j} : x < y => Cardinality(Rank(x)) # Cardinality(Rank(y))
    <3> SUFFICES ASSUME NEW x \in {i, j}, NEW y \in {i, j}, x < y
                 PROVE  Cardinality(Rank(x)) # Cardinality(Rank(y))
      OBVIOUS
    <3>1. /\ IsFiniteSet(Rank(x)) /\ Cardinality(Rank(x)) \in Nat /\ IsFiniteSet(Rank(y))
          /\ Cardinality(Rank(y)) \in Nat
      BY <1>1, <2>1
    <3>2. x \in 1 .. fn.n /\ y \in 1 .. fn.n /\ HasStatement(y) /\ fn.block[x] = fn.block[y]
          /\ fn.n \in Nat
      BY <1>2, <2>2 DEF WellFormed
    <3>3. Rank(x) \cup {y} \in SUBSET Rank(y) /\ y \notin Rank(x)
      BY <3>2 DEF Rank, InBlock
    <3>4. Cardinality(Rank(x) \cup {y}) = Cardinality(Rank(x)) + 1
      BY <3>1, <3>3, FS_AddElement
    <3>5. Cardinality(Rank(x) \cup {y}) <= Cardinality(Rank(y))
      BY <3>1, <3>3, FS_Subset
    <3> QED
      BY <3>1, <3>4, <3>5
  <2>5. i \in Int /\ j \in Int
    OBVIOUS
  <2> QED
    BY <2>3, <2>4, <2>5
<1>3. Stated(StatementNumber(i)) = {i}
  BY <1>2 DEF Stated
<1>4. (CHOOSE j \in {i} : TRUE) = i
  OBVIOUS
<1> QED
  BY <1>3, <1>4 DEF StatementSays

LEMMA NothingStated ==
  ASSUME WellFormed(fn), NEW b \in Nat, b > 0, IsEmpty(b)
  PROVE  StatementSays(EndOf(b - 1) + 1) = <<"noop", 0, 0>>
<1>1. /\ b - 1 \in Nat /\ EndOf(b - 1) \in Nat /\ EndOf(b) \in Nat
      /\ EndOf(b) = EndOf(b - 1) + 1
  BY EndOfBlock
<1>2. ASSUME NEW i \in 1 .. fn.n, HasStatement(i), StatementNumber(i) = EndOf(b - 1) + 1
      PROVE  FALSE
  <2> DEFINE c == fn.block[i]
  <2>1. /\ c \in Nat /\ c > 0 /\ EndOf(c - 1) \in Nat /\ EndOf(c) \in Nat
        /\ EndOf(c - 1) < StatementNumber(i) /\ StatementNumber(i) <= EndOf(c)
    BY <1>2, NumberOf
  <2>2. c # b
    BY <1>2 DEF IsEmpty, InBlock
  <2>3. CASE b < c
    <3>1. c - 1 \in Nat /\ b <= c - 1
      BY <2>1, <2>3
    <3> HIDE DEF c
    <3>2. EndOf(b) <= EndOf(c - 1)
      BY <3>1, EndsInOrder
    <3> QED
      BY <1>1, <1>2, <2>1, <3>2
  <2>4. CASE c < b
    <3>1. c <= b - 1
      BY <2>1, <2>4
    <3> HIDE DEF c
    <3>2. EndOf(c) <= EndOf(b - 1)
      BY <1>1, <2>1, <3>1, EndsInOrder
    <3> QED
      BY <1>1, <1>2, <2>1, <3>2
  <2> QED
    BY <2>1, <2>2, <2>3, <2>4
<1>3. Stated(EndOf(b - 1) + 1) = {}
  BY <1>2 DEF Stated
<1> QED
  BY <1>3 DEF StatementSays

(* What is laid out next is the statement of cur, or the noop.             *)
LEMMA NextIsCur ==
  ASSUME EmitterInvariant, Visiting, HasStatement(cur), cur \in InBlock(blk)
  PROVE  StatementSays(topLevelOrder) = Says(cur)
<1>1. /\ WellFormed(fn) /\ fn.n \in Nat /\ cur \in 1 .. fn.n /\ fn.block[cur] = blk
      /\ topLevelOrder \in Nat
  BY NodeDomain DEF EmitterInvariant, Typed, InBlock
<1>2. /\ blk \in Nat /\ EndOf(blk - 1) \in Nat
      /\ StatementNumber(cur) = EndOf(blk - 1) + Cardinality(Rank(cur))
  BY <1>1, NumberOf
<1> DEFINE S == {i \in ShownIn(blk) : i < cur}
<1>3. topLevelOrder - 1 = EndOf(blk - 1) + Cardinality(S)
  BY DEF Visiting
<1>4. IsFiniteSet(S) /\ Cardinality(S) \in Nat
  <2>1. IsFiniteSet(ShownIn(blk)) /\ S \in SUBSET ShownIn(blk)
    BY <1>1, <1>2, Counting
  <2> QED
    BY <2>1, FS_Subset, FS_CardinalityType
<1>5. Rank(cur) = S \cup {cur} /\ cur \notin S
  <2>1. \A i \in 1 .. fn.n : i <= cur <=> i < cur \/ i = cur
    BY <1>1
  <2> QED
    BY <1>1, <2>1 DEF Rank, ShownIn, InBlock
<1>6. Cardinality(Rank(cur)) = Cardinality(S) + 1
  BY <1>4, <1>5, FS_AddElement
<1> HIDE DEF S
<1>7. topLevelOrder = StatementNumber(cur)
  BY <1>1, <1>2, <1>3, <1>4, <1>6
<1> QED
  BY <1>1, <1>7, StatedOnce

LEMMA NextIsNoop ==
  ASSUME EmitterInvariant, Visiting, phase = "visit", blk \in 1 .. NBlocks,
         cur \notin InBlock(blk), nodes = <<>>
  PROVE  StatementSays(topLevelOrder) = <<"noop", 0, 0>>
<1>1. WellFormed(fn) /\ blk \in Nat /\ blk > 0 /\ topLevelOrder \in Nat
  BY NodeDomain DEF EmitterInvariant, Typed
<1>2. Len(nodes) = 0
  OBVIOUS
<1>3. IsEmpty(blk)
  <2>1. 0 = Cardinality({i \in ShownIn(blk) : i < cur})
    BY <1>2 DEF Visiting
  <2>2. {i \in ShownIn(blk) : i < cur} = ShownIn(blk)
    BY BlockIsOver
  <2> QED
    BY <1>1, <2>1, <2>2, Counting
<1>4. topLevelOrder - 1 = EndOf(blk - 1) + 0
  BY <1>2 DEF Visiting
<1>5. EndOf(blk - 1) \in Nat
  BY <1>1, EndOfBlock
<1>6. topLevelOrder = EndOf(blk - 1) + 1
  BY <1>1, <1>4, <1>5
<1> QED
  BY <1>1, <1>3, <1>6, NothingStated

----------------------------------------------------------------------------
(***************************************************************************)
(* The inductive invariant. StatementsDenoteInstructions looks at finished *)
(* methods; before that, there is a meaning g of every node, of which the  *)
(* node and its arguments say what they are to say, unless the node still  *)
(* waits for its arguments. The stack st of entries goes with vals, and    *)
(* the tasks left make the meaning of the statement of it.                 *)
(***************************************************************************)
HasParts(g, k) ==
  /\ Cardinality(Arguments(k)) = Len(Parts(g[k]))
  /\ \A c \in Arguments(k) : order[c] \in 1 .. Len(Parts(g[k])) /\ g[c] = Parts(g[k])[order[c]]

Waits(st, k) == \E i \in 1 .. Len(vals) : vals[i] = k /\ st[i].done = 0

OnStack(k) == \E i \in 1 .. Len(vals) : vals[i] = k

IsArgument(k) == \E p \in Expressions : k \in Arguments(p)

Stacked(g, st) ==
  /\ st \in Stacks /\ Len(st) = Len(vals)
  /\ \A i \in 1 .. Len(vals) : vals[i] \in Expressions /\ st[i].is = g[vals[i]]

Meant(g, st) ==
  /\ g \in [Expressions -> Meanings]
  /\ \A k \in Expressions : node[k].name = g[k][1] /\ node[k].of = g[k][2]
  /\ ast \subseteq Expressions \X Expressions
  /\ Laid \subseteq Expressions /\ \A k \in Laid : g[k] = StatementSays(order[k])
  /\ \A k \in Expressions : HasParts(g, k) \/ Waits(st, k)
  /\ \A k \in Expressions : k \in Laid \/ OnStack(k) \/ IsArgument(k)

WillMean(st) == phase = "expression" => Leads(work, st, <<Entry(Says(cur), 1)>>)

MeaningInvariant ==
  FlowInvariant /\ \E g, st : Meant(g, st) /\ Stacked(g, st) /\ WillMean(st)

----------------------------------------------------------------------------
LEMMA SameMeanings ==
  ASSUME fn' = fn
  PROVE  /\ Meanings' = Meanings /\ Entries' = Entries /\ Stacks' = Stacks
         /\ \A v : Operand(v)' = Operand(v)
         /\ \A m : Parts(m)' = Parts(m)
         /\ \A i : Says(i)' = Says(i)
         /\ \A o : StatementSays(o)' = StatementSays(o)
<1>1. Meanings' = Meanings
  BY DEF Meanings
<1>2. Entries' = Entries
  BY <1>1 DEF Entries
<1>3. Stacks' = Stacks
  BY <1>2 DEF Stacks
<1>4. \A i, k : Access(i, k)' = Access(i, k)
  BY DEF Access
<1>5. \A i : Computed(i)' = Computed(i)
  BY <1>4 DEF Computed
<1>6. \A v : Operand(v)' = Operand(v)
  BY <1>5 DEF Operand
<1>7. \A i, k : Path(i, k)' = Path(i, k)
  BY <1>4, <1>6 DEF Path
<1>8. \A i : Result(i)' = Result(i)
  BY <1>5, <1>7 DEF Result
<1>9. \A i : AllOperands(i)' = AllOperands(i)
  BY <1>6 DEF AllOperands
<1>10. \A m : Parts(m)' = Parts(m)
  BY <1>6, <1>7, <1>8, <1>9 DEF Parts
<1>11. \A i : Says(i)' = Says(i)
  BY <1>5 DEF Says
<1>12. \A i : StatementNumber(i)' = StatementNumber(i)
  BY EndOfSame DEF StatementNumber
<1>13. \A o : Stated(o)' = Stated(o)
  BY <1>12, EndOfSame DEF Stated
<1>14. ASSUME NEW o PROVE StatementSays(o)' = StatementSays(o)
  <2>1. PICK S : S = Stated(o)
    OBVIOUS
  <2>2. PICK c : c = CHOOSE i \in S : TRUE
    OBVIOUS
  <2>3. Says(c)' = Says(c) /\ Stated(o)' = S
    BY <1>11, <1>13, <2>1
  <2>4. StatementSays(o) = IF S = {} THEN <<"noop", 0, 0>> ELSE Says(c)
    BY <2>1, <2>2 DEF StatementSays
  <2>5. StatementSays(o)' = IF S = {} THEN <<"noop", 0, 0>> ELSE Says(c)'
    BY <2>2, <2>3 DEF StatementSays
  <2> QED
    BY <2>3, <2>4, <2>5
<1> QED
  BY <1>1, <1>2, <1>3, <1>6, <1>10, <1>11, <1>14

LEMMA SameDoings ==
  ASSUME fn' = fn
  PROVE  /\ \A t, a, b : Does(t, a, b)' = Does(t, a, b)
         /\ \A s, a, b : Leads(s, a, b)' = Leads(s, a, b)
<1>1. /\ Meanings' = Meanings /\ Entries' = Entries /\ Stacks' = Stacks
      /\ \A v : Operand(v)' = Operand(v)
      /\ \A m : Parts(m)' = Parts(m)
  BY SameMeanings
<1>2. ASSUME NEW t, NEW a, NEW b PROVE Does(t, a, b)' = Does(t, a, b)
  <2>1. PICK v : v = Operand(t.of)
    OBVIOUS
  <2>2. v = Operand(t.of)'
    BY <1>1, <2>1
  <2>3. Does(t, a, b)' <=> Does(t, a, b)
    BY <1>1, <2>1, <2>2 DEF Does, Entry, Whole
  <2> QED
    BY <2>3 DEF Does
<1>3. \A s, a, b : Leads(s, a, b)' = Leads(s, a, b)
  BY <1>1, <1>2, Zenon DEF Leads
<1> QED
  BY <1>2, <1>3

(* A step that leaves the arguments of k as they are.                      *)
LEMMA PartsKept ==
  ASSUME fn' = fn, NEW g, NEW h, NEW k, HasParts(g, k), Arguments(k)' = Arguments(k),
         h[k] = g[k], \A c \in Arguments(k) : order'[c] = order[c] /\ h[c] = g[c]
  PROVE  HasParts(h, k)'
<1>1. \A m : Parts(m)' = Parts(m)
  BY SameMeanings
<1> QED
  BY <1>1 DEF HasParts

(* The meanings h of a step that joins no nodes.                           *)
Extends(g, st, h, su) ==
  /\ UNCHANGED <<fn, ast>>
  /\ DOMAIN node \subseteq DOMAIN node' /\ Expressions \subseteq Expressions'
  /\ h \in [Expressions' -> Meanings]
  /\ \A k \in Expressions : node'[k] = node[k] /\ h[k] = g[k]
  /\ \A k \in Expressions' : k \notin Expressions =>
       /\ node'[k].name = h[k][1] /\ node'[k].of = h[k][2]
       /\ Parts(h[k]) = <<>> \/ \E j \in 1 .. Len(vals') : vals'[j] = k /\ su[j].done = 0
       /\ k \in Laid' \/ \E j \in 1 .. Len(vals') : vals'[j] = k
  /\ \A p, k \in Expressions : <<p, k>> \in ast => order'[k] = order[k]
  /\ Laid \subseteq Laid' /\ Laid' \subseteq Expressions'
  /\ \A k \in Laid' : h[k] = StatementSays(order'[k])
  /\ \A i \in 1 .. Len(vals) :
       /\ st[i].done = 0 => \E j \in 1 .. Len(vals') : vals'[j] = vals[i] /\ su[j].done = 0
       /\ vals[i] \in Laid' \/ \E j \in 1 .. Len(vals') : vals'[j] = vals[i]

LEMMA MeaningExtended ==
  ASSUME NEW g, NEW st, Meant(g, st), NEW h, NEW su, Extends(g, st, h, su)
  PROVE  Meant(h, su)'
<1>1. /\ fn' = fn /\ ast' = ast /\ DOMAIN node \subseteq DOMAIN node'
      /\ Expressions \subseteq Expressions' /\ h \in [Expressions' -> Meanings]
      /\ \A k \in Expressions : node'[k] = node[k] /\ h[k] = g[k]
      /\ \A k \in Expressions' : k \notin Expressions =>
           /\ node'[k].name = h[k][1] /\ node'[k].of = h[k][2]
           /\ Parts(h[k]) = <<>> \/ \E j \in 1 .. Len(vals') : vals'[j] = k /\ su[j].done = 0
           /\ k \in Laid' \/ \E j \in 1 .. Len(vals') : vals'[j] = k
      /\ \A p, k \in Expressions : <<p, k>> \in ast => order'[k] = order[k]
      /\ Laid \subseteq Laid' /\ Laid' \subseteq Expressions'
      /\ \A k \in Laid' : h[k] = StatementSays(order'[k])
      /\ \A i \in 1 .. Len(vals) :
           /\ st[i].done = 0 => \E j \in 1 .. Len(vals') : vals'[j] = vals[i] /\ su[j].done = 0
           /\ vals[i] \in Laid' \/ \E j \in 1 .. Len(vals') : vals'[j] = vals[i]
  BY DEF Extends
<1>2. /\ \A k \in Expressions : node[k].name = g[k][1] /\ node[k].of = g[k][2]
      /\ ast \subseteq Expressions \X Expressions
      /\ \A k \in Expressions : HasParts(g, k) \/ Waits(st, k)
      /\ \A k \in Expressions : k \in Laid \/ OnStack(k) \/ IsArgument(k)
  BY DEF Meant
<1>3. /\ Meanings' = Meanings /\ \A m : Parts(m)' = Parts(m)
      /\ \A o : StatementSays(o)' = StatementSays(o)
  BY <1>1, SameMeanings
<1>4. \A p, k : <<p, k>> \in ast => p \in Expressions /\ k \in Expressions
  BY <1>2
<1>5. \A p : Arguments(p)' = Arguments(p)
  BY <1>1, <1>4 DEF Arguments, Expressions
<1>6. ASSUME NEW k \in Expressions' PROVE HasParts(h, k)' \/ Waits(su, k)'
  <2>1. CASE k \in Expressions
    <3>1. CASE HasParts(g, k)
      <4>1. \A c \in Arguments(k) : c \in Expressions /\ <<k, c>> \in ast
        BY <1>4 DEF Arguments
      <4>2. \A c \in Arguments(k) : order'[c] = order[c] /\ h[c] = g[c]
        BY <1>1, <2>1, <4>1
      <4> QED
        BY <1>1, <1>5, <2>1, <3>1, <4>2, PartsKept
    <3>2. CASE Waits(st, k)
      BY <1>1, <3>2 DEF Waits
    <3> QED
      BY <1>2, <2>1, <3>1, <3>2
  <2>2. CASE k \notin Expressions
    <3>1. CASE Parts(h[k]) = <<>>
      <4>1. Arguments(k)' = {} /\ Cardinality({}) = 0 /\ Len(<<>>) = 0
        BY <1>4, <1>5, <2>2, FS_EmptySet DEF Arguments
      <4>2. Parts(h[k])' = <<>>
        BY <1>3, <3>1
      <4> QED
        BY <4>1, <4>2 DEF HasParts
    <3>2. CASE Parts(h[k]) # <<>>
      BY <1>1, <2>2, <3>2 DEF Waits
    <3> QED
      BY <3>1, <3>2
  <2> QED
    BY <2>1, <2>2
<1>7. ASSUME NEW k \in Expressions' PROVE k \in Laid' \/ OnStack(k)' \/ IsArgument(k)'
  <2>1. CASE k \in Expressions
    <3>1. CASE OnStack(k)
      BY <1>1, <3>1 DEF OnStack
    <3>2. CASE IsArgument(k)
      BY <1>1, <1>5, <3>2 DEF IsArgument
    <3> QED
      BY <1>1, <1>2, <2>1, <3>1, <3>2
  <2>2. CASE k \notin Expressions
    BY <1>1, <2>2 DEF OnStack
  <2> QED
    BY <2>1, <2>2
<1>8. \A k \in Expressions' : node'[k].name = h[k][1] /\ node'[k].of = h[k][2]
  BY <1>1, <1>2
<1>9. (ast \subseteq Expressions \X Expressions)'
  BY <1>1, <1>2
<1>10. \A k \in Laid' : h[k] = StatementSays(order[k])'
  <2> SUFFICES ASSUME NEW k \in Laid' PROVE h[k] = StatementSays(order[k])'
    OBVIOUS
  <2>1. h[k] = StatementSays(order'[k])
    BY <1>1
  <2>2. PICK o : o = order'[k]
    OBVIOUS
  <2>3. StatementSays(o)' = StatementSays(o)
    BY <1>3
  <2> QED
    BY <2>1, <2>2, <2>3
<1> QED
  BY <1>1, <1>3, <1>6, <1>7, <1>8, <1>9, <1>10 DEF Meant

----------------------------------------------------------------------------
LEMMA ExpressionIds ==
  ASSUME EmitterInvariant
  PROVE  Expressions \subseteq DOMAIN node /\ ast \subseteq (DOMAIN node) \X (DOMAIN node)
BY AstIds DEF Expressions

(* A step that changes neither the nodes nor where they are.               *)
LEMMA MeaningStays ==
  ASSUME NEW g, NEW st, Meant(g, st), Stacked(g, st),
         UNCHANGED <<fn, node, ast, order, vals>>, Laid' = Laid
  PROVE  Meant(g, st)' /\ Stacked(g, st)'
<1>1. fn' = fn /\ node' = node /\ ast' = ast /\ order' = order /\ vals' = vals
  OBVIOUS
<1>2. Expressions' = Expressions /\ Meanings' = Meanings /\ Stacks' = Stacks
  BY <1>1, SameMeanings DEF Expressions
<1>3. Extends(g, st, g, st)
  <2>1. /\ g \in [Expressions -> Meanings]
        /\ Laid \subseteq Expressions /\ \A k \in Laid : g[k] = StatementSays(order[k])
    BY DEF Meant
  <2>2. \A i \in 1 .. Len(vals) : \E j \in 1 .. Len(vals') : vals'[j] = vals[i] /\ i = j
    BY <1>1
  <2> QED
    BY <1>1, <1>2, <2>1, <2>2 DEF Extends
<1>4. Meant(g, st)'
  BY <1>3, MeaningExtended
<1>5. Stacked(g, st)'
  BY <1>1, <1>2 DEF Stacked
<1> QED
  BY <1>4, <1>5

(* A node more, which means m.                                             *)
GrowsBy(m, st, su) ==
  /\ UNCHANGED <<fn, ast>>
  /\ DOMAIN node' = DOMAIN node \cup {New} /\ New \notin DOMAIN node
  /\ \A k \in DOMAIN node : node'[k] = node[k] /\ order'[k] = order[k]
  /\ m \in Meanings /\ node'[New].name = m[1] /\ node'[New].of = m[2]
  /\ Parts(m) = <<>> \/ \E j \in 1 .. Len(vals') : vals'[j] = New /\ su[j].done = 0
  /\ \/ Laid' = Laid /\ \E j \in 1 .. Len(vals') : vals'[j] = New
     \/ Laid' = Laid \cup {New} /\ m = StatementSays(order'[New])
  /\ \A i \in 1 .. Len(vals) :
       \E j \in 1 .. Len(vals') : vals'[j] = vals[i] /\ su[j].done = st[i].done

LEMMA MeaningGrows ==
  ASSUME EmitterInvariant, NEW g, NEW st, Meant(g, st), NEW m, NEW su, GrowsBy(m, st, su)
  PROVE  \E h : /\ Meant(h, su)' /\ h[New] = m
                /\ \A k \in Expressions : h[k] = g[k]
                /\ Expressions' = Expressions \cup {New}
<1>1. /\ UNCHANGED <<fn, ast>>
      /\ DOMAIN node' = DOMAIN node \cup {New} /\ New \notin DOMAIN node
      /\ \A k \in DOMAIN node : node'[k] = node[k] /\ order'[k] = order[k]
      /\ m \in Meanings /\ node'[New].name = m[1] /\ node'[New].of = m[2]
      /\ Parts(m) = <<>> \/ \E j \in 1 .. Len(vals') : vals'[j] = New /\ su[j].done = 0
      /\ \/ Laid' = Laid /\ \E j \in 1 .. Len(vals') : vals'[j] = New
         \/ Laid' = Laid \cup {New} /\ m = StatementSays(order'[New])
      /\ \A i \in 1 .. Len(vals) :
           \E j \in 1 .. Len(vals') : vals'[j] = vals[i] /\ su[j].done = st[i].done
  BY DEF GrowsBy
<1> DEFINE f == [k \in Expressions \cup {New} |-> IF k = New THEN m ELSE g[k]]
<1>2. /\ g \in [Expressions -> Meanings]
      /\ Laid \subseteq Expressions /\ \A k \in Laid : g[k] = StatementSays(order[k])
  BY DEF Meant
<1>3. Expressions \subseteq DOMAIN node
  BY ExpressionIds
<1>4. Expressions' = Expressions \cup {New}
  <2>1. m[1] # "declaration"
    BY <1>1 DEF Meanings, Sayings
  <2> QED
    BY <1>1, <2>1 DEF Expressions
<1>5. PICK h : h = f
  OBVIOUS
<1>6. /\ h \in [Expressions' -> Meanings] /\ h[New] = m
      /\ \A k \in Expressions : h[k] = g[k] /\ k # New
  BY <1>1, <1>2, <1>3, <1>4, <1>5
<1>7. Extends(g, st, h, su)
  <2>1. \A k \in Expressions' : k \notin Expressions =>
          /\ node'[k].name = h[k][1] /\ node'[k].of = h[k][2]
          /\ Parts(h[k]) = <<>> \/ \E j \in 1 .. Len(vals') : vals'[j] = k /\ su[j].done = 0
          /\ k \in Laid' \/ \E j \in 1 .. Len(vals') : vals'[j] = k
    BY <1>1, <1>4, <1>6
  <2>2. Laid \subseteq Laid' /\ Laid' \subseteq Expressions'
        /\ \A k \in Laid' : h[k] = StatementSays(order'[k])
    BY <1>1, <1>2, <1>3, <1>4, <1>6
  <2>3. \A i \in 1 .. Len(vals) :
          /\ st[i].done = 0 => \E j \in 1 .. Len(vals') : vals'[j] = vals[i] /\ su[j].done = 0
          /\ vals[i] \in Laid' \/ \E j \in 1 .. Len(vals') : vals'[j] = vals[i]
    BY <1>1
  <2>4. DOMAIN node \subseteq DOMAIN node' /\ Expressions \subseteq Expressions'
        /\ \A k \in Expressions : node'[k] = node[k] /\ h[k] = g[k] /\ order'[k] = order[k]
    BY <1>1, <1>3, <1>4, <1>6
  <2> HIDE DEF f
  <2> QED
    BY <1>1, <1>6, <2>1, <2>2, <2>3, <2>4 DEF Extends
<1>8. Meant(h, su)'
  BY <1>7, MeaningExtended
<1> QED
  BY <1>4, <1>6, <1>8

(* The stack with one entry more, or with its last entries replaced.       *)
LEMMA StackGrown ==
  ASSUME NEW st \in Stacks, NEW e \in Entries
  PROVE  LET su == st \o <<e>>
         IN /\ su \in Stacks /\ Len(st) \in Nat /\ Len(su) = Len(st) + 1 /\ su[Len(st) + 1] = e
            /\ \A i \in 1 .. Len(st) : su[i] = st[i]
BY DEF Stacks

----------------------------------------------------------------------------
(* What is left to do goes on with the next entries.                       *)
LEMMA StillLeads ==
  ASSUME fn' = fn, cur' = cur, NEW su, Leads(work', su, <<Entry(Says(cur), 1)>>)
  PROVE  WillMean(su)'
<1>1. PICK c : c = cur
  OBVIOUS
<1>2. PICK e : e = <<Entry(Says(c), 1)>>
  OBVIOUS
<1>3. PICK w : w = work'
  OBVIOUS
<1>4. Says(c)' = Says(c)
  BY SameMeanings
<1>5. Leads(w, su, e)'
  BY <1>1, <1>2, <1>3, SameDoings
<1>6. e = <<Entry(Says(cur), 1)>>'
  BY <1>1, <1>2, <1>4 DEF Entry
<1> QED
  BY <1>3, <1>5, <1>6 DEF WillMean

LEMMA FirstDoing ==
  ASSUME MeaningInvariant, NEW what, Todo(what), NEW st \in Stacks, WillMean(st)
  PROVE  /\ EmitterInvariant /\ phase = "expression" /\ WellFormed(fn)
         /\ Head(work) \in Tasks /\ Head(work).do = what
         /\ Tail(work) \in Seq(Tasks) /\ <<Entry(Says(cur), 1)>> \in Stacks
         /\ \E c \in Stacks : /\ Does(Head(work), st, c)
                              /\ Leads(Tail(work), c, <<Entry(Says(cur), 1)>>)
<1>1. /\ EmitterInvariant /\ WellFormed(fn)
  BY NodeDomain DEF MeaningInvariant, FlowInvariant, EmitterInvariant
<1>2. /\ phase = "expression" /\ cur \in InBlock(blk) /\ work \in Seq(Tasks) /\ work # <<>>
      /\ Head(work) \in Tasks /\ Head(work).do = what /\ Tail(work) \in Seq(Tasks)
  BY <1>1, FirstTask
<1>3. <<Entry(Says(cur), 1)>> \in Stacks
  <2>1. Says(cur) \in Meanings
    BY <1>1, <1>2, SaysIs DEF InBlock
  <2> QED
    BY <2>1, EntryIs
<1>4. Leads(work, st, <<Entry(Says(cur), 1)>>)
  BY <1>2 DEF WillMean
<1>5. \E c \in Stacks : /\ Does(Head(work), st, c)
                        /\ Leads(Tail(work), c, <<Entry(Says(cur), 1)>>)
  BY <1>2, <1>3, <1>4, LeadsHead
<1> QED
  BY <1>1, <1>2, <1>3, <1>5

LEMMA LaidSame ==
  ASSUME UNCHANGED <<node, members, nodes>>
  PROVE  Laid' = Laid
BY DEF Laid, StatementNodes, Elements, BLOCK

LEMMA VisitMeaning ==
  ASSUME MeaningInvariant, FlowInvariant', VisitInstruction
  PROVE  MeaningInvariant'
<1>1. PICK g, st : Meant(g, st) /\ Stacked(g, st)
  BY DEF MeaningInvariant
<1>2. /\ phase = "visit" /\ cur \in InBlock(blk)
      /\ UNCHANGED <<fn, vals, node, order, ast, members, nodes>>
  BY DEF VisitInstruction, graph, blockState
<1>3. EmitterInvariant /\ WellFormed(fn) /\ cur \in 1 .. fn.n /\ vals = <<>>
  BY <1>2, NodeDomain DEF MeaningInvariant, FlowInvariant, EmitterInvariant, Control, InBlock
<1>4. Meant(g, st)' /\ Stacked(g, st)'
  BY <1>1, <1>2, LaidSame, MeaningStays
<1>5. WillMean(st)'
  <2>1. CASE IsInlined(cur) \/ fn.kind[cur] \in NoNode
    BY <1>2, <2>1 DEF VisitInstruction, WillMean
  <2>2. CASE ~ (IsInlined(cur) \/ fn.kind[cur] \in NoNode)
    <3>1. work' \in Statement(cur) /\ cur' = cur
      BY <2>2 DEF VisitInstruction
    <3>2. PICK e : e = <<Entry(Says(cur), 1)>>
      OBVIOUS
    <3>3. Gives(work', e)
      BY <1>3, <2>2, <3>1, <3>2, GivesStatement
    <3>4. st = <<>> /\ st \in Stacks
      <4>1. st \in Seq(Entries) /\ Len(st) = Len(vals) /\ Len(vals) = 0
        BY <1>1, <1>3 DEF Stacked, Stacks
      <4> QED
        BY <4>1, SeqMember DEF Stacks
    <3>5. e \in Seq(Entries)
      BY <3>3 DEF Gives, Takes, Stacks
    <3>6. <<>> \o <<>> = <<>> /\ <<>> \o e = e
      BY <3>5
    <3>7. Leads(work', <<>>, e)
      BY <3>3, <3>4, <3>6 DEF Gives, Takes
    <3> QED
      BY <1>2, <3>1, <3>2, <3>4, <3>7, StillLeads
  <2> QED
    BY <2>1, <2>2
<1> QED
  BY <1>4, <1>5 DEF MeaningInvariant

LEMMA ValueMeaning ==
  ASSUME MeaningInvariant, FlowInvariant', EmitValue
  PROVE  MeaningInvariant'
<1>1. PICK g, st : Meant(g, st) /\ Stacked(g, st) /\ WillMean(st)
  BY DEF MeaningInvariant
<1>2. /\ Todo("value") /\ work' = RefOrConstant(Head(work).of) \o Tail(work)
      /\ UNCHANGED <<fn, phase, cur, vals, node, order, ast, members, nodes>>
  BY DEF EmitValue, graph, blockState
<1>3. st \in Stacks
  BY <1>1 DEF Stacked
<1>4. /\ EmitterInvariant /\ phase = "expression" /\ WellFormed(fn)
      /\ Head(work) \in Tasks /\ Head(work).do = "value" /\ Tail(work) \in Seq(Tasks)
      /\ <<Entry(Says(cur), 1)>> \in Stacks
  BY <1>1, <1>2, <1>3, FirstDoing
<1>5. PICK c \in Stacks : /\ Does(Head(work), st, c)
                          /\ Leads(Tail(work), c, <<Entry(Says(cur), 1)>>)
  BY <1>1, <1>2, <1>3, FirstDoing
<1>6. PICK v : v = Head(work).of
  OBVIOUS
<1>7. v \in Operands
  BY <1>4, <1>6 DEF Tasks, Created
<1>8. c = st \o <<Entry(Operand(v), 1)>>
  BY <1>4, <1>5, <1>6 DEF Does
<1>9. Gives(RefOrConstant(v), <<Entry(Operand(v), 1)>>)
  BY <1>4, <1>7, GivesRefOrConstant DEF EmitterInvariant, Declared
<1>10. Leads(RefOrConstant(v), st, c) /\ RefOrConstant(v) \in Seq(Tasks)
  <2>1. Leads(RefOrConstant(v), st \o <<>>, st \o <<Entry(Operand(v), 1)>>)
    BY <1>3, <1>9 DEF Gives, Takes
  <2>2. st \o <<>> = st
    BY <1>3 DEF Stacks
  <2> QED
    BY <1>8, <1>9, <2>1, <2>2 DEF Gives, Takes
<1>11. Leads(RefOrConstant(v) \o Tail(work), st, <<Entry(Says(cur), 1)>>)
  BY <1>3, <1>4, <1>5, <1>10, LeadsBoth
<1>12. WillMean(st)'
  BY <1>2, <1>6, <1>11, StillLeads
<1>13. Meant(g, st)' /\ Stacked(g, st)'
  BY <1>1, <1>2, LaidSame, MeaningStays
<1> QED
  BY <1>12, <1>13 DEF MeaningInvariant

LEMMA ReceiverMeaning ==
  ASSUME MeaningInvariant, FlowInvariant', ConnectReceiver
  PROVE  MeaningInvariant'
<1>1. PICK g, st : Meant(g, st) /\ Stacked(g, st) /\ WillMean(st)
  BY DEF MeaningInvariant
<1>2. /\ Todo("receiver") /\ work' = Tail(work)
      /\ UNCHANGED <<fn, phase, cur, vals, node, order, ast, members, nodes>>
  BY DEF ConnectReceiver, graph, blockState
<1>3. st \in Stacks
  BY <1>1 DEF Stacked
<1>4. Head(work).do = "receiver"
  BY <1>1, <1>2, <1>3, FirstDoing
<1>5. PICK c \in Stacks : /\ Does(Head(work), st, c)
                          /\ Leads(Tail(work), c, <<Entry(Says(cur), 1)>>)
  BY <1>1, <1>2, <1>3, FirstDoing
<1>6. c = st
  BY <1>4, <1>5 DEF Does
<1>7. WillMean(st)'
  BY <1>2, <1>5, <1>6, StillLeads
<1>8. Meant(g, st)' /\ Stacked(g, st)'
  BY <1>1, <1>2, LaidSame, MeaningStays
<1> QED
  BY <1>7, <1>8 DEF MeaningInvariant

----------------------------------------------------------------------------
LEMMA NodeMeaning ==
  ASSUME MeaningInvariant, FlowInvariant', EmitNode \/ BeginCall
  PROVE  MeaningInvariant'
<1>1. PICK g, st : Meant(g, st) /\ Stacked(g, st) /\ WillMean(st)
  BY DEF MeaningInvariant
<1>2. /\ work' = Tail(work)
      /\ UNCHANGED <<fn, phase, cur, members, nodes, ast>>
  BY DEF EmitNode, BeginCall, Create, blockState
<1>3. st \in Stacks /\ Len(st) = Len(vals)
      /\ \A i \in 1 .. Len(vals) : vals[i] \in Expressions /\ st[i].is = g[vals[i]]
  BY <1>1 DEF Stacked
<1>4. PICK what \in {"node", "begin"} : Todo(what)
  BY DEF EmitNode, BeginCall
<1>5. /\ EmitterInvariant /\ phase = "expression"
      /\ Head(work) \in Tasks /\ Head(work).do = what
  BY <1>1, <1>3, <1>4, FirstDoing
<1>6. PICK su \in Stacks : /\ Does(Head(work), st, su)
                           /\ Leads(Tail(work), su, <<Entry(Says(cur), 1)>>)
  BY <1>1, <1>3, <1>4, FirstDoing
<1>7. PICK t \in Created : t = Head(work) /\ t.do = what
  BY <1>5 DEF Tasks
<1>8. PICK m \in Meanings, d \in {0, 1} :
        /\ m[1] = t.name /\ m[2] = t.of
        /\ d = 1 => Parts(m) = <<>>
        /\ su = st \o <<Entry(m, d)>>
  BY <1>6, <1>7 DEF Does
<1>9. PICK e \in {0, New} : Create(t, e)
  BY <1>7 DEF EmitNode, BeginCall
<1>10. /\ DOMAIN node' = DOMAIN node \cup {New} /\ New \notin DOMAIN node
       /\ node'[New].name = t.name /\ node'[New].of = t.of
       /\ \A k \in DOMAIN node : node'[k] = node[k] /\ order'[k] = order[k]
       /\ Len(vals') = Len(vals) + 1 /\ Len(vals) \in Nat /\ vals'[Len(vals) + 1] = New
       /\ \A i \in 1 .. Len(vals) : vals'[i] = vals[i]
  <2>1. /\ DOMAIN node' = DOMAIN node \cup {New} /\ New \notin DOMAIN node
        /\ node'[New] = [type |-> t.type, name |-> t.name, of |-> t.of]
        /\ \A k \in DOMAIN node : node'[k] = node[k]
        /\ entry'[New] = e /\ \A k \in DOMAIN node : entry'[k] = entry[k]
        /\ \A k \in DOMAIN node : order'[k] = order[k]
        /\ Len(vals') = Len(vals) + 1 /\ Len(vals) \in Nat /\ vals'[Len(vals) + 1] = New
        /\ \A i \in 1 .. Len(vals) : vals'[i] = vals[i]
    BY <1>5, <1>9, NodeCreated, Zenon
  <2>2. node'[New].name = t.name /\ node'[New].of = t.of
    BY <2>1
  <2> QED
    BY <2>1, <2>2, Zenon
<1>11. /\ Len(su) = Len(st) + 1 /\ su[Len(st) + 1] = Entry(m, d)
       /\ \A i \in 1 .. Len(st) : su[i] = st[i]
  <2>1. Entry(m, d) \in Entries
    BY EntryIs
  <2> QED
    BY <1>3, <1>8, <2>1, StackGrown
<1>12. Laid' = Laid
  <2>1. \A k : <<BLOCK, k>> \in members => k \in DOMAIN node
    BY <1>5 DEF EmitterInvariant, Edges
  <2>2. StatementNodes' = StatementNodes
    BY <1>2, <1>10, <2>1 DEF StatementNodes, BLOCK
  <2> QED
    BY <1>2, <2>2 DEF Laid, Elements
<1>13. Entry(m, d).is = m /\ Entry(m, d).done = d
  BY DEF Entry
<1>14. \E j \in 1 .. Len(vals') : vals'[j] = New /\ (d = 0 => su[j].done = 0)
  <2>1. Len(vals) + 1 \in 1 .. Len(vals')
    BY <1>10
  <2>2. su[Len(vals) + 1].done = d
    BY <1>3, <1>11, <1>13
  <2> QED
    BY <1>10, <2>1, <2>2
<1>15. \A i \in 1 .. Len(vals) : i \in 1 .. Len(vals') /\ vals'[i] = vals[i] /\ su[i] = st[i]
  BY <1>3, <1>10, <1>11
<1>16. PICK h : /\ Meant(h, su)' /\ h[New] = m
                /\ \A k \in Expressions : h[k] = g[k]
                /\ Expressions' = Expressions \cup {New}
  <2>1. Parts(m) = <<>> \/ \E j \in 1 .. Len(vals') : vals'[j] = New /\ su[j].done = 0
    BY <1>8, <1>14
  <2>2. \A i \in 1 .. Len(vals) :
          \E j \in 1 .. Len(vals') : vals'[j] = vals[i] /\ su[j].done = st[i].done
    BY <1>15
  <2>3. node'[New].name = m[1] /\ node'[New].of = m[2]
    BY <1>8, <1>10
  <2>4. UNCHANGED <<fn, ast>>
    BY <1>2
  <2>5. Laid' = Laid /\ \E j \in 1 .. Len(vals') : vals'[j] = New
    BY <1>12, <1>14
  <2>6. DOMAIN node' = DOMAIN node \cup {New} /\ New \notin DOMAIN node
        /\ \A k \in DOMAIN node : node'[k] = node[k] /\ order'[k] = order[k]
    BY <1>10
  <2> QED
    <3>1. GrowsBy(m, st, su)
      BY <2>1, <2>2, <2>3, <2>4, <2>5, <2>6 DEF GrowsBy
    <3> QED
      BY <1>1, <1>5, <3>1, MeaningGrows
<1>17. Stacked(h, su)'
  <2>1. Stacks' = Stacks
    BY <1>2, SameMeanings
  <2>2. \A i \in 1 .. Len(vals') : i \in 1 .. Len(vals) \/ i = Len(vals) + 1
    BY <1>10
  <2>3. \A i \in 1 .. Len(vals') : vals'[i] \in Expressions' /\ su[i].is = h[vals'[i]]
    BY <1>3, <1>10, <1>11, <1>13, <1>15, <1>16, <2>2
  <2> QED
    BY <1>3, <1>10, <1>11, <2>1, <2>3 DEF Stacked
<1>18. WillMean(su)'
  BY <1>2, <1>6, StillLeads
<1> QED
  BY <1>16, <1>17, <1>18 DEF MeaningInvariant

LEMMA NoopMeaning ==
  ASSUME MeaningInvariant, FlowInvariant', EmitNoop
  PROVE  MeaningInvariant'
<1>1. PICK g, st : Meant(g, st) /\ Stacked(g, st)
  BY DEF MeaningInvariant
<1>2. /\ phase = "visit" /\ phase' = phase /\ cur \notin InBlock(blk) /\ nodes = <<>>
      /\ UNCHANGED <<fn, vals, ast>>
  BY DEF EmitNoop
<1>3. EmitterInvariant /\ Visiting /\ blk \in 1 .. NBlocks /\ fn.n \in Nat
  BY <1>2, NodeDomain
     DEF MeaningInvariant, FlowInvariant, Progress, EmitterInvariant, Control
<1>4. /\ DOMAIN node' = DOMAIN node \cup {New} /\ New \notin DOMAIN node
      /\ node'[New] = [type |-> "UNKNOWN", name |-> "noop", of |-> 0]
      /\ \A k \in DOMAIN node : node'[k] = node[k]
      /\ order'[New] = topLevelOrder /\ \A k \in DOMAIN node : order'[k] = order[k]
      /\ Laid' = Laid \cup {New}
  BY <1>3, NoopLaid, Zenon
<1> DEFINE m == <<"noop", 0, 0>>
<1>5. m \in Meanings /\ Parts(m) = <<>> /\ m[1] = "noop" /\ m[2] = 0
  <2>1. "noop" \in Sayings /\ 0 \in Extern .. fn.n /\ 0 \in Nat
    BY <1>3 DEF Names, Sayings, Extern
  <2>2. Parts(m) = <<>>
    BY DEF Parts
  <2> QED
    BY <2>1, <2>2, MeaningIs
<1>6. m = StatementSays(order'[New])
  BY <1>2, <1>3, <1>4, NextIsNoop
<1> HIDE DEF m
<1>7. \A i \in 1 .. Len(vals) :
        \E j \in 1 .. Len(vals') : vals'[j] = vals[i] /\ st[j].done = st[i].done
  BY <1>2
<1>8. PICK h : /\ Meant(h, st)' /\ \A k \in Expressions : h[k] = g[k]
               /\ Expressions' = Expressions \cup {New}
  <2>1. node'[New].name = m[1] /\ node'[New].of = m[2]
    BY <1>4, <1>5
  <2>2. Parts(m) = <<>> \/ \E j \in 1 .. Len(vals') : vals'[j] = New /\ st[j].done = 0
    BY <1>5
  <2>3. Laid' = Laid \cup {New} /\ m = StatementSays(order'[New])
    BY <1>4, <1>6
  <2> QED
    <3>1. GrowsBy(m, st, st)
      BY <1>2, <1>4, <1>5, <1>7, <2>1, <2>2, <2>3 DEF GrowsBy
    <3> QED
      BY <1>1, <1>3, <3>1, MeaningGrows
<1>9. Stacked(h, st)'
  <2>1. Stacks' = Stacks
    BY <1>2, SameMeanings
  <2> QED
    BY <1>1, <1>2, <1>8, <2>1 DEF Stacked
<1>10. WillMean(st)'
  BY <1>2 DEF WillMean
<1> QED
  BY <1>8, <1>9, <1>10 DEF MeaningInvariant

LEMMA SwapMeaning ==
  ASSUME MeaningInvariant, FlowInvariant', SwapOperands
  PROVE  MeaningInvariant'
<1>1. PICK g, st : Meant(g, st) /\ Stacked(g, st) /\ WillMean(st)
  BY DEF MeaningInvariant
<1>2. /\ Todo("swap") /\ work' = Tail(work)
      /\ UNCHANGED <<fn, phase, cur, node, order, ast, members, nodes>>
  BY DEF SwapOperands, graph, blockState
<1>3. st \in Stacks /\ Len(st) = Len(vals)
      /\ \A i \in 1 .. Len(vals) : vals[i] \in Expressions /\ st[i].is = g[vals[i]]
  BY <1>1 DEF Stacked
<1>4. EmitterInvariant /\ Head(work).do = "swap"
  BY <1>1, <1>2, <1>3, FirstDoing
<1>5. PICK su \in Stacks : /\ Does(Head(work), st, su)
                           /\ Leads(Tail(work), su, <<Entry(Says(cur), 1)>>)
  BY <1>1, <1>2, <1>3, FirstDoing
<1>6. PICK c \in Stacks, x \in Entries, y \in Entries : st = c \o <<x, y>> /\ su = c \o <<y, x>>
  BY <1>4, <1>5 DEF Does
<1> DEFINE m == Len(vals)
<1>7. /\ m \in Nat /\ m >= 2 /\ Len(vals') = m
      /\ \A i \in 1 .. m : vals'[i] = IF i = m THEN vals[m - 1]
                                       ELSE IF i = m - 1 THEN vals[m] ELSE vals[i]
  BY <1>4, SwapStep DEF EmitterInvariant, Loose
<1>8. /\ Len(su) = m
      /\ \A i \in 1 .. m : su[i] = IF i = m THEN st[m - 1]
                                   ELSE IF i = m - 1 THEN st[m] ELSE st[i]
  <2>1. c \in Seq(Entries) /\ Len(c) \in Nat
    BY DEF Stacks
  <2>2. /\ Len(c \o <<x, y>>) = Len(c) + 2 /\ Len(c \o <<y, x>>) = Len(c) + 2
        /\ \A i \in 1 .. Len(c) : (c \o <<x, y>>)[i] = c[i] /\ (c \o <<y, x>>)[i] = c[i]
        /\ (c \o <<x, y>>)[Len(c) + 1] = x /\ (c \o <<x, y>>)[Len(c) + 2] = y
        /\ (c \o <<y, x>>)[Len(c) + 1] = y /\ (c \o <<y, x>>)[Len(c) + 2] = x
    BY <2>1
  <2>3. m = Len(c) + 2
    BY <1>3, <1>6, <2>2
  <2>4. \A i \in 1 .. m : i = m \/ i = m - 1 \/ (i # m /\ i # m - 1 /\ i \in 1 .. Len(c))
    BY <2>1, <2>3
  <2>5. m = Len(c) + 2 /\ m - 1 = Len(c) + 1 /\ m # m - 1
    BY <2>1, <2>3
  <2> HIDE DEF m
  <2> QED
    BY <1>6, <2>2, <2>4, <2>5
<1> HIDE DEF m
<1>9. m \in 1 .. m /\ m - 1 \in 1 .. m
  BY <1>7
<1>10. \A i \in 1 .. m : \E j \in 1 .. Len(vals') : vals'[j] = vals[i] /\ su[j] = st[i]
  <2> SUFFICES ASSUME NEW i \in 1 .. m
               PROVE  \E j \in 1 .. m : vals'[j] = vals[i] /\ su[j] = st[i]
    BY <1>7
  <2>1. m # m - 1
    BY <1>7
  <2>2. CASE i = m
    BY <1>7, <1>8, <1>9, <2>1, <2>2
  <2>3. CASE i = m - 1
    BY <1>7, <1>8, <1>9, <2>1, <2>3
  <2>4. CASE i # m /\ i # m - 1
    BY <1>7, <1>8, <2>4
  <2> QED
    BY <2>2, <2>3, <2>4
<1>11. \A i \in 1 .. m : vals'[i] \in Expressions /\ su[i].is = g[vals'[i]]
  <2>1. m = Len(vals)
    BY DEF m
  <2> QED
    BY <1>3, <1>7, <1>8, <1>9, <2>1
<1>12. Laid' = Laid
  BY <1>2, LaidSame
<1>13. Expressions' = Expressions /\ Stacks' = Stacks /\ Meanings' = Meanings
  BY <1>2, SameMeanings DEF Expressions
<1>14. Extends(g, st, g, su)
  <2>1. /\ g \in [Expressions -> Meanings]
        /\ Laid \subseteq Expressions /\ \A k \in Laid : g[k] = StatementSays(order[k])
    BY <1>1 DEF Meant
  <2>2. \A i \in 1 .. Len(vals) :
          \E j \in 1 .. Len(vals') : vals'[j] = vals[i] /\ su[j] = st[i]
    BY <1>10 DEF m
  <2> QED
    BY <1>2, <1>12, <1>13, <2>1, <2>2 DEF Extends
<1>15. Meant(g, su)'
  BY <1>1, <1>14, MeaningExtended
<1>16. Stacked(g, su)'
  BY <1>7, <1>8, <1>11, <1>13 DEF Stacked
<1>17. WillMean(su)'
  BY <1>2, <1>5, StillLeads
<1> QED
  BY <1>15, <1>16, <1>17 DEF MeaningInvariant

----------------------------------------------------------------------------
(* What a join makes of the argument edges.                                *)
LEMMA JoinedArguments ==
  ASSUME Evaluated, ast \subseteq (DOMAIN node) \X (DOMAIN node),
         NEW p, NEW kids, NEW n, Joins(p, kids, n)
  PROVE  /\ Arguments(p)' = {kids[i] : i \in 1 .. n} /\ Cardinality(Arguments(p)') = n
         /\ \A k : k # p => Arguments(k)' = Arguments(k)
         /\ \A k : \A c \in Arguments(k) : order'[c] = order[c]
         /\ Arguments(p) = {} /\ n \in Nat /\ \A i \in 1 .. n : order'[kids[i]] = i
<1> DEFINE ids == DOMAIN node
           Kids == {kids[i] : i \in 1 .. n}
<1>1. /\ p \in ids /\ n \in Nat /\ kids \in [1 .. n -> ids]
      /\ \A i, j \in 1 .. n : i # j => kids[i] # kids[j]
      /\ \A q \in ids : <<p, q>> \notin ast
      /\ \A i \in 1 .. n : \A q \in ids : <<q, kids[i]>> \notin ast
      /\ DOMAIN node' = ids
      /\ ast' = ast \cup {<<p, kids[i]>> : i \in 1 .. n}
      /\ \A i \in 1 .. n : order'[kids[i]] = i
      /\ \A k \in ids : (\A i \in 1 .. n : kids[i] # k) => order'[k] = order[k]
  BY DEF Joins
<1>2. \A i \in 1 .. n : kids[i] \in ids
  BY <1>1
<1>3. \A k : k # p => Arguments(k)' = Arguments(k)
  BY <1>1 DEF Arguments
<1>4. Arguments(p)' = Kids /\ Arguments(p) = {}
  <2>1. Arguments(p)' = {k \in ids : <<p, k>> \in ast'}
    BY <1>1 DEF Arguments
  <2>2. \A k \in ids : <<p, k>> \in ast' <=> k \in Kids
    <3> DEFINE new == {<<p, kids[i]>> : i \in 1 .. n}
    <3>1. ast' = ast \cup new /\ \A k \in ids : <<p, k>> \notin ast
      BY <1>1
    <3>2. \A k : <<p, k>> \in new <=> k \in Kids
      OBVIOUS
    <3> HIDE DEF new, Kids
    <3> QED
      BY <3>1, <3>2
  <2>3. Kids \subseteq ids
    BY <1>2
  <2>4. Arguments(p) = {}
    BY <1>1 DEF Arguments
  <2> QED
    BY <2>1, <2>2, <2>3, <2>4
<1>5. \A k : \A c \in Arguments(k) : order'[c] = order[c]
  <2> SUFFICES ASSUME NEW k, NEW c \in Arguments(k) PROVE order'[c] = order[c]
    OBVIOUS
  <2>1. c \in ids /\ k \in ids /\ <<k, c>> \in ast
    BY DEF Arguments
  <2> QED
    BY <1>1, <2>1
<1>6. Cardinality(Kids) = n
  <2>1. kids \in Bijection(1 .. n, Kids)
    <3>1. kids \in [1 .. n -> Kids]
      BY <1>1
    <3>2. \A i, j \in 1 .. n : kids[i] = kids[j] => i = j
      BY <1>1
    <3>3. \A k \in Kids : \E i \in 1 .. n : kids[i] = k
      OBVIOUS
    <3> HIDE DEF Kids
    <3> QED
      BY <3>1, <3>2, <3>3, Fun_IsBij
  <2> HIDE DEF Kids
  <2> QED
    BY <1>1, <2>1, FS_CountingElements DEF ExistsBijection
<1> QED
  BY <1>1, <1>3, <1>4, <1>5, <1>6

(* The node p takes the nodes it is made of as its arguments.              *)
TakesParts(g, st, p, kids, n, su) ==
  /\ UNCHANGED <<fn, node>> /\ Laid' = Laid /\ \A k \in Laid : order'[k] = order[k]
  /\ Joins(p, kids, n) /\ p \in Expressions /\ n = Len(Parts(g[p]))
  /\ \A i \in 1 .. n : kids[i] \in Expressions /\ g[kids[i]] = Parts(g[p])[i]
  /\ \E j \in 1 .. Len(vals') : vals'[j] = p
  /\ \A i \in 1 .. Len(vals) :
       \/ vals[i] = p
       \/ st[i].done = 1 /\ \E j \in 1 .. n : vals[i] = kids[j]
       \/ \E j \in 1 .. Len(vals') : vals'[j] = vals[i] /\ su[j] = st[i]

LEMMA MeaningJoined ==
  ASSUME FlowInvariant, NEW g, NEW st, Meant(g, st),
         NEW p, NEW kids, NEW n, NEW su, TakesParts(g, st, p, kids, n, su)
  PROVE  Meant(g, su)'
<1>1. /\ UNCHANGED <<fn, node>> /\ Laid' = Laid /\ \A k \in Laid : order'[k] = order[k]
      /\ Joins(p, kids, n) /\ p \in Expressions /\ n = Len(Parts(g[p]))
      /\ \A i \in 1 .. n : kids[i] \in Expressions /\ g[kids[i]] = Parts(g[p])[i]
      /\ \E j \in 1 .. Len(vals') : vals'[j] = p
      /\ \A i \in 1 .. Len(vals) :
           \/ vals[i] = p
           \/ st[i].done = 1 /\ \E j \in 1 .. n : vals[i] = kids[j]
           \/ \E j \in 1 .. Len(vals') : vals'[j] = vals[i] /\ su[j] = st[i]
  BY DEF TakesParts
<1>2. /\ g \in [Expressions -> Meanings]
      /\ \A k \in Expressions : node[k].name = g[k][1] /\ node[k].of = g[k][2]
      /\ ast \subseteq Expressions \X Expressions
      /\ Laid \subseteq Expressions /\ \A k \in Laid : g[k] = StatementSays(order[k])
      /\ \A k \in Expressions : HasParts(g, k) \/ Waits(st, k)
      /\ \A k \in Expressions : k \in Laid \/ OnStack(k) \/ IsArgument(k)
  BY DEF Meant
<1>3. ast \subseteq (DOMAIN node) \X (DOMAIN node) /\ Evaluated
  BY ExpressionIds DEF FlowInvariant
<1>4. /\ Arguments(p)' = {kids[i] : i \in 1 .. n} /\ Cardinality(Arguments(p)') = n
      /\ \A k : k # p => Arguments(k)' = Arguments(k)
      /\ \A k : \A c \in Arguments(k) : order'[c] = order[c]
      /\ Arguments(p) = {} /\ n \in Nat /\ \A i \in 1 .. n : order'[kids[i]] = i
  <2>1. Joins(p, kids, n)
    BY <1>1
  <2> QED
    BY <1>3, <2>1, JoinedArguments, Zenon
<1>5. /\ Expressions' = Expressions /\ Meanings' = Meanings
      /\ \A m : Parts(m)' = Parts(m)
      /\ \A o : StatementSays(o)' = StatementSays(o)
  BY <1>1, SameMeanings DEF Expressions
<1>6. ASSUME NEW k \in Expressions PROVE HasParts(g, k)' \/ Waits(su, k)'
  <2>1. CASE k = p
    <3>1. PICK m : m = g[p]
      OBVIOUS
    <3>2. Parts(m)' = Parts(m)
      BY <1>5
    <3>3. \A c \in Arguments(p)' : order'[c] \in 1 .. n /\ g[c] = Parts(m)[order'[c]]
      BY <1>1, <1>4, <3>1
    <3>4. Cardinality(Arguments(p)') = Len(Parts(m))
      BY <1>1, <1>4, <3>1
    <3> QED
      BY <1>1, <2>1, <3>1, <3>2, <3>3, <3>4 DEF HasParts
  <2>2. CASE k # p
    <3>1. CASE HasParts(g, k)
      BY <1>1, <1>4, <2>2, <3>1, PartsKept
    <3>2. CASE Waits(st, k)
      <4>1. PICK i \in 1 .. Len(vals) : vals[i] = k /\ st[i].done = 0
        BY <3>2 DEF Waits
      <4>2. \E j \in 1 .. Len(vals') : vals'[j] = k /\ su[j].done = 0
        BY <1>1, <2>2, <4>1
      <4> QED
        BY <4>2 DEF Waits
    <3> QED
      BY <1>2, <3>1, <3>2
  <2> QED
    BY <2>1, <2>2
<1>7. ASSUME NEW k \in Expressions PROVE k \in Laid' \/ OnStack(k)' \/ IsArgument(k)'
  <2>1. CASE k \in Laid
    BY <1>1, <2>1
  <2>2. CASE OnStack(k)
    <3>1. PICK i \in 1 .. Len(vals) : vals[i] = k
      BY <2>2 DEF OnStack
    <3>2. CASE \E j \in 1 .. n : k = kids[j]
      <4>1. k \in Arguments(p)'
        BY <1>4, <3>2
      <4> QED
        BY <1>1, <1>5, <4>1 DEF IsArgument
    <3>3. CASE \E j \in 1 .. Len(vals') : vals'[j] = k
      BY <3>3 DEF OnStack
    <3> QED
      BY <1>1, <3>1, <3>2, <3>3
  <2>3. CASE IsArgument(k)
    <3>1. PICK q \in Expressions : k \in Arguments(q)
      BY <2>3 DEF IsArgument
    <3>2. k \in Arguments(q)'
      BY <1>4, <3>1
    <3> QED
      BY <1>5, <3>1, <3>2 DEF IsArgument
  <2> QED
    BY <1>2, <2>1, <2>2, <2>3
<1>8. (ast \subseteq Expressions \X Expressions)'
  <2>1. ast' = ast \cup {<<p, kids[i]>> : i \in 1 .. n}
    BY <1>1 DEF Joins
  <2> QED
    BY <1>1, <1>2, <1>5, <2>1
<1>9. \A k \in Laid' : g[k] = StatementSays(order[k])'
  <2> SUFFICES ASSUME NEW k \in Laid PROVE g[k] = StatementSays(order[k])'
    BY <1>1
  <2>1. PICK o : o = order[k]
    OBVIOUS
  <2>2. o = order'[k] /\ g[k] = StatementSays(o) /\ StatementSays(o)' = StatementSays(o)
    BY <1>1, <1>2, <1>5, <2>1
  <2> QED
    BY <2>2
<1>10. \A k \in Expressions' : node'[k].name = g[k][1] /\ node'[k].of = g[k][2]
  BY <1>1, <1>2, <1>5
<1>11. g \in [Expressions' -> Meanings'] /\ Laid' \subseteq Expressions'
  BY <1>1, <1>2, <1>5
<1> QED
  BY <1>5, <1>6, <1>7, <1>8, <1>9, <1>10, <1>11 DEF Meant

----------------------------------------------------------------------------
(* The entries of a parent and of what it is made of, and the parent's     *)
(* entry when they are joined.                                             *)
LEMMA StackJoined ==
  ASSUME NEW c \in Stacks, NEW w \in Stacks, NEW x \in Entries, NEW y \in Entries
  PROVE  LET l == Len(c)
             n == Len(w)
         IN /\ l \in Nat /\ n \in Nat
            /\ Len(c \o (w \o <<x>>)) = l + n + 1 /\ Len(c \o (<<x>> \o w)) = l + n + 1
            /\ \A i \in 1 .. l : (c \o (w \o <<x>>))[i] = c[i] /\ (c \o (<<x>> \o w))[i] = c[i]
            /\ \A i \in 1 .. n : /\ (c \o (w \o <<x>>))[l + i] = w[i]
                                /\ (c \o (<<x>> \o w))[l + 1 + i] = w[i]
            /\ (c \o (w \o <<x>>))[l + n + 1] = x /\ (c \o (<<x>> \o w))[l + 1] = x
            /\ Len(c \o <<y>>) = l + 1 /\ (c \o <<y>>)[l + 1] = y
            /\ \A i \in 1 .. l : (c \o <<y>>)[i] = c[i]
<1>1. c \in Seq(Entries) /\ w \in Seq(Entries)
  BY DEF Stacks
<1> QED
  BY <1>1

(* The entry q is the parent's, from b to c are those of what it is made   *)
(* of; what is before them stays.                                          *)
LEMMA JoinMeaning ==
  ASSUME FlowInvariant, phase = "expression",
         NEW g, NEW st, Meant(g, st), Stacked(g, st), NEW su \in Stacks, NEW m \in Meanings,
         NEW a, NEW b, NEW c, NEW q \in Nat, JoinsVals(a, b, c),
         c - b + 1 = Len(Parts(m)), st[a] = Entry(m, 0),
         \A i \in 1 .. Len(Parts(m)) : st[b + i - 1] = Entry(Parts(m)[i], 1),
         \A i \in 1 .. Len(vals) : i \in 1 .. q - 1 \/ i = a \/ i \in b .. c,
         a \notin 1 .. q - 1, q >= 1, Len(vals') = q, Len(su) = q, su[q] = Entry(m, 1),
         vals'[q] = vals[a],
         \A i \in 1 .. q - 1 : vals'[i] = vals[i] /\ su[i] = st[i] /\ i \in 1 .. Len(vals)
  PROVE  Meant(g, su)' /\ Stacked(g, su)'
<1> DEFINE p == vals[a]
           kids == SubSeq(vals, b, c)
           n == c - b + 1
<1>1. /\ a \in 1 .. Len(vals) /\ b \in Nat /\ c \in Nat
      /\ UNCHANGED <<fn, node, members, nodes>>
  BY DEF JoinsVals
<1>2. /\ Joins(p, kids, n)
      /\ \A i \in 1 .. n : /\ kids[i] = vals[b + i - 1]
                           /\ b + i - 1 \in b .. c /\ b + i - 1 \in 1 .. Len(vals)
  <2>1. Joins(p, kids, n)
    BY JoinsAre
  <2>2. \A i \in 1 .. n : /\ kids[i] = vals[b + i - 1]
                           /\ b + i - 1 \in b .. c /\ b + i - 1 \in 1 .. Len(vals)
    BY JoinsAre
  <2> QED
    BY <2>1, <2>2
<1>3. /\ st \in Stacks /\ Len(st) = Len(vals)
      /\ \A i \in 1 .. Len(vals) : vals[i] \in Expressions /\ st[i].is = g[vals[i]]
  BY DEF Stacked
<1>4. \A x, d : Entry(x, d).is = x /\ Entry(x, d).done = d
  BY DEF Entry
<1>5. p \in Expressions /\ g[p] = m
  BY <1>1, <1>3, <1>4
<1>6. \A i \in 1 .. n : kids[i] \in Expressions /\ g[kids[i]] = Parts(m)[i]
  <2> SUFFICES ASSUME NEW i \in 1 .. n PROVE kids[i] \in Expressions /\ g[kids[i]] = Parts(m)[i]
    OBVIOUS
  <2>1. st[b + i - 1] = Entry(Parts(m)[i], 1) /\ b + i - 1 \in 1 .. Len(vals)
        /\ kids[i] = vals[b + i - 1]
    BY <1>2
  <2>2. st[b + i - 1].is = Parts(m)[i]
    BY <1>4, <2>1
  <2> HIDE DEF n, kids
  <2> QED
    BY <1>3, <2>1, <2>2
<1>7. \A i \in b .. c : st[i].done = 1 /\ \E j \in 1 .. n : vals[i] = kids[j]
  <2> SUFFICES ASSUME NEW i \in b .. c PROVE st[i].done = 1 /\ \E j \in 1 .. n : vals[i] = kids[j]
    OBVIOUS
  <2>1. i - b + 1 \in 1 .. n /\ b + (i - b + 1) - 1 = i
    BY <1>1
  <2>2. kids[i - b + 1] = vals[i] /\ st[i] = Entry(Parts(m)[i - b + 1], 1)
    BY <1>2, <2>1
  <2> HIDE DEF n, kids
  <2> QED
    BY <1>4, <2>1, <2>2
<1>8. Laid' = Laid
  BY <1>1, LaidSame
<1>9. \A k \in Laid : order'[k] = order[k]
  <2>1. \A i \in 1 .. Len(vals) : vals[i] \notin Laid
    BY DEF FlowInvariant, Apart
  <2>2. Laid \subseteq DOMAIN node
    BY DEF Meant, Expressions
  <2>3. \A k \in DOMAIN node : (\A i \in 1 .. n : kids[i] # k) => order'[k] = order[k]
    BY <1>2 DEF Joins
  <2>4. \A k \in Laid : \A i \in 1 .. n : kids[i] # k
    BY <1>2, <2>1
  <2> HIDE DEF n, kids
  <2> QED
    BY <2>2, <2>3, <2>4
<1> HIDE DEF p, kids, n
<1>10. vals'[q] = p /\ q \in 1 .. Len(vals') /\ q \notin 1 .. q - 1
  BY DEF p
<1>11. \A i \in 1 .. Len(vals) :
         \/ vals[i] = p
         \/ st[i].done = 1 /\ \E j \in 1 .. n : vals[i] = kids[j]
         \/ \E j \in 1 .. Len(vals') : vals'[j] = vals[i] /\ su[j] = st[i]
  <2> SUFFICES ASSUME NEW i \in 1 .. Len(vals), i # a, i \notin b .. c
               PROVE  \E j \in 1 .. Len(vals') : vals'[j] = vals[i] /\ su[j] = st[i]
    BY <1>7 DEF p
  <2>1. i \in 1 .. q - 1
    OBVIOUS
  <2>2. i \in 1 .. Len(vals')
    BY <2>1
  <2> QED
    BY <2>1, <2>2
<1>12. n = Len(Parts(m))
  BY DEF n
<1>13. TakesParts(g, st, p, kids, n, su)
  BY <1>1, <1>2, <1>5, <1>6, <1>8, <1>9, <1>10, <1>11, <1>12 DEF TakesParts
<1>14. Meant(g, su)'
  BY <1>13, MeaningJoined
<1>15. Stacked(g, su)'
  <2>1. Expressions' = Expressions /\ Stacks' = Stacks
    BY <1>1, SameMeanings DEF Expressions
  <2>2. \A i \in 1 .. Len(vals') : i \in 1 .. q - 1 \/ i = q
    OBVIOUS
  <2>3. \A i \in 1 .. Len(vals') : vals'[i] \in Expressions /\ su[i].is = g[vals'[i]]
    BY <1>3, <1>4, <1>5, <1>10, <2>2
  <2> QED
    BY <2>1, <2>3 DEF Stacked
<1> QED
  BY <1>14, <1>15

LEMMA UnderLastMeaning ==
  ASSUME MeaningInvariant, FlowInvariant', ResolveUnderLast
  PROVE  MeaningInvariant'
<1>1. PICK g, st : Meant(g, st) /\ Stacked(g, st) /\ WillMean(st)
  BY DEF MeaningInvariant
<1>2. Todo("resolve") /\ work' = Tail(work) /\ UNCHANGED <<fn, cur>>
  BY DEF ResolveUnderLast
<1>3. st \in Stacks /\ Len(st) = Len(vals)
  BY <1>1 DEF Stacked
<1>4. /\ EmitterInvariant /\ phase = "expression" /\ WellFormed(fn)
      /\ Head(work) \in Tasks /\ Head(work).do = "resolve"
  BY <1>1, <1>2, <1>3, FirstDoing
<1>5. PICK su \in Stacks : /\ Does(Head(work), st, su)
                           /\ Leads(Tail(work), su, <<Entry(Says(cur), 1)>>)
  BY <1>1, <1>2, <1>3, FirstDoing
<1>6. PICK c \in Stacks, m \in Meanings :
        /\ Head(work).n = Len(Parts(m)) /\ Whole(Parts(m)) \in Stacks
        /\ st = c \o (Whole(Parts(m)) \o <<Entry(m, 0)>>)
        /\ su = c \o <<Entry(m, 1)>>
  BY <1>4, <1>5 DEF Does
<1>7. PICK v : v = Len(vals)
  OBVIOUS
<1>8. PICK n : n = Head(work).n
  OBVIOUS
<1>9. PICK w : w = Whole(Parts(m))
  OBVIOUS
<1>10. /\ JoinsVals(v, v - n, v - 1) /\ n \in Nat /\ Len(vals') = v - n
       /\ vals'[Len(vals')] = vals[v]
       /\ \A i \in 1 .. Len(vals') - 1 : vals'[i] = vals[i]
  BY <1>4, <1>7, <1>8, ResolveUnderLastStep
<1>11. /\ Entry(m, 0) \in Entries /\ Entry(m, 1) \in Entries
       /\ n = Len(Parts(m)) /\ Len(w) = n
       /\ \A i \in 1 .. n : w[i] = Entry(Parts(m)[i], 1)
  <2>1. w \in Seq(Entries) /\ w = [i \in 1 .. n |-> Entry(Parts(m)[i], 1)]
    BY <1>6, <1>8, <1>9 DEF Whole, Stacks
  <2>2. Len(w) = n
    BY <1>10, <2>1
  <2> QED
    BY <1>6, <1>8, <2>1, <2>2, EntryIs
<1> DEFINE l == Len(c)
<1>12. /\ l \in Nat
       /\ Len(st) = l + n + 1
       /\ \A i \in 1 .. l : st[i] = c[i] /\ su[i] = c[i]
       /\ \A i \in 1 .. n : st[l + i] = w[i]
       /\ st[l + n + 1] = Entry(m, 0) /\ Len(su) = l + 1 /\ su[l + 1] = Entry(m, 1)
  <2>1. c \in Stacks /\ w \in Stacks
    BY <1>6, <1>9
  <2> DEFINE x == Entry(m, 0)
             y == Entry(m, 1)
  <2>2. x \in Entries /\ y \in Entries
    BY <1>11
  <2>3. st = c \o (w \o <<x>>) /\ su = c \o <<y>>
    BY <1>6, <1>9
  <2> HIDE DEF x, y
  <2>4. /\ Len(c) \in Nat /\ Len(c \o (w \o <<x>>)) = Len(c) + Len(w) + 1
        /\ \A i \in 1 .. Len(c) : (c \o (w \o <<x>>))[i] = c[i]
        /\ \A i \in 1 .. Len(w) : (c \o (w \o <<x>>))[Len(c) + i] = w[i]
        /\ (c \o (w \o <<x>>))[Len(c) + Len(w) + 1] = x
        /\ Len(c \o <<y>>) = Len(c) + 1 /\ (c \o <<y>>)[Len(c) + 1] = y
        /\ \A i \in 1 .. Len(c) : (c \o <<y>>)[i] = c[i]
    BY <2>1, <2>2, StackJoined
  <2>5. Len(w) = n /\ x = Entry(m, 0) /\ y = Entry(m, 1)
    BY <1>11 DEF x, y
  <2> QED
    BY <2>3, <2>4, <2>5
<1> HIDE DEF l
<1>13. v = l + n + 1 /\ Len(vals') = l + 1 /\ v - n = l + 1
  BY <1>3, <1>7, <1>10, <1>12
<1>14. \A i \in 1 .. Len(Parts(m)) : st[(v - n) + i - 1] = Entry(Parts(m)[i], 1)
  <2>1. \A i \in 1 .. n : (v - n) + i - 1 = l + i
    BY <1>10, <1>12, <1>13
  <2> QED
    BY <1>11, <1>12, <2>1
<1>15. /\ \A i \in 1 .. v : i \in 1 .. (l + 1) - 1 \/ i = v \/ i \in v - n .. v - 1
       /\ v \notin 1 .. (l + 1) - 1 /\ l + 1 \in Nat /\ l + 1 >= 1
       /\ (v - 1) - (v - n) + 1 = n
       /\ \A i \in 1 .. (l + 1) - 1 : i \in 1 .. l /\ i \in 1 .. Len(vals') - 1 /\ i \in 1 .. v
  BY <1>10, <1>12, <1>13
<1>16. Meant(g, su)' /\ Stacked(g, su)'
  <2> DEFINE q == l + 1
             b == v - n
             d == v - 1
  <2>1. q \in Nat /\ q >= 1 /\ d - b + 1 = Len(Parts(m))
    BY <1>11, <1>15
  <2>2. st[v] = Entry(m, 0) /\ su[q] = Entry(m, 1) /\ Len(su) = q
    BY <1>12, <1>13
  <2>3. \A i \in 1 .. Len(Parts(m)) : st[b + i - 1] = Entry(Parts(m)[i], 1)
    BY <1>14
  <2>4. /\ \A i \in 1 .. Len(vals) : i \in 1 .. q - 1 \/ i = v \/ i \in b .. d
        /\ v \notin 1 .. q - 1
    BY <1>7, <1>15
  <2>5. Len(vals') = q /\ vals'[q] = vals[v]
    BY <1>10, <1>13
  <2>6. \A i \in 1 .. q - 1 : vals'[i] = vals[i] /\ su[i] = st[i] /\ i \in 1 .. Len(vals)
    BY <1>7, <1>10, <1>12, <1>15
  <2>7. JoinsVals(v, b, d)
    BY <1>10
  <2>8. FlowInvariant /\ phase = "expression" /\ Meant(g, st) /\ Stacked(g, st)
    BY <1>1, <1>4 DEF MeaningInvariant
  <2> HIDE DEF q, b, d
  <2> QED
    BY <2>1, <2>2, <2>3, <2>4, <2>5, <2>6, <2>7, <2>8, JoinMeaning, Zenon
<1>17. WillMean(su)'
  BY <1>2, <1>5, StillLeads
<1> QED
  BY <1>16, <1>17 DEF MeaningInvariant

LEMMA UnderFirstMeaning ==
  ASSUME MeaningInvariant, FlowInvariant', ResolveUnderFirst
  PROVE  MeaningInvariant'
<1>1. PICK g, st : Meant(g, st) /\ Stacked(g, st) /\ WillMean(st)
  BY DEF MeaningInvariant
<1>2. Todo("close") /\ work' = Tail(work) /\ UNCHANGED <<fn, cur>>
  BY DEF ResolveUnderFirst
<1>3. st \in Stacks /\ Len(st) = Len(vals)
  BY <1>1 DEF Stacked
<1>4. /\ EmitterInvariant /\ phase = "expression" /\ WellFormed(fn)
      /\ Head(work) \in Tasks /\ Head(work).do = "close"
  BY <1>1, <1>2, <1>3, FirstDoing
<1>5. PICK su \in Stacks : /\ Does(Head(work), st, su)
                           /\ Leads(Tail(work), su, <<Entry(Says(cur), 1)>>)
  BY <1>1, <1>2, <1>3, FirstDoing
<1>6. PICK c \in Stacks, m \in Meanings :
        /\ Head(work).n = Len(Parts(m)) /\ Whole(Parts(m)) \in Stacks
        /\ st = c \o (<<Entry(m, 0)>> \o Whole(Parts(m)))
        /\ su = c \o <<Entry(m, 1)>>
  BY <1>4, <1>5 DEF Does
<1>7. PICK v : v = Len(vals)
  OBVIOUS
<1>8. PICK n : n = Head(work).n
  OBVIOUS
<1>9. PICK w : w = Whole(Parts(m))
  OBVIOUS
<1>10. /\ JoinsVals(v - n, v - n + 1, v) /\ n \in Nat /\ Len(vals') = v - n
       /\ \A i \in 1 .. Len(vals') : vals'[i] = vals[i]
  BY <1>4, <1>7, <1>8, ResolveUnderFirstStep
<1>11. /\ Entry(m, 0) \in Entries /\ Entry(m, 1) \in Entries
       /\ n = Len(Parts(m)) /\ Len(w) = n
       /\ \A i \in 1 .. n : w[i] = Entry(Parts(m)[i], 1)
  <2>1. w \in Seq(Entries) /\ w = [i \in 1 .. n |-> Entry(Parts(m)[i], 1)]
    BY <1>6, <1>8, <1>9 DEF Whole, Stacks
  <2>2. Len(w) = n
    BY <1>10, <2>1
  <2> QED
    BY <1>6, <1>8, <2>1, <2>2, EntryIs
<1> DEFINE l == Len(c)
<1>12. /\ l \in Nat
       /\ Len(st) = l + n + 1
       /\ \A i \in 1 .. l : st[i] = c[i] /\ su[i] = c[i]
       /\ \A i \in 1 .. n : st[l + 1 + i] = w[i]
       /\ st[l + 1] = Entry(m, 0) /\ Len(su) = l + 1 /\ su[l + 1] = Entry(m, 1)
  <2>1. c \in Stacks /\ w \in Stacks
    BY <1>6, <1>9
  <2> DEFINE x == Entry(m, 0)
             y == Entry(m, 1)
  <2>2. x \in Entries /\ y \in Entries
    BY <1>11
  <2>3. st = c \o (<<x>> \o w) /\ su = c \o <<y>>
    BY <1>6, <1>9
  <2> HIDE DEF x, y
  <2>4. /\ Len(c) \in Nat /\ Len(c \o (<<x>> \o w)) = Len(c) + Len(w) + 1
        /\ \A i \in 1 .. Len(c) : (c \o (<<x>> \o w))[i] = c[i]
        /\ \A i \in 1 .. Len(w) : (c \o (<<x>> \o w))[Len(c) + 1 + i] = w[i]
        /\ (c \o (<<x>> \o w))[Len(c) + 1] = x
        /\ Len(c \o <<y>>) = Len(c) + 1 /\ (c \o <<y>>)[Len(c) + 1] = y
        /\ \A i \in 1 .. Len(c) : (c \o <<y>>)[i] = c[i]
    BY <2>1, <2>2, StackJoined
  <2>5. Len(w) = n /\ x = Entry(m, 0) /\ y = Entry(m, 1)
    BY <1>11 DEF x, y
  <2> QED
    BY <2>3, <2>4, <2>5
<1> HIDE DEF l
<1>13. v = l + n + 1 /\ Len(vals') = l + 1 /\ v - n = l + 1
  BY <1>3, <1>7, <1>10, <1>12
<1>14. \A i \in 1 .. Len(Parts(m)) : st[(v - n + 1) + i - 1] = Entry(Parts(m)[i], 1)
  <2>1. \A i \in 1 .. n : (v - n + 1) + i - 1 = l + 1 + i
    BY <1>10, <1>12, <1>13
  <2> QED
    BY <1>11, <1>12, <2>1
<1>15. /\ \A i \in 1 .. v : i \in 1 .. (l + 1) - 1 \/ i = v - n \/ i \in v - n + 1 .. v
       /\ v - n \notin 1 .. (l + 1) - 1 /\ l + 1 \in Nat /\ l + 1 >= 1
       /\ v - (v - n + 1) + 1 = n /\ l + 1 \in 1 .. Len(vals')
       /\ \A i \in 1 .. (l + 1) - 1 : i \in 1 .. l /\ i \in 1 .. Len(vals') /\ i \in 1 .. v
  BY <1>10, <1>12, <1>13
<1>16. Meant(g, su)' /\ Stacked(g, su)'
  <2> DEFINE q == l + 1
             a == v - n
             b == v - n + 1
  <2>1. q \in Nat /\ q >= 1 /\ v - b + 1 = Len(Parts(m))
    BY <1>11, <1>15
  <2>2. st[a] = Entry(m, 0) /\ su[q] = Entry(m, 1) /\ Len(su) = q
    BY <1>12, <1>13
  <2>3. \A i \in 1 .. Len(Parts(m)) : st[b + i - 1] = Entry(Parts(m)[i], 1)
    BY <1>14
  <2>4. /\ \A i \in 1 .. Len(vals) : i \in 1 .. q - 1 \/ i = a \/ i \in b .. v
        /\ a \notin 1 .. q - 1
    BY <1>7, <1>15
  <2>5. Len(vals') = q /\ vals'[q] = vals[a]
    BY <1>10, <1>13, <1>15
  <2>6. \A i \in 1 .. q - 1 : vals'[i] = vals[i] /\ su[i] = st[i] /\ i \in 1 .. Len(vals)
    BY <1>7, <1>10, <1>12, <1>15
  <2>7. JoinsVals(a, b, v)
    BY <1>10
  <2>8. FlowInvariant /\ phase = "expression" /\ Meant(g, st) /\ Stacked(g, st)
    BY <1>1, <1>4 DEF MeaningInvariant
  <2> HIDE DEF q, a, b
  <2> QED
    BY <2>1, <2>2, <2>3, <2>4, <2>5, <2>6, <2>7, <2>8, JoinMeaning, Zenon
<1>17. WillMean(su)'
  BY <1>2, <1>5, StillLeads
<1> QED
  BY <1>16, <1>17 DEF MeaningInvariant

----------------------------------------------------------------------------
(* Between the statements: no meaning changes, the stack is empty.         *)
LEMMA EndStatementMeaning ==
  ASSUME MeaningInvariant, FlowInvariant', EndStatement
  PROVE  MeaningInvariant'
<1> DEFINE r == vals[1]
           o == topLevelOrder
<1>1. PICK g, st : Meant(g, st) /\ Stacked(g, st) /\ WillMean(st)
  BY DEF MeaningInvariant
<1>2. /\ phase = "expression" /\ work = <<>> /\ vals' = <<>> /\ phase' = "visit"
      /\ UNCHANGED <<fn, node, ast>>
  BY DEF EndStatement, graph
<1>3. /\ EmitterInvariant /\ Apart /\ Visiting /\ HasStatement(cur) /\ cur \in InBlock(blk)
  BY <1>2 DEF MeaningInvariant, FlowInvariant, Progress, EmitterInvariant, Control
<1>4. /\ Len(vals) = 1 /\ r \in DOMAIN node
      /\ \A q \in DOMAIN node : <<q, r>> \notin ast
      /\ Laid' = Laid \cup {r}
      /\ order'[r] = o /\ \A k \in DOMAIN node : k # r => order'[k] = order[k]
  BY <1>3, StatementLaid, Zenon
<1>5. /\ st \in Stacks /\ Len(st) = 1 /\ r \in Expressions /\ st[1].is = g[r]
  BY <1>1, <1>4 DEF Stacked
<1>6. st[1].is = Says(cur) /\ st[1].done = 1
  <2>1. Leads(<<>>, st, <<Entry(Says(cur), 1)>>)
    BY <1>1, <1>2 DEF WillMean
  <2>2. st = <<Entry(Says(cur), 1)>>
    BY <2>1, LeadsNothing
  <2> QED
    BY <2>2 DEF Entry
<1>7. g[r] = StatementSays(o)
  BY <1>3, <1>5, <1>6, NextIsCur
<1>8. /\ g \in [Expressions -> Meanings] /\ ast \subseteq Expressions \X Expressions
      /\ Laid \subseteq Expressions /\ \A k \in Laid : g[k] = StatementSays(order[k])
  BY <1>1 DEF Meant
<1>9. Expressions \subseteq DOMAIN node
  BY DEF Expressions
<1>10. r \notin Laid
  BY <1>3, <1>4 DEF Apart
<1>11. Expressions' = Expressions /\ Stacks' = Stacks
  BY <1>2, SameMeanings DEF Expressions
<1> HIDE DEF r, o
<1>12. Extends(g, st, g, <<>>)
  <2>1. \A k \in Laid' : g[k] = StatementSays(order'[k])
    BY <1>4, <1>7, <1>8, <1>9, <1>10
  <2>2. \A p, k \in Expressions : <<p, k>> \in ast => order'[k] = order[k]
    BY <1>4, <1>9
  <2>3. Laid \subseteq Laid' /\ Laid' \subseteq Expressions'
    BY <1>4, <1>5, <1>8, <1>11
  <2>4. \A i \in 1 .. Len(vals) : st[i].done # 0 /\ vals[i] \in Laid'
    BY <1>4, <1>6 DEF r
  <2> QED
    BY <1>2, <1>8, <1>11, <2>1, <2>2, <2>3, <2>4 DEF Extends
<1>13. Meant(g, <<>>)'
  <2>1. PICK su : su = <<>>
    OBVIOUS
  <2> QED
    BY <1>1, <1>12, <2>1, MeaningExtended
<1>14. Stacked(g, <<>>)'
  BY <1>2, <1>11 DEF Stacked, Stacks
<1>15. WillMean(<<>>)'
  BY <1>2 DEF WillMean
<1> QED
  BY <1>13, <1>14, <1>15 DEF MeaningInvariant

LEMMA EndBlockMeaning ==
  ASSUME MeaningInvariant, FlowInvariant', EndBlock
  PROVE  MeaningInvariant'
<1>1. PICK g, st : Meant(g, st) /\ Stacked(g, st)
  BY DEF MeaningInvariant
<1>2. /\ phase' # "expression" /\ UNCHANGED <<fn, node, ast, order, vals>>
  BY DEF EndBlock, graph
<1>3. Laid' = Laid
  BY BlockLaid DEF MeaningInvariant, FlowInvariant
<1>4. Meant(g, st)' /\ Stacked(g, st)'
  BY <1>1, <1>2, <1>3, MeaningStays
<1>5. WillMean(st)'
  BY <1>2 DEF WillMean
<1> QED
  BY <1>4, <1>5 DEF MeaningInvariant

LEMMA ConnectMeaning ==
  ASSUME MeaningInvariant, FlowInvariant', ConnectMethod \/ ConnectTerminator
  PROVE  MeaningInvariant'
<1>1. PICK g, st : Meant(g, st) /\ Stacked(g, st)
  BY DEF MeaningInvariant
<1>2. /\ phase' # "expression" /\ UNCHANGED <<fn, node, ast, order, vals, members, nodes>>
  BY DEF ConnectMethod, ConnectTerminator, graph, blockState
<1>3. Meant(g, st)' /\ Stacked(g, st)'
  BY <1>1, <1>2, LaidSame, MeaningStays
<1>4. WillMean(st)'
  BY <1>2 DEF WillMean
<1> QED
  BY <1>3, <1>4 DEF MeaningInvariant

LEMMA PrologueMeaning ==
  ASSUME MeaningInvariant, FlowInvariant', EmitPrologue
  PROVE  MeaningInvariant'
<1>1. /\ phase = "prologue" /\ phase' # "expression" /\ UNCHANGED <<fn, vals, ast>>
      /\ \A k \in DOMAIN node' : node'[k].name = "declaration"
  BY DEF EmitPrologue, blockState
<1>2. EmitterInvariant /\ node = <<>> /\ vals = <<>>
  BY <1>1 DEF MeaningInvariant, FlowInvariant, EmitterInvariant, Control
<1>3. Expressions' = {}
  BY <1>1 DEF Expressions
<1>4. Laid' = {}
  BY <1>2, NothingLaid
<1>5. ast' = {}
  <2>1. ast \subseteq (DOMAIN node) \X (DOMAIN node) /\ DOMAIN node = {}
    BY <1>2, AstIds
  <2> QED
    BY <1>1, <2>1
<1>6. PICK g : g = [k \in {} |-> <<"noop", 0, 0>>]
  OBVIOUS
<1>7. Meant(g, <<>>)'
  BY <1>3, <1>4, <1>5, <1>6 DEF Meant
<1>8. Stacked(g, <<>>)'
  BY <1>1, <1>2 DEF Stacked, Stacks
<1>9. WillMean(<<>>)'
  BY <1>1 DEF WillMean
<1> QED
  BY <1>7, <1>8, <1>9 DEF MeaningInvariant

LEMMA InitMeaning == Init => MeaningInvariant
<1> SUFFICES ASSUME Init PROVE MeaningInvariant
  OBVIOUS
<1>1. FlowInvariant
  BY InitFlow
<1>2. node = <<>> /\ nodes = <<>> /\ vals = <<>> /\ ast = {} /\ phase = "prologue"
  BY DEF Init
<1>3. Expressions = {} /\ Laid = {}
  BY <1>2 DEF Expressions, Laid, StatementNodes, Elements
<1>4. PICK g : g = [k \in {} |-> <<"noop", 0, 0>>]
  OBVIOUS
<1>5. Meant(g, <<>>)
  BY <1>2, <1>3, <1>4 DEF Meant
<1>6. Stacked(g, <<>>)
  BY <1>2 DEF Stacked, Stacks
<1>7. WillMean(<<>>)
  BY <1>2 DEF WillMean
<1> QED
  BY <1>1, <1>5, <1>6, <1>7 DEF MeaningInvariant

LEMMA StutterMeaning ==
  ASSUME MeaningInvariant, FlowInvariant', UNCHANGED vars
  PROVE  MeaningInvariant'
<1>1. PICK g, st : Meant(g, st) /\ Stacked(g, st) /\ WillMean(st)
  BY DEF MeaningInvariant
<1>2. UNCHANGED <<fn, phase, cur, work, node, ast, order, vals, members, nodes>>
  BY DEF vars
<1>3. Meant(g, st)' /\ Stacked(g, st)'
  BY <1>1, <1>2, LaidSame, MeaningStays
<1>4. WillMean(st)'
  BY <1>1, <1>2, StillLeads DEF WillMean
<1> QED
  BY <1>3, <1>4 DEF MeaningInvariant

(* Every step keeps the meanings.                                          *)
LEMMA MeaningStep ==
  ASSUME MeaningInvariant, [Next]_vars
  PROVE  MeaningInvariant'
<1>1. FlowInvariant'
  BY FlowStep DEF MeaningInvariant
<1>2. CASE EmitPrologue
  BY <1>1, <1>2, PrologueMeaning
<1>3. CASE VisitInstruction
  BY <1>1, <1>3, VisitMeaning
<1>4. CASE EmitNode \/ BeginCall
  BY <1>1, <1>4, NodeMeaning
<1>5. CASE EmitValue
  BY <1>1, <1>5, ValueMeaning
<1>6. CASE SwapOperands
  BY <1>1, <1>6, SwapMeaning
<1>7. CASE ConnectReceiver
  BY <1>1, <1>7, ReceiverMeaning
<1>8. CASE ResolveUnderLast
  BY <1>1, <1>8, UnderLastMeaning
<1>9. CASE ResolveUnderFirst
  BY <1>1, <1>9, UnderFirstMeaning
<1>10. CASE EndStatement
  BY <1>1, <1>10, EndStatementMeaning
<1>11. CASE EmitNoop
  BY <1>1, <1>11, NoopMeaning
<1>12. CASE EndBlock
  BY <1>1, <1>12, EndBlockMeaning
<1>13. CASE ConnectMethod \/ ConnectTerminator
  BY <1>1, <1>13, ConnectMeaning
<1>14. CASE UNCHANGED vars
  BY <1>1, <1>14, StutterMeaning
<1> QED
  BY <1>2, <1>3, <1>4, <1>5, <1>6, <1>7, <1>8, <1>9, <1>10, <1>11, <1>12, <1>13, <1>14 DEF Next

(* The inductive invariant of the meanings.                                *)
THEOREM MeaningInvariantHolds == Spec => []MeaningInvariant
<1>1. Init => MeaningInvariant
  BY InitMeaning
<1>2. MeaningInvariant /\ [Next]_vars => MeaningInvariant'
  BY MeaningStep
<1> QED
  BY <1>1, <1>2, PTL DEF Spec

----------------------------------------------------------------------------
(* A function that is defined along the edges to the arguments is the only *)
(* one of its kind: it cannot differ from another all along a cycle.       *)
LEMMA MeaningIsUnique ==
  ASSUME EmitterInvariant, ast \subseteq Expressions \X Expressions,
         \A k \in Expressions : k \in StatementNodes \/ IsArgument(k),
         NEW f, f = [k \in Expressions |->
                       IF k \in StatementNodes THEN StatementSays(order[k])
                       ELSE Part(f[ParentOf(k)], order[k])],
         NEW g, g = [k \in Expressions |->
                       IF k \in StatementNodes THEN StatementSays(order[k])
                       ELSE Part(g[ParentOf(k)], order[k])]
  PROVE  f = g
<1> DEFINE Differ == {k \in Expressions : f[k] # g[k]}
<1>1. \A k \in Expressions : k \notin StatementNodes =>
        ParentOf(k) \in Expressions /\ <<ParentOf(k), k>> \in ast
  BY DEF IsArgument, ParentOf, Arguments
<1>2. \A k \in Differ : \E p \in Differ : <<p, k>> \in ast
  <2> SUFFICES ASSUME NEW k \in Differ PROVE \E p \in Differ : <<p, k>> \in ast
    OBVIOUS
  <2>1. k \in Expressions /\ f[k] # g[k]
    OBVIOUS
  <2>2. k \notin StatementNodes
    BY <2>1
  <2>3. f[k] = Part(f[ParentOf(k)], order[k]) /\ g[k] = Part(g[ParentOf(k)], order[k])
    BY <2>1, <2>2
  <2>4. f[ParentOf(k)] # g[ParentOf(k)]
    BY <2>1, <2>3
  <2> QED
    BY <1>1, <2>1, <2>2, <2>4
<1>3. Differ = {}
  <2>1. BP!NoCycle
    BY DEF EmitterInvariant, Graph, BP!BuilderInvariant
  <2>2. Differ \subseteq BP!Nodes
    BY NodeDomain DEF Expressions, EmitterInvariant
  <2> HIDE DEF Differ
  <2> QED
    BY <1>2, <2>1, <2>2 DEF BP!NoCycle
<1>4. \A k \in Expressions : f[k] = g[k]
  BY <1>3
<1> QED
  BY <1>4

(* In a finished method the meanings given are those of the places.        *)
LEMMA MeaningIsMeant ==
  ASSUME MeaningInvariant, Done, HasBody, NEW g, NEW st, Meant(g, st)
  PROVE  /\ Meaning = g /\ Laid = StatementNodes
         /\ \A k \in Expressions : HasParts(g, k) /\ (k \in StatementNodes \/ IsArgument(k))
<1>2. phase = "done" /\ EmitterInvariant /\ vals = <<>> /\ nodes = <<>>
  BY DEF Done, MeaningInvariant, FlowInvariant, Progress, LaidOut, EmitterInvariant, Control
<1>3. Laid = StatementNodes
  BY <1>2 DEF Laid, Elements
<1>4. /\ g \in [Expressions -> Meanings] /\ ast \subseteq Expressions \X Expressions
      /\ \A k \in Expressions : node[k].name = g[k][1] /\ node[k].of = g[k][2]
      /\ \A k \in StatementNodes : g[k] = StatementSays(order[k])
  BY <1>3 DEF Meant
<1>5. \A k \in Expressions : HasParts(g, k) /\ (k \in StatementNodes \/ IsArgument(k))
  BY <1>2, <1>3 DEF Meant, Waits, OnStack
<1>6. ASSUME NEW k \in Expressions, k \notin StatementNodes
      PROVE  g[k] = Part(g[ParentOf(k)], order[k])
  <2>1. PICK p : p = ParentOf(k)
    OBVIOUS
  <2>2. p \in Expressions /\ k \in Arguments(p)
    BY <1>5, <1>6, <2>1 DEF IsArgument, ParentOf
  <2>3. order[k] \in 1 .. Len(Parts(g[p])) /\ g[k] = Parts(g[p])[order[k]]
    BY <1>5, <2>2 DEF HasParts
  <2> QED
    BY <2>1, <2>3 DEF Part
<1> DEFINE Right(f) == f = [k \in Expressions |->
                              IF k \in StatementNodes THEN StatementSays(order[k])
                              ELSE Part(f[ParentOf(k)], order[k])]
<1>7. Right(g)
  BY <1>4, <1>6
<1>8. Meaning = CHOOSE f : Right(f)
  BY DEF Meaning
<1>9. Right(Meaning)
  BY <1>7, <1>8
<1>10. Meaning = g
  <2>1. PICK f : f = Meaning
    OBVIOUS
  <2>2. f = [k \in Expressions |->
               IF k \in StatementNodes THEN StatementSays(order[k])
               ELSE Part(f[ParentOf(k)], order[k])]
    BY <1>9, <2>1
  <2>3. g = [k \in Expressions |->
               IF k \in StatementNodes THEN StatementSays(order[k])
               ELSE Part(g[ParentOf(k)], order[k])]
    BY <1>7
  <2>4. \A k \in Expressions : k \in StatementNodes \/ IsArgument(k)
    BY <1>5
  <2>5. f = g
    BY <1>2, <1>4, <2>2, <2>3, <2>4, MeaningIsUnique
  <2> QED
    BY <2>1, <2>5
<1> QED
  BY <1>3, <1>5, <1>10

----------------------------------------------------------------------------
(* What has been laid out is never made part of another expression.        *)
RootsFree == \A k \in Laid : \A p : <<p, k>> \notin ast

LEMMA RootsStep ==
  ASSUME FlowInvariant, FlowInvariant', RootsFree, [Next]_vars
  PROVE  RootsFree'
<1>1. /\ EmitterInvariant /\ Apart /\ Loose
      /\ ast \subseteq (DOMAIN node) \X (DOMAIN node)
      /\ New \notin DOMAIN node
  BY AstIds, NodeDomain DEF FlowInvariant, EmitterInvariant
<1>2. ASSUME ast' = ast, Laid' \subseteq Laid PROVE RootsFree'
  BY <1>2 DEF RootsFree
<1>3. ASSUME ast' = ast, Laid' \subseteq Laid \cup {New} PROVE RootsFree'
  BY <1>1, <1>3 DEF RootsFree
<1>4. ASSUME phase = "expression", NEW a, NEW b, NEW c, JoinsVals(a, b, c) PROVE RootsFree'
  <2> DEFINE p == vals[a]
             kids == SubSeq(vals, b, c)
             n == c - b + 1
  <2>1. /\ Joins(p, kids, n)
        /\ \A i \in 1 .. n : kids[i] = vals[b + i - 1] /\ b + i - 1 \in 1 .. Len(vals)
    <3>1. Joins(p, kids, n)
      BY <1>4, JoinsAre
    <3>2. \A i \in 1 .. n : /\ kids[i] = vals[b + i - 1]
                           /\ b + i - 1 \in b .. c /\ b + i - 1 \in 1 .. Len(vals)
      BY <1>4, JoinsAre
    <3> QED
      BY <3>1, <3>2
  <2>2. Laid' = Laid
    BY <1>4, LaidSame DEF JoinsVals
  <2>3. \A i \in 1 .. n : kids[i] \notin Laid
    BY <1>1, <2>1 DEF Apart
  <2>4. ast' = ast \cup {<<p, kids[i]>> : i \in 1 .. n}
    BY <2>1 DEF Joins
  <2> HIDE DEF p, kids, n
  <2> QED
    BY <2>2, <2>3, <2>4 DEF RootsFree
<1>5. CASE EmitPrologue
  <2>1. Laid' = {} /\ ast' = ast
    BY <1>1, <1>5, NothingLaid DEF EmitPrologue
  <2> QED
    BY <1>2, <2>1
<1>6. CASE VisitInstruction \/ EmitValue \/ SwapOperands \/ ConnectReceiver
             \/ ConnectMethod \/ ConnectTerminator \/ UNCHANGED vars
  <2>1. UNCHANGED <<node, members, nodes, ast>>
    BY <1>6 DEF VisitInstruction, EmitValue, SwapOperands, ConnectReceiver, ConnectMethod,
                ConnectTerminator, vars, graph, blockState
  <2> QED
    BY <1>2, <2>1, LaidSame
<1>7. CASE EmitNode \/ BeginCall
  <2>1. PICK t : node' = Append(node, t)
    BY <1>7 DEF EmitNode, BeginCall, Create
  <2>2. ast' = ast /\ members' = members /\ nodes' = nodes
    BY <1>7 DEF EmitNode, BeginCall, Create, blockState
  <2>3. /\ DOMAIN node' = DOMAIN node \cup {New}
        /\ \A k \in DOMAIN node : node'[k] = node[k]
    <3>1. node \in Seq(NodeRecords)
      BY <1>1 DEF EmitterInvariant, Typed
    <3>2. PICK n : n = node
      OBVIOUS
    <3>3. /\ DOMAIN Append(n, t) = 1 .. Len(n) + 1 /\ DOMAIN n = 1 .. Len(n) /\ Len(n) \in Nat
          /\ \A k \in 1 .. Len(n) : Append(n, t)[k] = n[k]
      BY <3>1, <3>2
    <3> QED
      BY <2>1, <3>2, <3>3 DEF New
  <2>4. Laid' \subseteq Laid \cup {New}
    BY <2>2, <2>3 DEF Laid, StatementNodes, Elements, BLOCK
  <2> QED
    BY <1>3, <2>2, <2>4
<1>8. CASE ResolveUnderLast
  <2>1. phase = "expression"
    BY <1>8 DEF ResolveUnderLast, Todo
  <2> QED
    BY <1>1, <1>4, <1>8, <2>1, ResolveUnderLastStep
<1>9. CASE ResolveUnderFirst
  <2>1. phase = "expression"
    BY <1>9 DEF ResolveUnderFirst, Todo
  <2> QED
    BY <1>1, <1>4, <1>9, <2>1, ResolveUnderFirstStep
<1>10. CASE EndStatement
  <2>1. ast' = ast /\ Laid' = Laid \cup {vals[1]}
        /\ \A q \in DOMAIN node : <<q, vals[1]>> \notin ast
    BY <1>1, <1>10, StatementLaid DEF EndStatement, graph
  <2> QED
    BY <1>1, <2>1 DEF RootsFree
<1>11. CASE EmitNoop
  <2>1. ast' = ast /\ Laid' = Laid \cup {New}
    BY <1>1, <1>11, NoopLaid DEF EmitNoop
  <2> QED
    BY <1>3, <2>1
<1>12. CASE EndBlock
  <2>1. ast' = ast /\ Laid' = Laid
    BY <1>1, <1>12, BlockLaid DEF EndBlock, graph
  <2> QED
    BY <1>2, <2>1
<1> QED
  BY <1>5, <1>6, <1>7, <1>8, <1>9, <1>10, <1>11, <1>12 DEF Next

LEMMA RootsStayFree == Spec => [](MeaningInvariant /\ RootsFree)
<1>1. Init => MeaningInvariant /\ RootsFree
  BY InitMeaning DEF Init, RootsFree
<1>2. MeaningInvariant /\ RootsFree /\ [Next]_vars => (MeaningInvariant /\ RootsFree)'
  BY MeaningStep, RootsStep DEF MeaningInvariant
<1> QED
  BY <1>1, <1>2, PTL DEF Spec

LEMMA MeaningsAreRight ==
  MeaningInvariant /\ RootsFree => StatementsDenoteInstructions
<1> SUFFICES ASSUME MeaningInvariant, RootsFree, Done, HasBody
             PROVE  StatementsDenoteInstructions
  BY DEF StatementsDenoteInstructions
<1>1. PICK g, st : Meant(g, st)
  BY DEF MeaningInvariant
<1>2. /\ Meaning = g /\ Laid = StatementNodes
      /\ \A k \in Expressions : HasParts(g, k) /\ (k \in StatementNodes \/ IsArgument(k))
  BY <1>1, MeaningIsMeant
<1>3. \A k \in Expressions : node[k].name = g[k][1] /\ node[k].of = g[k][2]
  BY <1>1 DEF Meant
<1>4. \A k \in Expressions :
        /\ Cardinality(Arguments(k)) = Len(Parts(g[k]))
        /\ \A c \in Arguments(k) : g[c] = Part(g[k], order[c])
  BY <1>2 DEF HasParts, Part
<1>5. \A k \in Expressions : k \in StatementNodes <=> ~ \E p \in Expressions : k \in Arguments(p)
  BY <1>2 DEF IsArgument, Arguments, RootsFree
<1>6. /\ Numbered(StatementNodes) /\ Cardinality(StatementNodes) = EndOf(NBlocks)
      /\ \A k \in Expressions : Numbered(Arguments(k))
  <2>1. FlowIsLLVMFlow
    BY InvariantFlow DEF MeaningInvariant
  <2> QED
    BY <2>1 DEF FlowIsLLVMFlow, Expressions
<1> QED
  BY <1>2, <1>3, <1>4, <1>5, <1>6 DEF StatementsDenoteInstructions

(* The statements of every method say what the instructions of its LLVM    *)
(* function say, whatever the function and the compiler's order of the     *)
(* arguments of emitAssignCall.                                            *)
THEOREM StatementsAreRight == Spec => []StatementsDenoteInstructions
BY RootsStayFree, MeaningsAreRight, PTL

----------------------------------------------------------------------------
(***************************************************************************)
(* The expressions of a finished method, as trees under the statements.    *)
(***************************************************************************)
Rooted ==
  /\ ast \subseteq Expressions \X Expressions /\ StatementNodes \subseteq Expressions
  /\ \A k \in Expressions : k \in StatementNodes <=> ~ IsArgument(k)
  /\ \A p, q, k : <<p, k>> \in ast /\ <<q, k>> \in ast => p = q
  /\ \A S \in SUBSET Expressions : S # {} => \E k \in S : \A p \in S : <<p, k>> \notin ast

LEMMA ParentIs ==
  ASSUME Rooted
  PROVE  /\ \A p, k : k \in Arguments(p) <=> <<p, k>> \in ast
         /\ \A k \in Expressions : k \notin StatementNodes =>
              ParentOf(k) \in Expressions /\ k \in Arguments(ParentOf(k))
         /\ \A p, k : k \in Arguments(p) =>
              /\ k \in Expressions /\ k \notin StatementNodes /\ p \in Expressions
              /\ p = ParentOf(k)
<1>1. \A p, k : k \in Arguments(p) <=> <<p, k>> \in ast
  BY DEF Rooted, Arguments, Expressions
<1>2. \A k \in Expressions : k \notin StatementNodes =>
        ParentOf(k) \in Expressions /\ k \in Arguments(ParentOf(k))
  BY DEF Rooted, IsArgument, ParentOf
<1>3. \A p, k : k \in Arguments(p) =>
        k \in Expressions /\ k \notin StatementNodes /\ p \in Expressions
  <2>1. \A p, k : k \in Arguments(p) => p \in Expressions /\ k \in Expressions
    <3>1. ast \subseteq Expressions \X Expressions
      BY DEF Rooted
    <3>2. \A e \in Expressions \X Expressions : e[1] \in Expressions /\ e[2] \in Expressions
      OBVIOUS
    <3>3. \A p, k : <<p, k>>[1] = p /\ <<p, k>>[2] = k
      OBVIOUS
    <3>4. \A p, k : <<p, k>> \in ast => <<p, k>> \in Expressions \X Expressions
      BY <3>1
    <3> QED
      BY <1>1, <3>2, <3>3, <3>4, Zenon
  <2>2. \A k \in Expressions : k \in StatementNodes <=> ~ IsArgument(k)
    BY DEF Rooted
  <2> QED
    BY <2>1, <2>2 DEF IsArgument
<1>4. \A p, q, k : k \in Arguments(p) /\ k \in Arguments(q) => p = q
  <2>1. \A p, q, k : <<p, k>> \in ast /\ <<q, k>> \in ast => p = q
    BY DEF Rooted
  <2> QED
    BY <1>1, <2>1
<1> QED
  BY <1>1, <1>2, <1>3, <1>4

(* What holds of the statements, and of a node if it holds of its parent,  *)
(* holds of all nodes.                                                     *)
LEMMA DownTheTrees ==
  ASSUME Rooted, NEW S \in SUBSET Expressions, StatementNodes \subseteq S,
         \A k \in Expressions : k \notin StatementNodes /\ ParentOf(k) \in S => k \in S
  PROVE  S = Expressions
<1> DEFINE T == Expressions \ S
<1>1. \A k \in T : k \notin StatementNodes /\ ParentOf(k) \in T /\ <<ParentOf(k), k>> \in ast
  BY ParentIs
<1>2. T \in SUBSET Expressions
  OBVIOUS
<1>3. T = {}
  <2> HIDE DEF T
  <2> QED
    BY <1>1, <1>2 DEF Rooted
<1> QED
  BY <1>3

(* The nodes above k are those in every set with k and all parents.        *)
UpSets(k) ==
  {S \in SUBSET Expressions :
     k \in S /\ \A x \in S : x \notin StatementNodes => ParentOf(x) \in S}

LEMMA AboveIs ==
  ASSUME Rooted
  PROVE  /\ \A k \in Expressions :
              Above[k] = IF k \in StatementNodes THEN {k} ELSE {k} \cup Above[ParentOf(k)]
<1> DEFINE Right(f) == f = [k \in Expressions |->
                              IF k \in StatementNodes THEN {k} ELSE {k} \cup f[ParentOf(k)]]
           F == [k \in Expressions |-> {x \in Expressions : \A S \in UpSets(k) : x \in S}]
<1>1. ASSUME NEW k \in Expressions, k \in StatementNodes PROVE F[k] = {k}
  <2>1. {k} \in UpSets(k)
    BY <1>1 DEF UpSets
  <2> QED
    BY <2>1 DEF UpSets
<1>2. ASSUME NEW k \in Expressions, k \notin StatementNodes PROVE F[k] = {k} \cup F[ParentOf(k)]
  <2> DEFINE p == ParentOf(k)
  <2>1. p \in Expressions
    BY <1>2, ParentIs
  <2>2. UpSets(k) \subseteq UpSets(p)
    BY <1>2, <2>1 DEF UpSets
  <2>3. \A S \in UpSets(p) : S \cup {k} \in UpSets(k)
    BY <1>2, <2>1 DEF UpSets
  <2>4. \A S \in UpSets(k) : k \in S
    BY DEF UpSets
  <2>5. ASSUME NEW x \in F[p] PROVE x \in F[k]
    BY <2>1, <2>2
  <2>6. ASSUME NEW x \in F[k], x # k PROVE x \in F[p]
    <3> SUFFICES ASSUME NEW S \in UpSets(p) PROVE x \in S
      BY <2>1
    <3> QED
      BY <2>3, <2>6
  <2>7. k \in F[k]
    BY <2>4
  <2> HIDE DEF F, p
  <2>8. F[k] = {k} \cup F[p]
    BY <2>5, <2>6, <2>7
  <2> QED
    BY <2>8 DEF p
<1>3. Right(F)
  <2>1. DOMAIN F = Expressions /\ F = [k \in Expressions |-> F[k]]
    OBVIOUS
  <2> HIDE DEF F
  <2> QED
    BY <1>1, <1>2, <2>1
<1>4. Above = CHOOSE f : Right(f)
  BY DEF Above
<1>5. Right(Above)
  <2> HIDE DEF Right, F
  <2> QED
    BY <1>3, <1>4
<1> QED
  BY <1>5

(* Every node has one statement above it, the same as its parent.          *)
LEMMA RootIs ==
  ASSUME Rooted
  PROVE  /\ \A k \in Expressions : k \in Above[k] /\ Above[k] \subseteq Expressions
         /\ \A k \in Expressions : RootOf(k) \in StatementNodes
         /\ \A k \in StatementNodes : RootOf(k) = k /\ Above[k] = {k}
         /\ \A k \in Expressions : k \notin StatementNodes =>
              RootOf(k) = RootOf(ParentOf(k)) /\ Above[k] = {k} \cup Above[ParentOf(k)]
<1>1. StatementNodes \subseteq Expressions
  BY DEF Rooted
<1>2. \A k \in StatementNodes : Above[k] = {k}
  BY <1>1, AboveIs
<1>3. \A k \in Expressions : k \notin StatementNodes =>
        ParentOf(k) \in Expressions /\ Above[k] = {k} \cup Above[ParentOf(k)]
  BY AboveIs, ParentIs
<1>4. \A k \in StatementNodes : RootOf(k) = k
  BY <1>2 DEF RootOf
<1>5. \A k \in Expressions : k \notin StatementNodes => RootOf(k) = RootOf(ParentOf(k))
  <2> SUFFICES ASSUME NEW k \in Expressions, k \notin StatementNodes
               PROVE  RootOf(k) = RootOf(ParentOf(k))
    OBVIOUS
  <2>1. \A r : r \in Above[k] /\ r \in StatementNodes
                 <=> r \in Above[ParentOf(k)] /\ r \in StatementNodes
    BY <1>3
  <2>2. \A x : RootOf(x) = CHOOSE r : r \in Above[x] /\ r \in StatementNodes
    BY DEF RootOf
  <2> QED
    BY <2>1, <2>2
<1>6. \A k \in Expressions :
        k \in Above[k] /\ Above[k] \subseteq Expressions /\ RootOf(k) \in StatementNodes
  <2> DEFINE S == {k \in Expressions :
                     /\ k \in Above[k] /\ Above[k] \subseteq Expressions
                     /\ RootOf(k) \in StatementNodes}
  <2>1. StatementNodes \subseteq S
    BY <1>1, <1>2, <1>4
  <2>2. \A k \in Expressions : k \notin StatementNodes /\ ParentOf(k) \in S => k \in S
    BY <1>3, <1>5
  <2>3. S \in SUBSET Expressions
    OBVIOUS
  <2>4. S = Expressions
    <3> HIDE DEF S
    <3> QED
      BY <2>1, <2>2, <2>3, DownTheTrees
  <2> QED
    BY <2>4
<1> QED
  BY <1>2, <1>3, <1>4, <1>5, <1>6

----------------------------------------------------------------------------
(***************************************************************************)
(* What an instruction says is found in its own statement, or the          *)
(* instruction is inlined and the statement is a use of it.                *)
(***************************************************************************)
UsesOf(v) == Trees!Uses(Inlinable(fn), fn.inlined, v)

LEMMA UsesGoUp ==
  ASSUME WellFormed(fn), MarksAreClean, NEW i \in 1 .. fn.n, fn.kind[i] # "dbg",
         NEW v \in fn.inlined, v \in Elements(fn.args[i])
  PROVE  v \in 1 .. fn.n /\ v < i /\ i \in UsesOf(v)
         /\ (i \in fn.inlined => UsesOf(i) \subseteq UsesOf(v))
<1> DEFINE f == Inlinable(fn)
           m == fn.inlined
<1>1. fn.n \in Nat /\ v \in 1 .. fn.n
  BY DEF WellFormed
<1>2. /\ f.n = fn.n /\ f.kind[i] = InlineKind(fn.kind[i])
      /\ f.args[i] = {x \in Elements(fn.args[i]) : x > 0}
  BY DEF Inlinable
<1>3. f.kind[i] # "dbg"
  BY <1>2 DEF InlineKind
<1>4. v \in f.args[i]
  BY <1>1, <1>2
<1>5. Trees!Insts(f) = 1 .. fn.n
  BY <1>2 DEF Trees!Insts
<1>6. v < i
  <2>1. \A x \in Trees!Insts(f) : \A j \in f.args[x] : j < x
    BY DEF MarksAreClean, Trees!WellFormed
  <2> QED
    BY <1>4, <1>5, <2>1
<1> HIDE DEF f, m
<1>7. i \in Trees!Users(f, v)
  BY <1>3, <1>4, <1>5 DEF Trees!Users
<1>8. /\ v \in Trees!Up(f, m, v)
      /\ \A k \in Trees!Up(f, m, v) : Trees!Users(f, k) \cap m \subseteq Trees!Up(f, m, v)
      /\ Trees!Up(f, m, v) \subseteq Trees!Insts(f)
  <2>1. v \in Trees!Up(f, m, v)
    BY <1>1, <1>5 DEF Trees!Up
  <2>2. Trees!Up(f, m, v) \subseteq Trees!Insts(f)
    BY DEF Trees!Up
  <2>3. ASSUME NEW k \in Trees!Up(f, m, v), NEW u \in Trees!Users(f, k), u \in m
        PROVE  u \in Trees!Up(f, m, v)
    <3>1. u \in Trees!Insts(f)
      BY DEF Trees!Users
    <3> QED
      BY <2>3, <3>1 DEF Trees!Up, Trees!ClosedUp
  <2> QED
    BY <2>1, <2>2, <2>3
<1>9. i \in Trees!Uses(f, m, v)
  BY <1>7, <1>8 DEF Trees!Uses
<1>10. ASSUME i \in m PROVE Trees!Uses(f, m, i) \subseteq Trees!Uses(f, m, v)
  <2>1. i \in Trees!Up(f, m, v)
    BY <1>7, <1>8, <1>10
  <2> DEFINE U == Trees!Up(f, m, v)
  <2>2. U \in SUBSET Trees!Insts(f) /\ i \in U /\ Trees!ClosedUp(f, m, U)
    BY <1>8, <2>1 DEF Trees!ClosedUp
  <2> HIDE DEF U
  <2>3. Trees!Up(f, m, i) \subseteq U
    BY <2>2 DEF Trees!Up
  <2> QED
    BY <2>3 DEF Trees!Uses, U
<1> QED
  BY <1>1, <1>6, <1>9, <1>10 DEF UsesOf, f, m

(* The meanings that are of an instruction, and what they say of it.       *)
Instructive ==
  {"assignment", "indirection", "cast", "pointerShift", "access", "call", "return", "op",
   "unreachable"}

SaidOf(name, i, k) ==
  /\ i \in 1 .. fn.n /\ fn.kind[i] # "dbg"
  /\ name = "assignment" => fn.kind[i] \in HaveValue \cup {"store"}
  /\ name = "indirection" => fn.kind[i] \in {"load", "store"}
  /\ name = "cast" => fn.kind[i] = "cast"
  /\ name = "pointerShift" => fn.kind[i] = "gep"
  /\ name = "access" => \/ fn.kind[i] = "gep" /\ k \in 3 .. Len(fn.args[i])
                        \/ fn.kind[i] = "extract" /\ k \in 2 .. Len(fn.args[i])

UsedAt(i, u) == i = u \/ (i \in fn.inlined /\ u \in UsesOf(i) /\ i < u)

Carries(m, u) == m[1] \in Instructive => SaidOf(m[1], m[2], m[3]) /\ UsedAt(m[2], u)

LEMMA ComputedCarried ==
  ASSUME WellFormed(fn), NEW i \in 1 .. fn.n, fn.kind[i] \notin {"dbg", "extract"},
         NEW u, UsedAt(i, u)
  PROVE  Carries(Computed(i), u)
<1>1. Len(fn.args[i]) \in Nat /\ Len(fn.args[i]) >= Arity(fn.kind[i])
  BY OperandsOf
<1>2. \A n, k : /\ <<n, i, k>>[1] = n /\ <<n, i, k>>[2] = i /\ <<n, i, k>>[3] = k
  OBVIOUS
<1>3. CASE fn.kind[i] = "gep"
  <2>1. Len(fn.args[i]) >= 2 /\ Computed(i) = Access(i, Len(fn.args[i]))
    BY <1>1, <1>3 DEF Arity, Computed
  <2>2. CASE Len(fn.args[i]) = 2
    <3>1. Computed(i) = <<"pointerShift", i, 0>>
      BY <1>3, <2>1, <2>2 DEF Access
    <3> QED
      BY <1>2, <1>3, <3>1 DEF Carries, SaidOf
  <2>3. CASE Len(fn.args[i]) # 2
    <3>1. Computed(i) = <<"access", i, Len(fn.args[i])>>
      BY <1>3, <2>1, <2>3 DEF Access
    <3>2. Len(fn.args[i]) \in 3 .. Len(fn.args[i])
      <4>1. PICK l : l = Len(fn.args[i])
        OBVIOUS
      <4>2. l \in Nat /\ l >= 2 /\ l # 2
        BY <1>1, <2>1, <2>3, <4>1
      <4>3. l \in 3 .. l
        BY <4>2
      <4> QED
        BY <4>1, <4>3
    <3> QED
      BY <1>2, <1>3, <3>1, <3>2 DEF Carries, SaidOf
  <2> QED
    BY <2>2, <2>3
<1>4. CASE fn.kind[i] # "gep"
  <2>1. PICK n : Computed(i) = <<n, i, 0>> /\ n \in Instructive
                 /\ n # "assignment" /\ n # "pointerShift" /\ n # "access"
                 /\ (n = "indirection" => fn.kind[i] = "load") /\ (n = "cast" => fn.kind[i] = "cast")
    BY <1>4 DEF Computed, Instructive
  <2> QED
    BY <1>2, <2>1 DEF Carries, SaidOf
<1> QED
  BY <1>3, <1>4

LEMMA OperandCarried ==
  ASSUME WellFormed(fn), MarksAreClean, NEW i \in 1 .. fn.n, fn.kind[i] # "dbg",
         NEW u, UsedAt(i, u), NEW j \in 1 .. Len(fn.args[i])
  PROVE  Carries(Operand(fn.args[i][j]), u)
<1> DEFINE v == fn.args[i][j]
<1>1. CASE v \in fn.inlined
  <2>1. v \in 1 .. fn.n /\ fn.kind[v] \in {"gep", "cast", "load"}
    BY <1>1 DEF WellFormed
  <2>2. v \in Elements(fn.args[i])
    <3>1. fn.args[i] \in Seq(Operands \cup {Field})
      BY OperandsOf
    <3> QED
      BY <3>1 DEF Elements
  <2>3. v < i /\ i \in UsesOf(v) /\ (i \in fn.inlined => UsesOf(i) \subseteq UsesOf(v))
    BY <1>1, <2>2, UsesGoUp
  <2>4. UsedAt(v, u)
    <3>1. CASE i = u
      BY <1>1, <2>3, <3>1 DEF UsedAt
    <3>2. CASE i # u
      <4>1. i \in fn.inlined /\ u \in UsesOf(i) /\ i < u
        BY <3>2 DEF UsedAt
      <4>2. u \in 1 .. fn.n
        <5>1. UsesOf(i) \subseteq Trees!Insts(Inlinable(fn))
          BY DEF UsesOf, Trees!Uses, Trees!Users
        <5>2. Trees!Insts(Inlinable(fn)) = 1 .. fn.n
          BY DEF Inlinable, Trees!Insts
        <5> QED
          BY <4>1, <5>1, <5>2
      <4>3. fn.n \in Nat
        BY DEF WellFormed
      <4>4. v < u
        BY <2>1, <2>3, <4>1, <4>2, <4>3
      <4> QED
        BY <1>1, <2>3, <4>1, <4>4 DEF UsedAt
    <3> QED
      BY <3>1, <3>2
  <2>5. Carries(Computed(v), u)
    BY <2>1, <2>4, ComputedCarried
  <2> QED
    BY <1>1, <2>5 DEF Operand
<1>2. CASE v \notin fn.inlined
  <2>1. Operand(v)[1] \in {"addressOf", "field", "leaf"}
    BY <1>2 DEF Operand
  <2> HIDE DEF v
  <2> QED
    BY <2>1 DEF Carries, Instructive, v
<1> QED
  BY <1>1, <1>2

LEMMA PathCarried ==
  ASSUME WellFormed(fn), MarksAreClean, NEW i \in 1 .. fn.n,
         NEW u, UsedAt(i, u), NEW k \in 1 .. Len(fn.args[i]),
         fn.kind[i] = "extract" \/ (fn.kind[i] = "gep" /\ k >= 2)
  PROVE  Carries(Path(i, k), u)
<1>1. Len(fn.args[i]) \in Nat
  BY OperandsOf
<1>2. CASE fn.kind[i] = "extract" /\ k = 1
  <2>1. Path(i, k) = Operand(fn.args[i][1])
    BY <1>2 DEF Path
  <2> QED
    BY <1>2, <2>1, OperandCarried
<1>3. CASE fn.kind[i] = "extract" /\ k # 1
  <2>1. Path(i, k) = <<"access", i, k>> /\ k \in 2 .. Len(fn.args[i])
    BY <1>1, <1>3 DEF Path, Access
  <2> QED
    BY <1>3, <2>1 DEF Carries, SaidOf
<1>4. CASE fn.kind[i] = "gep" /\ k = 2
  <2>1. Path(i, k) = <<"pointerShift", i, 0>>
    BY <1>4 DEF Path, Access
  <2> QED
    BY <1>4, <2>1 DEF Carries, SaidOf
<1>5. CASE fn.kind[i] = "gep" /\ k # 2
  <2>1. Path(i, k) = <<"access", i, k>> /\ k \in 3 .. Len(fn.args[i])
    BY <1>1, <1>5 DEF Path, Access
  <2> QED
    BY <1>5, <2>1 DEF Carries, SaidOf
<1> QED
  BY <1>2, <1>3, <1>4, <1>5

LEMMA ResultCarried ==
  ASSUME WellFormed(fn), MarksAreClean, NEW i \in 1 .. fn.n, fn.kind[i] # "dbg",
         NEW u, UsedAt(i, u)
  PROVE  Carries(Result(i), u)
<1>1. Len(fn.args[i]) \in Nat /\ Len(fn.args[i]) >= Arity(fn.kind[i])
  BY OperandsOf
<1>2. CASE fn.kind[i] = "extract"
  <2>1. Len(fn.args[i]) \in 1 .. Len(fn.args[i])
    BY <1>1, <1>2 DEF Arity
  <2>2. Carries(Path(i, Len(fn.args[i])), u)
    BY <1>2, <2>1, PathCarried
  <2> QED
    BY <1>2, <2>2 DEF Result
<1>3. CASE fn.kind[i] # "extract"
  <2>1. Carries(Computed(i), u)
    BY <1>3, ComputedCarried
  <2> QED
    BY <1>3, <2>1 DEF Result
<1> QED
  BY <1>2, <1>3

(* A part is of the same instruction or of an inlined one that it uses.    *)
LEMMA PartCarried ==
  ASSUME WellFormed(fn), MarksAreClean, NEW m \in Meanings, NEW u, Carries(m, u),
         NEW j \in 1 .. Len(Parts(m))
  PROVE  Carries(Parts(m)[j], u)
<1> DEFINE i == m[2]
           k == m[3]
           P == Parts(m)
<1>1. m = <<m[1], i, k>> /\ m[1] \in Sayings
  BY DEF Meanings
<1>2. \A n \in {"type", "leaf", "field", "noop"} : \A x, y : Carries(<<n, x, y>>, u)
  BY DEF Carries, Instructive
<1>5. \A n : m[1] = n => P = Parts(<<n, i, k>>)
  BY <1>1
<1>6. j \in 1 .. Len(P)
  OBVIOUS
<1> SUFFICES Carries(P[j], u)
  OBVIOUS
<1> HIDE DEF i, k, P
<1>3. CASE m[1] \notin Instructive
  <2>1. CASE m[1] = "addressOf"
    <3>1. P = <<<<"leaf", i, 0>>>>
      BY <1>5, <2>1, PartsOf, Zenon
    <3>2. P[j] = <<"leaf", i, 0>>
      BY <1>6, <3>1
    <3> QED
      BY <1>2, <3>2
  <2>2. CASE m[1] # "addressOf"
    <3>1. m[1] \in {"type", "leaf", "field", "noop"}
      BY <1>1, <1>3, <2>2 DEF Sayings, Names, Instructive
    <3>2. P = <<>>
      <4>1. \A name \in {"type", "leaf", "field", "unreachable", "noop"} :
              Parts(<<name, i, k>>) = <<>>
        BY PartsOf, Zenon
      <4> QED
        BY <1>5, <3>1, <4>1
    <3> QED
      BY <1>6, <3>2
  <2> QED
    BY <2>1, <2>2
<1>4. CASE m[1] \in Instructive
  <2>1. /\ i \in 1 .. fn.n /\ fn.kind[i] # "dbg" /\ UsedAt(i, u)
        /\ m[1] = "assignment" => fn.kind[i] \in HaveValue \cup {"store"}
        /\ m[1] = "indirection" => fn.kind[i] \in {"load", "store"}
        /\ m[1] = "cast" => fn.kind[i] = "cast"
        /\ m[1] = "pointerShift" => fn.kind[i] = "gep"
        /\ m[1] = "access" => \/ fn.kind[i] = "gep" /\ k \in 3 .. Len(fn.args[i])
                              \/ fn.kind[i] = "extract" /\ k \in 2 .. Len(fn.args[i])
    BY <1>4 DEF Carries, SaidOf, i, k
  <2>2. /\ Len(fn.args[i]) \in Nat /\ Len(fn.args[i]) >= Arity(fn.kind[i])
        /\ \A x \in 1 .. Len(fn.args[i]) : Carries(Operand(fn.args[i][x]), u)
    BY <2>1, OperandsOf, OperandCarried
  <2>3. ASSUME P = AllOperands(i) PROVE Carries(P[j], u)
    <3>1. Len(P) = Len(fn.args[i]) /\ P[j] = Operand(fn.args[i][j])
      BY <1>6, <2>2, <2>3 DEF AllOperands
    <3> QED
      BY <1>6, <2>2, <3>1
  <2>4. CASE m[1] = "assignment"
    <3>1. CASE fn.kind[i] = "store"
      <4>1. P = <<<<"indirection", i, 0>>, Operand(fn.args[i][1])>>
        BY <1>5, <2>4, <3>1, PartsOf, Zenon
      <4>2. Carries(<<"indirection", i, 0>>, u)
        BY <2>1, <3>1 DEF Carries, SaidOf
      <4>3. Carries(Operand(fn.args[i][1]), u)
        BY <2>2, <3>1 DEF Arity
      <4>4. (j = 1 /\ P[1] = <<"indirection", i, 0>>) \/ (j = 2 /\ P[2] = Operand(fn.args[i][1]))
        BY <1>6, <4>1
      <4> QED
        BY <4>2, <4>3, <4>4
    <3>2. CASE fn.kind[i] # "store"
      <4>1. P = <<<<"leaf", i, 0>>, Result(i)>>
        BY <1>5, <2>4, <3>2, PartsOf, Zenon
      <4>2. Carries(Result(i), u)
        BY <2>1, ResultCarried
      <4>3. (j = 1 /\ P[1] = <<"leaf", i, 0>>) \/ (j = 2 /\ P[2] = Result(i))
        BY <1>6, <4>1
      <4> QED
        BY <1>2, <4>2, <4>3
    <3> QED
      BY <3>1, <3>2
  <2>5. CASE m[1] = "indirection"
    <3>1. CASE fn.kind[i] = "store"
      <4>1. P = <<Operand(fn.args[i][2])>>
        BY <1>5, <2>5, <3>1, PartsOf, Zenon
      <4>2. P[j] = Operand(fn.args[i][2])
        BY <1>6, <4>1
      <4> QED
        BY <2>2, <3>1, <4>2 DEF Arity
    <3>2. CASE fn.kind[i] # "store"
      <4>1. P = <<Operand(fn.args[i][1])>>
        BY <1>5, <2>5, <3>2, PartsOf, Zenon
      <4>2. P[j] = Operand(fn.args[i][1])
        BY <1>6, <4>1
      <4> QED
        BY <2>1, <2>2, <2>5, <3>2, <4>2 DEF Arity
    <3> QED
      BY <3>1, <3>2
  <2>6. CASE m[1] = "cast"
    <3>1. P = <<<<"type", i, 0>>, Operand(fn.args[i][1])>>
      BY <1>5, <2>6, PartsOf, Zenon
    <3>2. (j = 1 /\ P[1] = <<"type", i, 0>>) \/ (j = 2 /\ P[2] = Operand(fn.args[i][1]))
      BY <1>6, <3>1
    <3>3. Carries(Operand(fn.args[i][1]), u)
      BY <2>1, <2>2, <2>6 DEF Arity
    <3> QED
      BY <1>2, <3>2, <3>3
  <2>7. CASE m[1] = "pointerShift"
    <3>1. P = <<Operand(fn.args[i][1]), Operand(fn.args[i][2])>>
      BY <1>5, <2>7, PartsOf, Zenon
    <3>2. j \in 1 .. 2 /\ P[j] = Operand(fn.args[i][j])
      BY <1>6, <3>1
    <3>3. j \in 1 .. Len(fn.args[i])
      BY <2>1, <2>2, <2>7, <3>2 DEF Arity
    <3> QED
      BY <2>2, <3>2, <3>3
  <2>8. CASE m[1] = "access"
    <3>1. P = <<Path(i, k - 1), Operand(fn.args[i][k])>>
      BY <1>5, <2>8, PartsOf, Zenon
    <3>2. (j = 1 /\ P[1] = Path(i, k - 1)) \/ (j = 2 /\ P[2] = Operand(fn.args[i][k]))
      BY <1>6, <3>1
    <3>3. /\ k \in 1 .. Len(fn.args[i]) /\ k - 1 \in 1 .. Len(fn.args[i])
          /\ fn.kind[i] = "extract" \/ (fn.kind[i] = "gep" /\ k - 1 >= 2)
      BY <2>1, <2>2, <2>8
    <3>4. Carries(Path(i, k - 1), u)
      BY <2>1, <3>3, PathCarried
    <3> QED
      BY <2>2, <3>2, <3>3, <3>4
  <2>9. CASE m[1] \in {"call", "return"}
    <3>1. P = AllOperands(i)
      BY <1>5, <2>9, PartsOf, Zenon
    <3> QED
      BY <1>6, <2>3, <3>1
  <2>10. CASE m[1] = "op"
    <3>1. P = IF fn.kind[i] = "op" THEN AllOperands(i) ELSE <<>>
      <4>1. Parts(<<"op", i, k>>) = IF fn.kind[i] = "op" THEN AllOperands(i) ELSE <<>>
        BY PartsOf
      <4> QED
        BY <1>5, <2>10, <4>1
    <3> QED
      BY <1>6, <2>3, <3>1
  <2>11. CASE m[1] = "unreachable"
    <3>1. P = <<>>
      <4>1. Parts(<<"unreachable", i, k>>) = <<>>
        BY PartsOf
      <4> QED
        BY <1>5, <2>11, <4>1
    <3> QED
      BY <1>6, <3>1
  <2> QED
    BY <1>4, <2>4, <2>5, <2>6, <2>7, <2>8, <2>9, <2>10, <2>11 DEF Instructive
<1> QED
  BY <1>3, <1>4

LEMMA SaysCarried ==
  ASSUME WellFormed(fn), NEW u \in 1 .. fn.n, HasStatement(u)
  PROVE  Carries(Says(u), u)
<1>1. fn.kind[u] \notin NoNode
  BY DEF HasStatement
<1>2. CASE fn.kind[u] \in HaveValue \cup {"store"}
  <2>1. Says(u) = <<"assignment", u, 0>>
    BY <1>2 DEF Says
  <2> QED
    BY <1>1, <1>2, <2>1 DEF Carries, SaidOf, UsedAt, NoNode
<1>3. CASE fn.kind[u] \notin HaveValue \cup {"store"}
  <2>1. Says(u) = Computed(u) /\ fn.kind[u] \notin {"dbg", "extract"}
    BY <1>1, <1>3 DEF Says, HaveValue, NoNode
  <2> QED
    BY <2>1, ComputedCarried DEF UsedAt
<1> QED
  BY <1>2, <1>3

----------------------------------------------------------------------------
(* What the finished method says, as far as its order of evaluation needs  *)
(* it.                                                                     *)
Understood ==
  /\ WellFormed(fn) /\ Rooted
  /\ \A k \in Expressions :
       /\ node[k].name = Meaning[k][1] /\ node[k].of = Meaning[k][2]
       /\ Meaning[k] \in Meanings
       /\ \A c \in Arguments(k) :
            /\ order[c] \in 1 .. Len(Parts(Meaning[k]))
            /\ Meaning[c] = Parts(Meaning[k])[order[c]]
  /\ \A k \in StatementNodes : order[k] \in Nat /\ Meaning[k] = StatementSays(order[k])
  /\ \A i \in 1 .. fn.n : HasStatement(i) =>
       \E k \in StatementNodes : order[k] = StatementNumber(i)

LEMMA IsUnderstood ==
  ASSUME MeaningInvariant, RootsFree, Done, HasBody
  PROVE  Understood
<1>1. PICK g, st : Meant(g, st)
  BY DEF MeaningInvariant
<1>2. EmitterInvariant /\ Typed /\ Graph
  BY DEF MeaningInvariant, FlowInvariant, EmitterInvariant
<1>3. /\ Meaning = g /\ Laid = StatementNodes
      /\ \A k \in Expressions : HasParts(g, k) /\ (k \in StatementNodes \/ IsArgument(k))
  BY <1>1, MeaningIsMeant
<1>4. /\ WellFormed(fn) /\ fn.n \in Nat /\ NBlocks \in Nat /\ BP!Nodes = DOMAIN node
      /\ order \in [DOMAIN node -> Nat]
  BY <1>2, NodeDomain DEF Typed
<1>5. Expressions \subseteq DOMAIN node
  BY DEF Expressions
<1>6. /\ g \in [Expressions -> Meanings] /\ ast \subseteq Expressions \X Expressions
      /\ StatementNodes \subseteq Expressions
      /\ \A k \in Expressions : node[k].name = g[k][1] /\ node[k].of = g[k][2]
      /\ \A k \in StatementNodes : g[k] = StatementSays(order[k])
  BY <1>1, <1>3 DEF Meant
<1>7. Rooted
  <2>1. \A k \in Expressions : k \in StatementNodes <=> ~ IsArgument(k)
    BY <1>3 DEF IsArgument, Arguments, RootsFree
  <2>2. \A p, q, k : <<p, k>> \in ast /\ <<q, k>> \in ast => p = q
    <3>1. \A k \in DOMAIN node : \A p, q \in DOMAIN node : <<p, k>> \in ast /\ <<q, k>> \in ast => p = q
      BY <1>2, <1>4 DEF Graph, BP!BuilderInvariant, BP!OneParent
    <3>2. ast \subseteq (DOMAIN node) \X (DOMAIN node)
      BY <1>2, AstIds
    <3>3. \A p, k : <<p, k>> \in ast => p \in DOMAIN node /\ k \in DOMAIN node
      BY <3>2
    <3> QED
      BY <3>1, <3>3
  <2>3. \A S \in SUBSET Expressions : S # {} => \E k \in S : \A p \in S : <<p, k>> \notin ast
    <3>1. BP!NoCycle
      BY <1>2 DEF Graph, BP!BuilderInvariant
    <3> QED
      BY <1>4, <1>5, <3>1 DEF BP!NoCycle
  <2> QED
    BY <1>6, <2>1, <2>2, <2>3 DEF Rooted
<1>8. \A i \in 1 .. fn.n : HasStatement(i) =>
         \E k \in StatementNodes : order[k] = StatementNumber(i)
  <2> SUFFICES ASSUME NEW i \in 1 .. fn.n, HasStatement(i)
               PROVE  \E k \in StatementNodes : order[k] = StatementNumber(i)
    OBVIOUS
  <2> DEFINE b == fn.block[i]
  <2>1. /\ b \in Nat /\ b > 0 /\ EndOf(b - 1) \in Nat /\ EndOf(b) \in Nat
        /\ IsFiniteSet(Rank(i)) /\ Cardinality(Rank(i)) \in Nat
        /\ StatementNumber(i) = EndOf(b - 1) + Cardinality(Rank(i))
        /\ EndOf(b - 1) < StatementNumber(i) /\ StatementNumber(i) <= EndOf(b)
    BY <1>4, NumberOf
  <2>2. b <= NBlocks
    BY <1>4 DEF WellFormed, NBlocks
  <2>3. EndOf(b) <= EndOf(NBlocks) /\ EndOf(NBlocks) \in Nat
    BY <1>4, <2>1, <2>2, EndsInOrder, Counting
  <2>4. StatementNumber(i) \in 1 .. EndOf(NBlocks)
    BY <2>1, <2>3
  <2>5. {order[k] : k \in StatementNodes} = 1 .. EndOf(NBlocks)
    <3>1. FlowIsLLVMFlow
      BY InvariantFlow DEF MeaningInvariant
    <3> QED
      BY <3>1 DEF FlowIsLLVMFlow, Numbered
  <2> HIDE DEF b
  <2> QED
    BY <2>4, <2>5
<1>9. \A k \in Expressions : \A c \in Arguments(k) :
         order[c] \in 1 .. Len(Parts(g[k])) /\ g[c] = Parts(g[k])[order[c]]
  BY <1>3 DEF HasParts
<1>10. \A k \in StatementNodes : order[k] \in Nat
  BY <1>4, <1>5, <1>6
<1>11. \A k \in Expressions : g[k] \in Meanings
  BY <1>6
<1> QED
  BY <1>3, <1>4, <1>6, <1>7, <1>8, <1>9, <1>10, <1>11 DEF Understood

(* What may write is a part of nothing but the assignment of its value.    *)
LEMMA WritesArePartsOf ==
  ASSUME WellFormed(fn), NEW m \in Meanings, NEW j \in 1 .. Len(Parts(m)),
         NEW u, Carries(m, u), Parts(m)[j][1] \in {"assignment", "call", "op"}
  PROVE  /\ Parts(m)[j][1] # "assignment"
         /\ m[1] = "assignment" /\ j = 2 /\ Len(Parts(m)) = 2
<1> DEFINE i == m[2]
           k == m[3]
           P == Parts(m)
<1>1. m = <<m[1], i, k>> /\ m[1] \in Sayings
  BY DEF Meanings
<1>2. \A n : m[1] = n => P = Parts(<<n, i, k>>)
  BY <1>1
<1>3. \A v : Operand(v)[1] \notin {"assignment", "call", "op"}
  <2> SUFFICES ASSUME NEW v PROVE Operand(v)[1] \notin {"assignment", "call", "op"}
    OBVIOUS
  <2>1. CASE v \in fn.inlined
    <3>1. fn.kind[v] \in {"gep", "cast", "load"}
      BY <2>1 DEF WellFormed
    <3>2. Computed(v)[1] \in {"indirection", "cast", "pointerShift", "access"}
      BY <3>1 DEF Computed, Access
    <3> QED
      BY <2>1, <3>2 DEF Operand
  <2>2. CASE v \notin fn.inlined
    BY <2>2 DEF Operand
  <2> QED
    BY <2>1, <2>2
<1>4. \A y : Path(i, y)[1] \notin {"assignment", "call", "op"}
  BY <1>3 DEF Path, Access
<1>5. Result(i)[1] # "assignment"
  BY <1>4 DEF Result, Computed, Access
<1>6. j \in 1 .. Len(P) /\ P[j][1] \in {"assignment", "call", "op"}
  OBVIOUS
<1>7. m[1] \in {"call", "return", "op"} => i \in 1 .. fn.n
  BY DEF Carries, SaidOf, Instructive
<1> HIDE DEF i, k, P
<1>8. m[1] = "assignment" /\ fn.kind[i] # "store"
  <2>1. CASE m[1] \in {"call", "return", "op"}
    <3>1. P = AllOperands(i) \/ P = <<>>
      <4>1. /\ Parts(<<"call", i, k>>) = AllOperands(i) /\ Parts(<<"return", i, k>>) = AllOperands(i)
            /\ Parts(<<"op", i, k>>) = IF fn.kind[i] = "op" THEN AllOperands(i) ELSE <<>>
        BY PartsOf
      <4> QED
        BY <1>2, <2>1, <4>1
    <3>2. P = AllOperands(i)
      BY <1>6, <3>1
    <3>3. P[j] = Operand(fn.args[i][j])
      <4>1. Len(fn.args[i]) \in Nat
        BY <1>7, <2>1, OperandsOf
      <4> QED
        BY <1>6, <3>2, <4>1 DEF AllOperands
    <3> QED
      BY <1>3, <1>6, <3>3
  <2>2. CASE m[1] \in {"type", "leaf", "field", "unreachable", "noop"}
    <3>1. \A name \in {"type", "leaf", "field", "unreachable", "noop"} :
            Parts(<<name, i, k>>) = <<>>
      BY PartsOf, Zenon
    <3> QED
      BY <1>2, <1>6, <2>2, <3>1
  <2>3. CASE m[1] \notin {"call", "return", "op", "type", "leaf", "field", "unreachable", "noop"}
    <3>1. CASE m[1] = "assignment" /\ fn.kind[i] = "store"
      <4>1. P = <<<<"indirection", i, 0>>, Operand(fn.args[i][1])>>
        BY <1>2, <3>1, PartsOf, Zenon
      <4>2. (j = 1 /\ P[j] = <<"indirection", i, 0>>) \/ (j = 2 /\ P[j] = Operand(fn.args[i][1]))
        BY <1>6, <4>1
      <4> QED
        BY <1>3, <1>6, <4>2
    <3>2. CASE m[1] = "indirection"
      <4>1. P = IF fn.kind[i] = "store" THEN <<Operand(fn.args[i][2])>>
                ELSE <<Operand(fn.args[i][1])>>
        <5>1. Parts(<<"indirection", i, k>>)
                = IF fn.kind[i] = "store" THEN <<Operand(fn.args[i][2])>>
                  ELSE <<Operand(fn.args[i][1])>>
          BY PartsOf
        <5> QED
          BY <1>2, <3>2, <5>1
      <4>2. P[j] = Operand(fn.args[i][2]) \/ P[j] = Operand(fn.args[i][1])
        BY <1>6, <4>1
      <4> QED
        BY <1>3, <1>6, <4>2
    <3>3. CASE m[1] = "addressOf"
      <4>1. P = <<<<"leaf", i, 0>>>>
        BY <1>2, <3>3, PartsOf, Zenon
      <4>2. P[j] = <<"leaf", i, 0>>
        BY <1>6, <4>1
      <4> QED
        BY <1>6, <4>2
    <3>4. CASE m[1] = "cast"
      <4>1. P = <<<<"type", i, 0>>, Operand(fn.args[i][1])>>
        BY <1>2, <3>4, PartsOf, Zenon
      <4>2. P[j] = <<"type", i, 0>> \/ P[j] = Operand(fn.args[i][1])
        BY <1>6, <4>1
      <4> QED
        BY <1>3, <1>6, <4>2
    <3>5. CASE m[1] = "pointerShift"
      <4>1. P = <<Operand(fn.args[i][1]), Operand(fn.args[i][2])>>
        BY <1>2, <3>5, PartsOf, Zenon
      <4>2. P[j] = Operand(fn.args[i][1]) \/ P[j] = Operand(fn.args[i][2])
        BY <1>6, <4>1
      <4> QED
        BY <1>3, <1>6, <4>2
    <3>6. CASE m[1] = "access"
      <4>1. P = <<Path(i, k - 1), Operand(fn.args[i][k])>>
        <5>1. Parts(<<"access", i, k>>) = <<Path(i, k - 1), Operand(fn.args[i][k])>>
          BY PartsOf
        <5> QED
          BY <1>2, <3>6, <5>1
      <4>2. P[j] = Path(i, k - 1) \/ P[j] = Operand(fn.args[i][k])
        BY <1>6, <4>1
      <4> QED
        BY <1>3, <1>4, <1>6, <4>2
    <3> QED
      BY <1>1, <2>3, <3>1, <3>2, <3>3, <3>4, <3>5, <3>6 DEF Sayings, Names
  <2> QED
    BY <2>1, <2>2, <2>3
<1>9. P = <<<<"leaf", i, 0>>, Result(i)>>
  BY <1>2, <1>8, PartsOf, Zenon
<1>10. j = 2 /\ P[j] = Result(i) /\ Len(P) = 2
  <2>1. (j = 1 /\ P[j] = <<"leaf", i, 0>>) \/ (j = 2 /\ P[j] = Result(i))
    BY <1>6, <1>9
  <2>2. Len(P) = 2
    BY <1>9
  <2> QED
    BY <1>6, <2>1, <2>2
<1> QED
  BY <1>5, <1>8, <1>10 DEF P

LEMMA NumbersInOrder ==
  ASSUME WellFormed(fn), NEW i \in 1 .. fn.n, NEW j \in 1 .. fn.n, i < j,
         HasStatement(i), HasStatement(j), fn.block[i] = fn.block[j]
  PROVE  StatementNumber(i) < StatementNumber(j)
<1>1. fn.n \in Nat
  BY DEF WellFormed
<1>2. /\ IsFiniteSet(Rank(i)) /\ Cardinality(Rank(i)) \in Nat /\ EndOf(fn.block[i] - 1) \in Nat
      /\ StatementNumber(i) = EndOf(fn.block[i] - 1) + Cardinality(Rank(i))
  BY NumberOf
<1>3. /\ IsFiniteSet(Rank(j)) /\ Cardinality(Rank(j)) \in Nat
      /\ StatementNumber(j) = EndOf(fn.block[j] - 1) + Cardinality(Rank(j))
  BY NumberOf
<1>4. Rank(i) \subseteq Rank(j) /\ j \in Rank(j) /\ j \notin Rank(i)
  <2>1. \A b : InBlock(b) \subseteq 1 .. fn.n
    BY DEF InBlock
  <2> QED
    BY <1>1, <2>1 DEF Rank, InBlock
<1>5. Rank(i) \cup {j} \in SUBSET Rank(j)
  BY <1>4
<1>6. Cardinality(Rank(i) \cup {j}) = Cardinality(Rank(i)) + 1
  BY <1>2, <1>4, FS_AddElement
<1>7. Cardinality(Rank(i) \cup {j}) <= Cardinality(Rank(j))
  BY <1>3, <1>5, FS_Subset
<1> QED
  BY <1>2, <1>3, <1>6, <1>7

LEMMA NumberInBlock ==
  ASSUME WellFormed(fn), NEW i \in 1 .. fn.n, HasStatement(i), NEW b \in Nat, b > 0,
         EndOf(b - 1) < StatementNumber(i), StatementNumber(i) <= EndOf(b)
  PROVE  fn.block[i] = b
<1>1. PICK c : c = fn.block[i]
  OBVIOUS
<1>2. /\ c \in Nat /\ c > 0 /\ EndOf(c - 1) \in Nat /\ EndOf(c) \in Nat
      /\ StatementNumber(i) \in Nat
      /\ EndOf(c - 1) < StatementNumber(i) /\ StatementNumber(i) <= EndOf(c)
  BY <1>1, NumberOf
<1>3. EndOf(b - 1) \in Nat /\ EndOf(b) \in Nat /\ b - 1 \in Nat /\ c - 1 \in Nat
  BY <1>2, EndOfBlock
<1>4. ASSUME b < c PROVE FALSE
  <2>1. b <= c - 1
    BY <1>2, <1>4
  <2>2. EndOf(b) <= EndOf(c - 1)
    BY <1>3, <2>1, EndsInOrder
  <2> QED
    BY <1>2, <1>3, <2>2
<1>5. ASSUME c < b PROVE FALSE
  <2>1. c <= b - 1
    BY <1>2, <1>5
  <2>2. EndOf(c) <= EndOf(b - 1)
    BY <1>2, <1>3, <2>1, EndsInOrder
  <2> QED
    BY <1>2, <1>3, <2>2
<1> QED
  BY <1>1, <1>2, <1>4, <1>5

(* k is in the statement of u, and what it says is said there rightly.     *)
InStatement(k, u) ==
  /\ u \in 1 .. fn.n /\ HasStatement(u) /\ order[RootOf(k)] = StatementNumber(u)
  /\ Carries(Meaning[k], u)

LEMMA EachInItsStatement ==
  ASSUME Understood, MarksAreClean
  PROVE  \A k \in Expressions : Meaning[k] = <<"noop", 0, 0>> \/ \E u : InStatement(k, u)
<1> DEFINE S == {k \in Expressions : Meaning[k] = <<"noop", 0, 0>> \/ \E u : InStatement(k, u)}
<1>1. WellFormed(fn) /\ Rooted /\ StatementNodes \subseteq Expressions
  BY DEF Understood, Rooted
<1>2. ASSUME NEW k \in StatementNodes PROVE k \in S
  <2>1. k \in Expressions /\ RootOf(k) = k /\ Meaning[k] = StatementSays(order[k])
    BY <1>1, RootIs DEF Understood
  <2>2. CASE Stated(order[k]) = {}
    BY <2>1, <2>2 DEF StatementSays
  <2>3. CASE Stated(order[k]) # {}
    <3>1. PICK u \in 1 .. fn.n : HasStatement(u) /\ StatementNumber(u) = order[k]
      BY <2>3 DEF Stated
    <3>2. Meaning[k] = Says(u)
      BY <1>1, <2>1, <3>1, StatedOnce
    <3>3. Carries(Says(u), u)
      BY <1>1, <3>1, SaysCarried
    <3>4. InStatement(k, u)
      BY <2>1, <3>1, <3>2, <3>3 DEF InStatement
    <3> QED
      BY <2>1, <3>4
  <2> QED
    BY <2>2, <2>3
<1>3. ASSUME NEW k \in Expressions, k \notin StatementNodes, ParentOf(k) \in S PROVE k \in S
  <2> DEFINE p == ParentOf(k)
  <2>1. p \in Expressions /\ k \in Arguments(p) /\ RootOf(k) = RootOf(p)
    BY <1>1, <1>3, ParentIs, RootIs
  <2>2. /\ order[k] \in 1 .. Len(Parts(Meaning[p])) /\ Meaning[p] \in Meanings
        /\ Meaning[k] = Parts(Meaning[p])[order[k]]
    BY <2>1 DEF Understood
  <2>3. Meaning[p] # <<"noop", 0, 0>>
    <3>1. Parts(<<"noop", 0, 0>>) = <<>>
      BY PartsOf
    <3> QED
      BY <2>2, <3>1
  <2>4. PICK u : InStatement(p, u)
    BY <1>3, <2>3
  <2>5. Carries(Meaning[k], u)
    BY <1>1, <2>2, <2>4, PartCarried DEF InStatement
  <2>6. InStatement(k, u)
    BY <2>1, <2>4, <2>5 DEF InStatement
  <2> QED
    BY <2>6
<1>4. S = Expressions
  <2>1. S \in SUBSET Expressions
    OBVIOUS
  <2> HIDE DEF S
  <2> QED
    BY <1>1, <1>2, <1>3, <2>1, DownTheTrees
<1> QED
  BY <1>4

LEMMA EachCarries ==
  ASSUME Understood, MarksAreClean, NEW k \in Expressions
  PROVE  \E u : Carries(Meaning[k], u)
<1>1. CASE Meaning[k] = <<"noop", 0, 0>>
  BY <1>1 DEF Carries, Instructive
<1>2. CASE Meaning[k] # <<"noop", 0, 0>>
  BY <1>2, EachInItsStatement DEF InStatement
<1> QED
  BY <1>1, <1>2

(* A write of w is in the statement of w: its root, or the value that the  *)
(* root assigns.                                                           *)
LEMMA WriteIs ==
  ASSUME Understood, MarksAreClean, NEW w \in 1 .. fn.n, w \notin fn.inlined,
         NEW k \in Expressions, Writes(k, w)
  PROVE  /\ order[RootOf(k)] = StatementNumber(w)
         /\ k \in StatementNodes \/ ( /\ ParentOf(k) \in StatementNodes
                                      /\ order[k] = 2
                                      /\ Meaning[ParentOf(k)][1] = "assignment"
                                      /\ Len(Parts(Meaning[ParentOf(k)])) = 2 )
<1>1. WellFormed(fn) /\ Rooted
  BY DEF Understood
<1>2. /\ Meaning[k] \in Meanings /\ Meaning[k][1] \in {"assignment", "call", "op"}
      /\ Meaning[k][2] = w
  BY DEF Understood, Writes
<1>3. Meaning[k] # <<"noop", 0, 0>>
  BY <1>2
<1>4. PICK u : InStatement(k, u)
  BY <1>3, EachInItsStatement
<1>5. u = w
  BY <1>2, <1>4 DEF InStatement, Carries, Instructive, UsedAt
<1>6. ASSUME k \notin StatementNodes
      PROVE  /\ ParentOf(k) \in StatementNodes /\ order[k] = 2
             /\ Meaning[ParentOf(k)][1] = "assignment" /\ Len(Parts(Meaning[ParentOf(k)])) = 2
  <2> DEFINE p == ParentOf(k)
  <2>1. p \in Expressions /\ k \in Arguments(p)
    BY <1>1, <1>6, ParentIs
  <2>2. /\ order[k] \in 1 .. Len(Parts(Meaning[p])) /\ Meaning[p] \in Meanings
        /\ Meaning[k] = Parts(Meaning[p])[order[k]]
    BY <2>1 DEF Understood
  <2>3. /\ Meaning[p][1] = "assignment" /\ order[k] = 2 /\ Len(Parts(Meaning[p])) = 2
    <3>1. PICK v : Carries(Meaning[p], v)
      BY <2>1, EachCarries
    <3> QED
      BY <1>1, <1>2, <2>2, <3>1, WritesArePartsOf
  <2>4. p \in StatementNodes
    <3> SUFFICES ASSUME p \notin StatementNodes PROVE FALSE
      OBVIOUS
    <3>1. ParentOf(p) \in Expressions /\ p \in Arguments(ParentOf(p))
      BY <1>1, <2>1, ParentIs
    <3>2. /\ order[p] \in 1 .. Len(Parts(Meaning[ParentOf(p)])) /\ Meaning[ParentOf(p)] \in Meanings
          /\ Meaning[p] = Parts(Meaning[ParentOf(p)])[order[p]]
      BY <3>1 DEF Understood
    <3>3. PICK v : Carries(Meaning[ParentOf(p)], v)
      BY <3>1, EachCarries
    <3>4. Meaning[p][1] \in {"assignment", "call", "op"}
      BY <2>3
    <3> QED
      BY <1>1, <2>3, <3>2, <3>3, <3>4, WritesArePartsOf
  <2> QED
    BY <2>3, <2>4
<1> QED
  BY <1>4, <1>5, <1>6 DEF InStatement

LEMMA TreesKnow ==
  ASSUME WellFormed(fn), MarksAreClean
  PROVE  /\ \A w, l : <<w, l>> \in fn.mods =>
              /\ w \in 1 .. fn.n /\ l \in 1 .. fn.n /\ w # l
              /\ fn.kind[l] = "load"
              /\ fn.kind[w] \in {"store", "call", "vcall", "icall", "invoke", "fence"}
         /\ \A l \in fn.inlined : fn.kind[l] = "load" => \A u \in UsesOf(l) :
              \A w \in 1 .. fn.n : l < w /\ w < u => <<w, l>> \notin fn.mods
<1> DEFINE f == Inlinable(fn)
<1>1. /\ f.n = fn.n /\ f.mods = fn.mods
      /\ \A i \in 1 .. fn.n : f.kind[i] = InlineKind(fn.kind[i])
  BY DEF Inlinable
<1>2. Trees!Insts(f) = 1 .. fn.n
  BY <1>1 DEF Trees!Insts
<1>3. fn.mods \subseteq Trees!Writers(f) \X Trees!Loads(f)
  BY <1>1 DEF MarksAreClean, Trees!WellFormed
<1>4. \A l \in fn.inlined \cap Trees!Loads(f) : \A u \in UsesOf(l) : Trees!UnspoiltAt(f, l, u)
  BY DEF MarksAreClean, Trees!Clean, UsesOf
<1> HIDE DEF f
<1>5. \A l \in Trees!Loads(f) : l \in 1 .. fn.n /\ fn.kind[l] = "load"
  BY <1>1, <1>2 DEF Trees!Loads, InlineKind
<1>6. \A l \in 1 .. fn.n : fn.kind[l] = "load" => l \in Trees!Loads(f)
  BY <1>1, <1>2 DEF Trees!Loads, InlineKind
<1>7. \A w \in Trees!Writers(f) :
        w \in 1 .. fn.n /\ fn.kind[w] \in {"store", "call", "vcall", "icall", "invoke", "fence"}
  BY <1>1, <1>2 DEF Trees!Writers, InlineKind
<1>8. fn.inlined \subseteq 1 .. fn.n
  BY DEF WellFormed
<1>9. ASSUME NEW w, NEW l, <<w, l>> \in fn.mods
      PROVE  w \in Trees!Writers(f) /\ l \in Trees!Loads(f)
  BY <1>3, <1>9
<1>10. \A l \in fn.inlined : fn.kind[l] = "load" => \A u \in UsesOf(l) :
         \A w \in 1 .. fn.n : l < w /\ w < u => <<w, l>> \notin fn.mods
  BY <1>1, <1>2, <1>4, <1>6, <1>8 DEF Trees!UnspoiltAt
<1> QED
  BY <1>5, <1>7, <1>9, <1>10

(* The instruction w that writes is executed before the load l, and so is  *)
(* what the CPG shows of it.                                               *)
LEMMA EarlierWrites ==
  ASSUME Understood, MarksAreClean, NEW b \in 1 .. NBlocks, NEW r \in NodesOf(b),
         NEW u, InStatement(r, u), NEW l \in 1 .. fn.n, UsedAt(l, u),
         NEW w \in InBlock(b), <<w, l>> \in fn.mods, w < l
  PROVE  \E k \in NodesOf(b) : Writes(k, w) /\ Before(k, r)
<1>1. /\ WellFormed(fn) /\ Rooted /\ fn.n \in Nat /\ NBlocks \in Nat
      /\ w \in 1 .. fn.n /\ fn.block[w] = b
  <2>1. WellFormed(fn) /\ Rooted
    BY DEF Understood
  <2>2. fn.succ \in Seq(Seq(1 .. Len(fn.succ))) /\ fn.n \in Nat
    BY <2>1 DEF WellFormed
  <2> QED
    BY <2>1, <2>2 DEF InBlock, NBlocks
<1>2. fn.kind[w] \in {"store", "call", "vcall", "icall", "invoke", "fence"}
  BY <1>1, TreesKnow
<1>3. HasStatement(w)
  BY <1>1, <1>2 DEF HasStatement, NoNode, WellFormed
<1>4. PICK k \in StatementNodes : order[k] = StatementNumber(w)
  BY <1>1, <1>3 DEF Understood
<1>5. k \in Expressions /\ RootOf(k) = k /\ Meaning[k] = Says(w)
  BY <1>1, <1>3, <1>4, RootIs, StatedOnce DEF Understood, Rooted
<1>6. Writes(k, w)
  <2>1. Says(w)[1] \in {"assignment", "call", "op"} /\ Says(w)[2] = w
    BY <1>2 DEF Says, Computed, HaveValue
  <2> QED
    BY <1>5, <2>1 DEF Understood, Writes
<1>7. /\ EndOf(b - 1) < StatementNumber(w) /\ StatementNumber(w) <= EndOf(b)
  BY <1>1, <1>3, NumberOf
<1>8. k \in NodesOf(b)
  BY <1>4, <1>5, <1>7 DEF NodesOf
<1>9. /\ u \in 1 .. fn.n /\ HasStatement(u) /\ order[RootOf(r)] = StatementNumber(u)
  BY DEF InStatement
<1>10. fn.block[u] = b
  <2>1. b \in Nat /\ b > 0
    BY <1>1
  <2>2. EndOf(b - 1) < StatementNumber(u) /\ StatementNumber(u) <= EndOf(b)
    BY <1>9 DEF NodesOf
  <2> QED
    BY <1>1, <1>9, <2>1, <2>2, NumberInBlock
<1>11. w < u
  BY <1>1, <1>9 DEF UsedAt
<1>12. StatementNumber(w) < StatementNumber(u)
  BY <1>1, <1>3, <1>9, <1>10, <1>11, NumbersInOrder
<1> QED
  BY <1>4, <1>5, <1>6, <1>8, <1>9, <1>12 DEF Before

(* What the CPG shows of w before l is of an instruction before l.         *)
LEMMA WritesAreEarlier ==
  ASSUME Understood, MarksAreClean, NEW b \in 1 .. NBlocks, NEW r \in NodesOf(b),
         NEW u, InStatement(r, u), NEW l \in 1 .. fn.n, UsedAt(l, u),
         Meaning[r][1] = "indirection",
         NEW w \in InBlock(b), <<w, l>> \in fn.mods,
         NEW k \in NodesOf(b), Writes(k, w), Before(k, r)
  PROVE  w < l
<1>1. /\ WellFormed(fn) /\ Rooted /\ fn.n \in Nat /\ NBlocks \in Nat
      /\ w \in 1 .. fn.n /\ fn.block[w] = b
  <2>1. WellFormed(fn) /\ Rooted
    BY DEF Understood
  <2>2. fn.succ \in Seq(Seq(1 .. Len(fn.succ))) /\ fn.n \in Nat
    BY <2>1 DEF WellFormed
  <2> QED
    BY <2>1, <2>2 DEF InBlock, NBlocks
<1>2. /\ fn.kind[w] \in {"store", "call", "vcall", "icall", "invoke", "fence"}
      /\ fn.kind[l] = "load" /\ w # l
  BY <1>1, TreesKnow
<1>3. HasStatement(w) /\ w \notin fn.inlined
  BY <1>1, <1>2 DEF HasStatement, NoNode, WellFormed
<1>4. k \in Expressions /\ r \in Expressions
  BY DEF NodesOf
<1>5. /\ u \in 1 .. fn.n /\ HasStatement(u) /\ order[RootOf(r)] = StatementNumber(u)
  BY DEF InStatement
<1>6. fn.block[u] = b
  <2>1. b \in Nat /\ b > 0
    BY <1>1
  <2>2. EndOf(b - 1) < StatementNumber(u) /\ StatementNumber(u) <= EndOf(b)
    BY <1>5 DEF NodesOf
  <2> QED
    BY <1>1, <1>5, <2>1, <2>2, NumberInBlock
<1>7. order[RootOf(k)] = StatementNumber(w)
  BY <1>1, <1>3, <1>4, WriteIs
<1>8. StatementNumber(w) \in Int /\ StatementNumber(u) \in Int
  BY <1>1, <1>3, <1>5, NumberOf
<1> SUFFICES ASSUME l < w PROVE FALSE
  BY <1>1, <1>2
<1>9. ~ (w < u)
  <2>1. l # u => l \in fn.inlined /\ u \in UsesOf(l)
    BY DEF UsedAt
  <2>2. ASSUME w < u PROVE FALSE
    BY <1>1, <1>2, <2>1, <2>2, TreesKnow
  <2> QED
    BY <2>2
<1>10. CASE u < w
  <2>1. StatementNumber(u) < StatementNumber(w)
    BY <1>1, <1>3, <1>5, <1>6, <1>10, NumbersInOrder
  <2> QED
    BY <1>5, <1>7, <1>8, <2>1 DEF Before
<1>11. CASE u = w
  <2>1. order[RootOf(k)] = order[RootOf(r)] /\ order[RootOf(k)] \in Int
    BY <1>5, <1>7, <1>8, <1>11
  <2>2. \/ k # r /\ r \in Above[k]
        \/ \E p \in Expressions :
             \E x \in Arguments(p) \cap Above[k], y \in Arguments(p) \cap Above[r] :
               order[x] < order[y]
    BY <2>1 DEF Before
  <2>3. \A p : \A x \in Arguments(p) : x \notin StatementNodes /\ p = ParentOf(x) /\ p \in Expressions
    BY <1>1, ParentIs
  <2>4. CASE k \in StatementNodes
    <3>1. Above[k] = {k}
      BY <1>1, <2>4, RootIs
    <3> QED
      BY <2>2, <2>3, <2>4, <3>1
  <2>5. CASE k \notin StatementNodes
    <3> DEFINE s == ParentOf(k)
    <3>1. /\ s \in StatementNodes /\ order[k] = 2
          /\ Meaning[s][1] = "assignment" /\ Len(Parts(Meaning[s])) = 2
      BY <1>1, <1>3, <1>4, <2>5, WriteIs
    <3>2. Above[k] = {k, s} /\ s \in Expressions
      BY <1>1, <1>4, <2>5, <3>1, RootIs DEF Rooted
    <3>3. r # s
      BY <3>1
    <3>4. \A y \in Arguments(s) : order[y] \in 1 .. 2
      BY <3>1, <3>2 DEF Understood
    <3> HIDE DEF s
    <3>5. \A p : \A x \in Arguments(p) \cap Above[k] : x = k /\ p = s
      BY <2>3, <3>1, <3>2 DEF s
    <3>6. PICK p \in Expressions :
            \E x \in Arguments(p) \cap Above[k], y \in Arguments(p) \cap Above[r] :
              order[x] < order[y]
      BY <2>2, <3>2, <3>3
    <3>7. PICK y \in Arguments(s) : order[k] < order[y]
      BY <3>5, <3>6
    <3> QED
      BY <3>1, <3>4, <3>7
  <2> QED
    BY <2>4, <2>5
<1> QED
  BY <1>1, <1>5, <1>9, <1>10, <1>11

LEMMA ReadsAreRight == MeaningInvariant /\ RootsFree => ReadsSeeSameWrites
<1> SUFFICES ASSUME MeaningInvariant, RootsFree, Done, HasBody, MarksAreClean,
                    NEW b \in 1 .. NBlocks, NEW r \in NodesOf(b), NEW l, l = node[r].of,
                    node[r].name = "indirection", fn.kind[l] = "load",
                    NEW w \in InBlock(b), <<w, l>> \in fn.mods
             PROVE  w < l <=> \E k \in NodesOf(b) : Writes(k, w) /\ Before(k, r)
  BY DEF ReadsSeeSameWrites
<1>1. Understood
  BY IsUnderstood
<1>2. r \in Expressions
  BY DEF NodesOf
<1>3. Meaning[r][1] = "indirection" /\ Meaning[r][2] = l
  BY <1>1, <1>2 DEF Understood
<1>4. PICK u : InStatement(r, u)
  <2>1. Meaning[r] # <<"noop", 0, 0>>
    BY <1>3
  <2> QED
    BY <1>1, <1>2, <2>1, EachInItsStatement
<1>5. l \in 1 .. fn.n /\ UsedAt(l, u)
  BY <1>3, <1>4 DEF InStatement, Carries, Instructive, SaidOf
<1> QED
  BY <1>1, <1>3, <1>4, <1>5, EarlierWrites, WritesAreEarlier

(* Load inlining moves no read past a write: whatever marks it leaves that *)
(* are clean, in every emitted method each load of the LLVM function reads *)
(* after the writes it read after in LLVM, and after no other.             *)
THEOREM ReadsAreUnspoilt == Spec => []ReadsSeeSameWrites
BY RootsStayFree, ReadsAreRight, PTL
=============================================================================
