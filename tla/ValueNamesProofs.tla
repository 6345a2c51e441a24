--------------------------- MODULE ValueNamesProofs ---------------------------
(***************************************************************************)
(* Proofs about ValueNames, for every set of well-formed contexts.         *)
(***************************************************************************)
EXTENDS ValueNames, TLAPS

Inst(k) == <<"inst", k>>

(* How far the body has been seen, and the variables of it recorded.       *)
Seen == IF phase = "arguments" THEN 1
        ELSE IF phase = "body" THEN position ELSE Len(ctx.instructions) + 1

RecordedAt(k) ==
  /\ ctx.instructions[k].kind = "dbg"
  /\ Recorded(ctx.instructions[k].variable, ctx.instructions[k].ref)

RecordedUpTo(n) ==
  {ctx.instructions[k].variable : k \in {j \in DOMAIN ctx.instructions : j < n /\ RecordedAt(j)}}

RetainedUpTo(n) ==
  {ctx.retained[k] : k \in {j \in DOMAIN ctx.retained : j < n /\ ctx.retained[j].arg # 0}}

NamesOf(c, f) == f = [v \in DOMAIN c.own |-> f[v]]

Typed ==
  /\ ctx \in Contexts
  /\ phase \in {"arguments", "body", "retained", "formals", "done"}
  /\ position \in Nat \ {0}
  /\ NamesOf(ctx, name)
  /\ arguments = [k \in 1 .. (IF phase = "arguments" THEN position - 1 ELSE ctx.arguments) |->
                    <<"arg", k>>]
  /\ variables \in Seq({Inst(k) : k \in Produced})
  /\ formalArguments \in Seq(Described(ctx))
  /\ phase = "arguments" => position <= ctx.arguments + 1
  /\ phase = "body" => position <= Len(ctx.instructions) + 1
  /\ phase = "retained" => position <= Len(ctx.retained) + 1
  /\ phase = "formals" => position <= Len(formalArguments) + 1

----------------------------------------------------------------------------
LEMMA AppendElements ==
  ASSUME NEW S, NEW s \in Seq(S), NEW e
  PROVE  /\ Elements(Append(s, e)) = Elements(s) \cup {e}
         /\ Len(Append(s, e)) = Len(s) + 1
         /\ \A k \in DOMAIN s : k \in DOMAIN Append(s, e) /\ Append(s, e)[k] = s[k]
         /\ DOMAIN Append(s, e) = DOMAIN s \cup {Len(s) + 1}
         /\ Append(s, e)[Len(s) + 1] = e
  BY DEF Elements

LEMMA NonEmpty ==
  ASSUME NEW t, NEW s
  PROVE  <<t, s>> = NoName <=> t = "" /\ s = ""
  BY DEF NoName

LEMMA ContextFacts ==
  ASSUME Typed
  PROVE  /\ WellFormed(ctx)
         /\ ctx.instructions \in Seq(Elements(ctx.instructions))
         /\ DOMAIN ctx.instructions = 1 .. Len(ctx.instructions)
         /\ Len(ctx.instructions) \in Nat
         /\ ctx.retained \in Seq(Elements(ctx.retained))
         /\ DOMAIN ctx.retained = 1 .. Len(ctx.retained)
         /\ Len(ctx.retained) \in Nat
         /\ ctx.arguments \in Nat
         /\ DOMAIN formalArguments = 1 .. Len(formalArguments)
         /\ Len(formalArguments) \in Nat
         /\ \A k \in DOMAIN formalArguments : formalArguments[k] \in Described(ctx)
<1>1. WellFormed(ctx)
  BY ContextsAssumption DEF Typed
<1>2. /\ ctx.instructions \in Seq(Elements(ctx.instructions))
      /\ ctx.retained \in Seq(Elements(ctx.retained)) /\ ctx.arguments \in Nat
  BY <1>1 DEF WellFormed
<1>. QED
  BY <1>1, <1>2 DEF Typed

(* Names are names of the same values throughout.                          *)
LEMMA SetNameTyped ==
  ASSUME NEW v, NEW t, NEW s, Typed
  PROVE  /\ NamesOf(ctx, SetName(v, t, s))
         /\ \A w \in DOMAIN ctx.own :
              SetName(v, t, s)[w] = IF w = v THEN <<t, s>> ELSE name[w]
  BY DEF Typed, SetName, NamesOf

LEMMA NameIfEmptyTyped ==
  ASSUME NEW v, NEW t, Typed
  PROVE  /\ NamesOf(ctx, NameIfEmpty(v, t))
         /\ \A w \in DOMAIN ctx.own :
              NameIfEmpty(v, t)[w] =
                IF w = v /\ name[v] = NoName THEN <<t, "">> ELSE name[w]
<1>1. CASE name[v] = NoName
  BY <1>1 DEF Typed, NameIfEmpty, NamesOf
<1>2. CASE name[v] # NoName
  BY <1>2 DEF Typed, NameIfEmpty, NamesOf
<1>. QED
  BY <1>1, <1>2

LEMMA NameSet ==
  ASSUME NEW v, NEW t, NEW s, Typed, name' = SetName(v, t, s)
  PROVE  \A w \in DOMAIN ctx.own :
           /\ w = v => name'[w] = <<t, s>>
           /\ w # v => name'[w] = name[w]
           /\ <<t, s>> # NoName /\ name[w] # NoName => name'[w] # NoName
<1>1. \A w \in DOMAIN ctx.own : name'[w] = IF w = v THEN <<t, s>> ELSE name[w]
  BY SetNameTyped
<1>. QED
  BY <1>1

LEMMA NameGiven ==
  ASSUME NEW v, NEW t, Typed, t # "", name' = NameIfEmpty(v, t)
  PROVE  \A w \in DOMAIN ctx.own :
           /\ w = v /\ name[w] = NoName => name'[w] = <<t, "">>
           /\ w # v \/ name[w] # NoName => name'[w] = name[w]
           /\ name'[w] = NoName => w # v /\ name[w] = NoName
<1>1. \A w \in DOMAIN ctx.own :
        name'[w] = IF w = v /\ name[v] = NoName THEN <<t, "">> ELSE name[w]
  BY NameIfEmptyTyped
<1>2. <<t, "">> # NoName
  BY NonEmpty
<1>. QED
  BY <1>1, <1>2

LEMMA TypedInit == Init => Typed
<1>. SUFFICES ASSUME Init PROVE Typed
  OBVIOUS
<1>1. WellFormed(ctx)
  BY ContextsAssumption DEF Init
<1>2. ctx.arguments \in Nat /\ NamesOf(ctx, ctx.own)
  BY <1>1 DEF WellFormed, NamesOf
<1>3. arguments = [k \in 1 .. 0 |-> <<"arg", k>>]
  BY DEF Init
<1>. QED
  BY <1>2, <1>3 DEF Init, Typed

LEMMA TypedNext == Typed /\ [Next]_vars => Typed'
<1>. SUFFICES ASSUME Typed, [Next]_vars PROVE Typed'
  OBVIOUS
<1>. USE ContextFacts
<1>1. CASE AddArgument
  <2>1. NamesOf(ctx, name')
    BY <1>1, NameIfEmptyTyped DEF AddArgument
  <2>2. arguments' = [k \in 1 .. position |-> <<"arg", k>>]
    BY <1>1 DEF AddArgument, Typed
  <2>3. position' - 1 = position /\ phase' = "arguments"
    BY <1>1 DEF AddArgument, Typed
  <2>4. arguments' = [k \in 1 .. (IF phase' = "arguments" THEN position' - 1 ELSE ctx'.arguments)
                        |-> <<"arg", k>>]
    BY <2>2, <2>3
  <2>. QED
    BY <1>1, <2>1, <2>4 DEF AddArgument, Typed, Produced
<1>2. CASE BeginBody
  BY <1>2 DEF BeginBody, Typed, Produced
<1>3. CASE SkipInlined
  BY <1>3 DEF SkipInlined, InBody, Step, Typed, Produced
<1>4. CASE AddVariable
  <2>1. NamesOf(ctx, name')
    BY <1>4, NameIfEmptyTyped DEF AddVariable
  <2>2. Inst(position) \in {Inst(k) : k \in Produced}
    BY <1>4 DEF AddVariable, InBody, Produced, Current
  <2>3. variables' \in Seq({Inst(k) : k \in Produced})
    BY <1>4, <2>2 DEF AddVariable, Typed, Inst
  <2>. QED
    BY <1>4, <2>1, <2>3 DEF AddVariable, InBody, Step, Typed, Produced
<1>5. CASE AddNothing
  BY <1>5 DEF AddNothing, InBody, Step, Typed, Produced
<1>6. CASE DebugName
  <2>1. NamesOf(ctx, name')
    BY <1>6, SetNameTyped DEF DebugName, Typed
  <2>2. Current.variable \in Described(ctx)
    BY <1>6 DEF DebugName, InBody, Current, Described, Elements
  <2>3. formalArguments' \in Seq(Described(ctx))
    BY <1>6, <2>2 DEF DebugName, Typed
  <2>. QED
    BY <1>6, <2>1, <2>3 DEF DebugName, InBody, Step, Typed, Produced
<1>7. CASE EndBody
  BY <1>7 DEF EndBody, Typed, Produced
<1>8. CASE Retain
  <2>1. ctx.retained[position] \in Described(ctx)
    BY <1>8 DEF Retain, Described, Elements
  <2>2. formalArguments' \in Seq(Described(ctx))
    BY <1>8, <2>1 DEF Retain, Typed
  <2>. QED
    BY <1>8, <2>2 DEF Retain, Typed, Produced
<1>9. CASE EndRetained
  BY <1>9 DEF EndRetained, Typed, Produced
<1>10. CASE NameFormal
  <2>1. NamesOf(ctx, name')
    BY <1>10, SetNameTyped DEF NameFormal
  <2>. QED
    BY <1>10, <2>1 DEF NameFormal, Typed, Produced
<1>11. CASE Finish
  BY <1>11 DEF Finish, Typed, Produced
<1>12. CASE UNCHANGED vars
  BY <1>12 DEF vars, Typed, Produced
<1>. QED
  BY <1>1, <1>2, <1>3, <1>4, <1>5, <1>6, <1>7, <1>8, <1>9, <1>10, <1>11, <1>12 DEF Next

----------------------------------------------------------------------------
(* The variables collected so far.                                         *)
Kept(n) == {k \in Produced : k < n /\ ~ctx.instructions[k].inlined}

Unnamed(v) == \E k \in AnnotationsOf(v) : ctx.instructions[k].variable.text = ""

LocalsInvariant ==
  /\ Elements(variables) = {Inst(k) : k \in Kept(Seen)}
  /\ \A j, k \in DOMAIN variables : variables[j] = variables[k] => j = k
  /\ \A v \in Elements(variables) \cup Elements(arguments) : name[v] # NoName \/ Unnamed(v)

LEMMA Owned ==
  ASSUME Typed
  PROVE  \A w \in Elements(variables) \cup Elements(arguments) : w \in DOMAIN ctx.own
<1>1. ASSUME NEW w \in Elements(variables) PROVE w \in DOMAIN ctx.own
  <2>1. PICK k \in DOMAIN variables : w = variables[k]
    BY DEF Elements
  <2>2. variables[k] \in {Inst(j) : j \in Produced}
    BY DEF Typed
  <2>3. PICK j \in Produced : w = Inst(j)
    BY <2>1, <2>2
  <2>. QED
    BY <2>3, ContextFacts DEF Produced, WellFormed, Inst
<1>2. ASSUME NEW w \in Elements(arguments) PROVE w \in DOMAIN ctx.own
  <2>1. PICK k \in DOMAIN arguments : w = arguments[k]
    BY DEF Elements
  <2>2. k \in 1 .. ctx.arguments /\ w = <<"arg", k>>
    BY <2>1, ContextFacts DEF Typed
  <2>. QED
    BY <2>2, ContextFacts DEF WellFormed
<1>. QED
  BY <1>1, <1>2

(* What a step that names one value, or none, leaves to be shown.          *)
LEMMA LocalsKept ==
  ASSUME Typed, LocalsInvariant, UNCHANGED <<ctx, variables>>,
         Kept(Seen)' = Kept(Seen),
         Elements(arguments') = Elements(arguments),
         \A v \in Elements(variables) \cup Elements(arguments) :
           name'[v] = name[v] \/ name'[v] # NoName \/ Unnamed(v)
  PROVE  LocalsInvariant'
<1>1. \A v : Unnamed(v)' <=> Unnamed(v)
  BY DEF Unnamed, AnnotationsOf
<1>2. Elements(variables)' = Elements(variables) /\ Elements(arguments)' = Elements(arguments)
  BY DEF Elements
<1>. QED
  BY <1>1, <1>2 DEF LocalsInvariant

LEMMA LocalsInit == Init => LocalsInvariant
<1>. SUFFICES ASSUME Init PROVE LocalsInvariant
  OBVIOUS
<1>1. WellFormed(ctx)
  BY ContextsAssumption DEF Init
<1>2. DOMAIN ctx.instructions = 1 .. Len(ctx.instructions)
  BY <1>1 DEF WellFormed
<1>3. Kept(Seen) = {}
  BY <1>2 DEF Init, Kept, Seen, Produced
<1>4. Elements(variables) = {} /\ Elements(arguments) = {} /\ DOMAIN variables = {}
  BY DEF Init, Elements
<1>. QED
  BY <1>3, <1>4 DEF LocalsInvariant

LEMMA LocalsNext == Typed /\ LocalsInvariant /\ [Next]_vars => LocalsInvariant'
<1>. SUFFICES ASSUME Typed, LocalsInvariant, [Next]_vars PROVE LocalsInvariant'
  OBVIOUS
<1>. USE ContextFacts
<1>0. \A k : k \in Produced => k \in 1 .. Len(ctx.instructions)
  BY DEF Produced
<1>1. CASE AddArgument
  <2>1. /\ Elements(variables)' = Elements(variables)
        /\ Elements(arguments)' = Elements(arguments) \cup {<<"arg", position>>}
    <3>1. arguments \in Seq({<<"arg", k>> : k \in Nat})
      BY <1>1 DEF AddArgument, Typed
    <3>. QED
      <4>1. Elements(Append(arguments, <<"arg", position>>)) =
              Elements(arguments) \cup {<<"arg", position>>}
        BY <3>1, AppendElements
      <4>. QED
        BY <1>1, <4>1 DEF AddArgument, Elements
  <2>2. <<"arg", position>> \in DOMAIN ctx.own
    BY <1>1 DEF AddArgument, Typed, WellFormed
  <2>3. \A w \in DOMAIN ctx.own : name[w] # NoName => name'[w] # NoName
    BY <1>1, NameGiven DEF AddArgument
  <2>4. name'[<<"arg", position>>] # NoName
    BY <1>1, <2>2, NameGiven DEF AddArgument
  <2>5. \A w : w \in Elements(variables) \cup Elements(arguments) => w \in DOMAIN ctx.own
    BY Owned
  <2>6. \A v : Unnamed(v)' <=> Unnamed(v)
    BY <1>1 DEF Unnamed, AnnotationsOf, AddArgument
  <2>7. Kept(Seen)' = Kept(Seen) /\ variables' = variables
    BY <1>1 DEF Kept, Seen, Produced, AddArgument
  <2>. QED
    BY <2>1, <2>3, <2>4, <2>5, <2>6, <2>7 DEF LocalsInvariant
<1>2. CASE BeginBody
  <2>1. Kept(Seen)' = Kept(Seen)
    BY <1>2, <1>0 DEF BeginBody, Kept, Seen, Produced
  <2>. QED
    BY <1>2, <2>1, LocalsKept DEF BeginBody
<1>3. CASE SkipInlined \/ AddNothing
  <2>1. ~(position \in Produced /\ ~ctx.instructions[position].inlined)
    BY <1>3 DEF SkipInlined, AddNothing, Produced, Skipped, Current
  <2>2. Kept(Seen)' = Kept(Seen)
    BY <1>3, <1>0, <2>1 DEF SkipInlined, AddNothing, InBody, Step, Kept, Seen, Produced, Typed
  <2>. QED
    BY <1>3, <2>2, LocalsKept DEF SkipInlined, AddNothing, Step
<1>4. CASE AddVariable
  <2>1. position \in Produced /\ ~ctx.instructions[position].inlined
    BY <1>4 DEF AddVariable, InBody, Produced, Current, Skipped
  <2>2. Kept(Seen)' = Kept(Seen) \cup {position} /\ position \notin Kept(Seen)
    BY <1>4, <1>0, <2>1 DEF AddVariable, InBody, Step, Kept, Seen, Produced, Typed
  <2>3. variables' = Append(variables, Inst(position))
    BY <1>4 DEF AddVariable, Inst
  <2>4. Elements(variables') = Elements(variables) \cup {Inst(position)}
    BY <2>3, AppendElements DEF Typed
  <2>5. Elements(variables)' = {Inst(k) : k \in Kept(Seen)'}
    BY <2>2, <2>4 DEF LocalsInvariant, Elements
  <2>6. Inst(position) \notin Elements(variables)
    BY <2>2 DEF LocalsInvariant, Inst
  <2>7. \A j, k \in DOMAIN variables' : variables'[j] = variables'[k] => j = k
    <3>1. \A k \in DOMAIN variables : variables[k] # Inst(position)
      BY <2>6 DEF Elements
    <3>. QED
      BY <2>3, <3>1, AppendElements DEF Typed, LocalsInvariant
  <2>8. Inst(position) \in DOMAIN ctx.own
    BY <1>4, <2>1 DEF Produced, WellFormed, Inst
  <2>9. \A w \in DOMAIN ctx.own : name[w] # NoName => name'[w] # NoName
    BY <1>4, NameGiven DEF AddVariable
  <2>10. name'[Inst(position)] # NoName
    BY <1>4, <2>8, NameGiven DEF AddVariable, Inst
  <2>11. \A w : w \in Elements(variables) \cup Elements(arguments) => w \in DOMAIN ctx.own
    BY Owned
  <2>12. \A v : Unnamed(v)' <=> Unnamed(v)
    BY <1>4 DEF Unnamed, AnnotationsOf, AddVariable, Step
  <2>13. Elements(arguments)' = Elements(arguments)
    BY <1>4 DEF AddVariable, Step, Elements
  <2>14. Elements(variables)' = Elements(variables')
    BY DEF Elements
  <2>15. \A v \in Elements(variables') \cup Elements(arguments) : name'[v] # NoName \/ Unnamed(v)
    BY <2>4, <2>9, <2>10, <2>11 DEF LocalsInvariant
  <2>. QED
    BY <2>5, <2>7, <2>12, <2>13, <2>14, <2>15 DEF LocalsInvariant
<1>5. CASE DebugName
  <2>1. Kept(Seen)' = Kept(Seen)
    BY <1>5, <1>0 DEF DebugName, InBody, Step, Kept, Seen, Produced, Typed, Current
  <2>2. position \in AnnotationsOf(Current.ref)
    BY <1>5 DEF DebugName, InBody, Current, AnnotationsOf
  <2>3. \A w \in DOMAIN ctx.own : name'[w] = name[w] \/ name'[w] # NoName \/ Unnamed(w)
    <3>0. name' = name \/ name' = SetName(Current.ref, Current.variable.text, Current.suffix)
      BY <1>5 DEF DebugName
    <3>1. CASE Current.variable.text = ""
      <4>1. Unnamed(Current.ref)
        BY <2>2, <3>1 DEF Unnamed, Current
      <4>. QED
        BY <3>0, <4>1, NameSet
    <3>2. CASE Current.variable.text # ""
      <4>. HIDE ContextFacts
      <4>1. CASE name' = SetName(Current.ref, Current.variable.text, Current.suffix)
        <5>1. <<Current.variable.text, Current.suffix>> # NoName
          BY <3>2, NonEmpty
        <5>2. \A w \in DOMAIN ctx.own : name[w] # NoName => name'[w] # NoName
          BY <4>1, <5>1, NameSet
        <5>. QED
          BY <5>2
      <4>. QED
        BY <3>0, <4>1
    <3>. QED
      BY <3>1, <3>2
  <2>4. \A w : w \in Elements(variables) \cup Elements(arguments) => w \in DOMAIN ctx.own
    BY Owned
  <2>. QED
    BY <1>5, <2>1, <2>3, <2>4, LocalsKept DEF DebugName, Step
<1>6. CASE EndBody
  <2>1. Kept(Seen)' = Kept(Seen)
    BY <1>6, <1>0 DEF EndBody, Kept, Seen, Produced
  <2>. QED
    BY <1>6, <2>1, LocalsKept DEF EndBody
<1>7. CASE Retain \/ EndRetained \/ Finish
  <2>1. Kept(Seen)' = Kept(Seen)
    BY <1>7, <1>0 DEF Retain, EndRetained, Finish, Kept, Seen, Produced
  <2>. QED
    BY <1>7, <2>1, LocalsKept DEF Retain, EndRetained, Finish
<1>8. CASE NameFormal
  <2>1. Kept(Seen)' = Kept(Seen)
    BY <1>8, <1>0 DEF NameFormal, Kept, Seen, Produced
  <2>2. \A w \in DOMAIN ctx.own : name'[w] = name[w] \/ name'[w] # NoName
    <3>1. PICK v, t : name' = SetName(v, t, ".arg")
      BY <1>8 DEF NameFormal
    <3>2. \A w \in DOMAIN ctx.own : name'[w] = NoName => name[w] = NoName
      <4>. HIDE ContextFacts
      <4>1. <<t, ".arg">> # NoName
        BY SMT DEF NoName
      <4>. QED
        BY <3>1, <4>1, NameSet
    <3>. QED
      BY <3>2
  <2>3. \A w : w \in Elements(variables) \cup Elements(arguments) => w \in DOMAIN ctx.own
    BY Owned
  <2>. QED
    BY <1>8, <2>1, <2>2, <2>3, LocalsKept DEF NameFormal
<1>9. CASE UNCHANGED vars
  <2>1. Kept(Seen)' = Kept(Seen)
    BY <1>9 DEF vars, Kept, Seen, Produced
  <2>. QED
    BY <1>9, <2>1, LocalsKept DEF vars
<1>. QED
  BY <1>1, <1>2, <1>3, <1>4, <1>5, <1>6, <1>7, <1>8, <1>9 DEF Next

----------------------------------------------------------------------------
(* The parameters recorded so far.                                         *)
FormalsInvariant ==
  /\ phase \in {"arguments", "body"} => Elements(formalArguments) = RecordedUpTo(Seen)
  /\ phase = "retained" =>
       /\ ctx.subprogram
       /\ Elements(formalArguments) =
            RecordedUpTo(Len(ctx.instructions) + 1) \cup RetainedUpTo(position)
  /\ phase = "formals" =>
       ctx.subprogram /\ Elements(formalArguments) = Parameters /\ Agreeing

LEMMA AllRecorded ==
  ASSUME Typed
  PROVE  RecordedUpTo(Len(ctx.instructions) + 1) \cup RetainedUpTo(Len(ctx.retained) + 1)
           = Parameters
<1>. USE ContextFacts
<1>1. RetainedUpTo(Len(ctx.retained) + 1) = {v \in Elements(ctx.retained) : v.arg # 0}
  BY DEF RetainedUpTo, Elements
<1>2. RecordedUpTo(Len(ctx.instructions) + 1) =
        {i.variable : i \in {x \in Elements(ctx.instructions) :
            x.kind = "dbg" /\ x.variable.arg # 0 /\ x.ref[1] \notin {"null", "function"}}}
  BY DEF RecordedUpTo, RecordedAt, Recorded, IsParameter, Elements
<1>. QED
  BY <1>1, <1>2 DEF Parameters

LEMMA FormalsInit == Init => FormalsInvariant
<1>. SUFFICES ASSUME Init PROVE FormalsInvariant
  OBVIOUS
<1>1. WellFormed(ctx)
  BY ContextsAssumption DEF Init
<1>2. DOMAIN ctx.instructions = 1 .. Len(ctx.instructions)
  BY <1>1 DEF WellFormed
<1>3. RecordedUpTo(Seen) = {}
  BY <1>2 DEF Init, RecordedUpTo, Seen
<1>. QED
  BY <1>3 DEF Init, FormalsInvariant, Elements

LEMMA FormalsNext == Typed /\ FormalsInvariant /\ [Next]_vars => FormalsInvariant'
<1>. SUFFICES ASSUME Typed, FormalsInvariant, [Next]_vars PROVE FormalsInvariant'
  OBVIOUS
<1>1. CASE AddArgument \/ BeginBody
  <2>1. Elements(formalArguments)' = Elements(formalArguments) /\ ctx' = ctx /\ Seen' = Seen
    BY <1>1 DEF AddArgument, BeginBody, Elements, Seen, Typed
  <2>2. RecordedUpTo(Seen)' = RecordedUpTo(Seen)
    BY <2>1 DEF RecordedUpTo, RecordedAt, Recorded
  <2>. QED
    BY <1>1, <2>1, <2>2 DEF AddArgument, BeginBody, FormalsInvariant
<1>2. CASE SkipInlined \/ AddVariable \/ AddNothing
  <2>1. /\ Elements(formalArguments)' = Elements(formalArguments) /\ ctx' = ctx
        /\ phase = "body" /\ phase' = "body" /\ position' = position + 1
    BY <1>2 DEF SkipInlined, AddVariable, AddNothing, InBody, Step, Elements
  <2>2. ~RecordedAt(position)
    BY <1>2 DEF SkipInlined, AddVariable, AddNothing, Skipped, Current, RecordedAt
  <2>3. RecordedUpTo(position + 1) = RecordedUpTo(position)
    BY <2>2, ContextFacts DEF RecordedUpTo, Typed
  <2>4. RecordedUpTo(Seen)' = RecordedUpTo(position + 1) /\ Seen = position
    BY <2>1 DEF RecordedUpTo, RecordedAt, Recorded, Seen
  <2>. QED
    BY <2>1, <2>3, <2>4 DEF FormalsInvariant
<1>3. CASE DebugName
  <2>1. /\ ctx' = ctx /\ phase = "body" /\ phase' = "body" /\ position' = position + 1
        /\ position \in DOMAIN ctx.instructions /\ Current = ctx.instructions[position]
    BY <1>3 DEF DebugName, InBody, Step, Current
  <2>2. RecordedAt(position) <=> Recorded(Current.variable, Current.ref)
    BY <1>3 DEF DebugName, RecordedAt, Current
  <2>3. RecordedUpTo(position + 1) =
          IF RecordedAt(position) THEN RecordedUpTo(position) \cup {Current.variable}
          ELSE RecordedUpTo(position)
    BY <2>1, ContextFacts DEF RecordedUpTo, Typed
  <2>4. Elements(formalArguments') =
          IF RecordedAt(position) THEN Elements(formalArguments) \cup {Current.variable}
          ELSE Elements(formalArguments)
    <3>1. formalArguments' = IF RecordedAt(position)
                             THEN Append(formalArguments, Current.variable) ELSE formalArguments
      BY <1>3, <2>2 DEF DebugName
    <3>2. Elements(Append(formalArguments, Current.variable)) =
            Elements(formalArguments) \cup {Current.variable}
      BY AppendElements DEF Typed
    <3>. QED
      BY <3>1, <3>2
  <2>5. RecordedUpTo(Seen)' = RecordedUpTo(position + 1) /\ Seen = position
    BY <2>1 DEF RecordedUpTo, RecordedAt, Recorded, Seen
  <2>6. Elements(formalArguments)' = Elements(formalArguments')
    BY DEF Elements
  <2>. QED
    BY <2>1, <2>3, <2>4, <2>5, <2>6 DEF FormalsInvariant
<1>4. CASE EndBody
  <2>1. /\ Elements(formalArguments)' = Elements(formalArguments) /\ ctx' = ctx
        /\ phase = "body" /\ phase' = (IF ctx.subprogram THEN "retained" ELSE "done")
        /\ position = Len(ctx.instructions) + 1 /\ position' = 1
    BY <1>4 DEF EndBody, Elements
  <2>2. RetainedUpTo(1) = {}
    BY ContextFacts DEF RetainedUpTo
  <2>3. Elements(formalArguments) = RecordedUpTo(Len(ctx.instructions) + 1)
    BY <2>1 DEF FormalsInvariant, Seen
  <2>4. /\ RecordedUpTo(Len(ctx.instructions) + 1)' = RecordedUpTo(Len(ctx.instructions) + 1)
        /\ RetainedUpTo(position)' = RetainedUpTo(1)
    BY <2>1 DEF RecordedUpTo, RecordedAt, Recorded, RetainedUpTo
  <2>. QED
    BY <2>1, <2>2, <2>3, <2>4 DEF FormalsInvariant
<1>5. CASE Retain
  <2>1. /\ ctx' = ctx /\ phase = "retained" /\ phase' = "retained" /\ position' = position + 1
        /\ position \in DOMAIN ctx.retained
    BY <1>5 DEF Retain
  <2>2. RetainedUpTo(position + 1) =
          IF ctx.retained[position].arg # 0
          THEN RetainedUpTo(position) \cup {ctx.retained[position]}
          ELSE RetainedUpTo(position)
    BY <2>1, ContextFacts DEF RetainedUpTo, Typed
  <2>3. Elements(formalArguments') =
          IF ctx.retained[position].arg # 0
          THEN Elements(formalArguments) \cup {ctx.retained[position]}
          ELSE Elements(formalArguments)
    <3>1. formalArguments' = IF ctx.retained[position].arg # 0
                             THEN Append(formalArguments, ctx.retained[position])
                             ELSE formalArguments
      BY <1>5 DEF Retain, IsParameter
    <3>2. Elements(Append(formalArguments, ctx.retained[position])) =
            Elements(formalArguments) \cup {ctx.retained[position]}
      BY AppendElements DEF Typed
    <3>. QED
      BY <3>1, <3>2
  <2>4. /\ RecordedUpTo(Len(ctx.instructions) + 1)' = RecordedUpTo(Len(ctx.instructions) + 1)
        /\ RetainedUpTo(position)' = RetainedUpTo(position + 1)
    BY <2>1 DEF RecordedUpTo, RecordedAt, Recorded, RetainedUpTo
  <2>5. Elements(formalArguments)' = Elements(formalArguments')
    BY DEF Elements
  <2>. QED
    BY <2>1, <2>2, <2>3, <2>4, <2>5 DEF FormalsInvariant
<1>6. CASE EndRetained
  <2>1. Elements(formalArguments)' = Elements(formalArguments)
        /\ ctx' = ctx /\ Parameters' = Parameters
    BY <1>6 DEF EndRetained, Elements, Parameters
  <2>2. phase = "retained" /\ position = Len(ctx.retained) + 1
    BY <1>6 DEF EndRetained
  <2>3. Elements(formalArguments) = Parameters /\ ctx.subprogram
    BY <2>2, AllRecorded DEF FormalsInvariant
  <2>4. Agreeing' <=> Agreeing
    BY <1>6 DEF EndRetained, Agreeing, Elements
  <2>. QED
    BY <1>6, <2>1, <2>3, <2>4 DEF EndRetained, FormalsInvariant
<1>7. CASE NameFormal \/ Finish
  <2>1. /\ Elements(formalArguments)' = Elements(formalArguments) /\ ctx' = ctx
        /\ Parameters' = Parameters /\ (Agreeing' <=> Agreeing)
    BY <1>7 DEF NameFormal, Finish, Elements, Parameters, Agreeing
  <2>. QED
    BY <1>7, <2>1 DEF NameFormal, Finish, FormalsInvariant
<1>8. CASE UNCHANGED vars
  <2>1. /\ Elements(formalArguments)' = Elements(formalArguments) /\ ctx' = ctx /\ Seen' = Seen
        /\ Parameters' = Parameters /\ (Agreeing' <=> Agreeing)
        /\ phase' = phase /\ position' = position
    BY <1>8 DEF vars, Elements, Parameters, Agreeing, Seen
  <2>2. /\ RecordedUpTo(Seen)' = RecordedUpTo(Seen)
        /\ RecordedUpTo(Len(ctx.instructions) + 1)' = RecordedUpTo(Len(ctx.instructions) + 1)
        /\ RetainedUpTo(position)' = RetainedUpTo(position)
    BY <2>1 DEF RecordedUpTo, RecordedAt, Recorded, RetainedUpTo
  <2>. QED
    BY <2>1, <2>2 DEF FormalsInvariant
<1>. QED
  BY <1>1, <1>2, <1>3, <1>4, <1>5, <1>6, <1>7, <1>8 DEF Next

----------------------------------------------------------------------------
(* The names of variables, globals and functions so far.                   *)
Before(v) == {k \in AnnotationsOf(v) : k < Seen}

Tracked ==
  {x \in DOMAIN ctx.own : x[1] \in {"global", "function"}} \cup {Inst(k) : k \in Produced}

TextOf(k) == <<ctx.instructions[k].variable.text, ctx.instructions[k].suffix>>

NamedSoFar(v) ==
  IF v[1] = "function" \/ Before(v) = {}
  THEN name[v] = IF v \in Elements(variables) THEN OwnName(v) ELSE ctx.own[v]
  ELSE \E k \in Before(v) : (\A j \in Before(v) : j <= k) /\ name[v] = TextOf(k)

NamesInvariant == \A v \in Tracked : NamedSoFar(v)

LEMMA TrackedFacts ==
  ASSUME Typed
  PROVE  /\ \A v \in Tracked : v \in DOMAIN ctx.own /\ v[1] \in {"inst", "global", "function"}
         /\ \A v \in Tracked : \A k : v # <<"arg", k>>
<1>1. \A k \in Produced : Inst(k) \in DOMAIN ctx.own
  BY ContextFacts DEF Produced, WellFormed, Inst
<1>. QED
  BY <1>1 DEF Tracked, Inst

(* A step that changes no name of these and meets no annotation of them.   *)
LEMMA NamesKept ==
  ASSUME Typed, NamesInvariant, UNCHANGED <<ctx, variables>>,
         \A v \in Tracked : Before(v)' = Before(v) /\ name'[v] = name[v]
  PROVE  NamesInvariant'
<1>1. Tracked' = Tracked /\ (\A k : TextOf(k)' = TextOf(k)) /\ (\A v : OwnName(v)' = OwnName(v))
  BY DEF Tracked, Produced, TextOf, OwnName
<1>2. Elements(variables)' = Elements(variables)
  BY DEF Elements
<1>. QED
  BY <1>1, <1>2 DEF NamesInvariant, NamedSoFar

LEMMA NamesInit == Init => NamesInvariant
<1>. SUFFICES ASSUME Init, NEW v \in Tracked PROVE NamedSoFar(v)
  BY DEF NamesInvariant
<1>1. WellFormed(ctx)
  BY ContextsAssumption DEF Init
<1>2. DOMAIN ctx.instructions = 1 .. Len(ctx.instructions)
  BY <1>1 DEF WellFormed
<1>3. Before(v) = {}
  BY <1>2 DEF Init, Before, AnnotationsOf, Seen
<1>4. Elements(variables) = {}
  BY DEF Init, Elements
<1>. QED
  BY <1>3, <1>4 DEF NamedSoFar, Init

LEMMA NamesNext ==
  Typed /\ LocalsInvariant /\ FormalsInvariant /\ NamesInvariant /\ [Next]_vars => NamesInvariant'
<1>. SUFFICES ASSUME Typed, LocalsInvariant, FormalsInvariant, NamesInvariant, [Next]_vars
              PROVE  NamesInvariant'
  OBVIOUS
<1>0. \A v : \A k \in AnnotationsOf(v) : k \in 1 .. Len(ctx.instructions)
  BY ContextFacts DEF AnnotationsOf
<1>1. CASE AddArgument
  <2>1. \A v \in Tracked : Before(v)' = Before(v)
    BY <1>1 DEF AddArgument, Before, AnnotationsOf, Seen
  <2>2. "arg" # "" /\ name' = NameIfEmpty(<<"arg", position>>, "arg")
    BY <1>1 DEF AddArgument
  <2>3. \A v \in Tracked : name'[v] = name[v]
    BY <2>2, NameGiven, TrackedFacts
  <2>. QED
    BY <1>1, <2>1, <2>3, NamesKept DEF AddArgument
<1>2. CASE BeginBody \/ Retain \/ EndRetained \/ Finish
  <2>1. Seen' = Seen
    BY <1>2 DEF BeginBody, Retain, EndRetained, Finish, Seen
  <2>2. UNCHANGED <<ctx, variables, name>>
    BY <1>2 DEF BeginBody, Retain, EndRetained, Finish
  <2>3. \A v \in Tracked : Before(v)' = Before(v)
    BY <2>1, <2>2 DEF Before, AnnotationsOf
  <2>. QED
    BY <2>2, <2>3, NamesKept
<1>3. CASE SkipInlined \/ AddNothing
  <2>1. \A v : position \notin AnnotationsOf(v)
    BY <1>3 DEF SkipInlined, AddNothing, Skipped, Current, AnnotationsOf
  <2>2. UNCHANGED <<ctx, variables, name>> /\ Seen = position /\ Seen' = position + 1
    BY <1>3 DEF SkipInlined, AddNothing, InBody, Step, Seen
  <2>3. \A v \in Tracked : Before(v)' = Before(v)
    <3>1. \A v : Before(v)' = {k \in AnnotationsOf(v) : k < position + 1}
      BY <2>2 DEF Before, AnnotationsOf
    <3>2. position \in Nat
      BY DEF Typed
    <3>. QED
      BY <1>0, <2>1, <2>2, <3>1, <3>2 DEF Before
  <2>. QED
    BY <2>2, <2>3, NamesKept
<1>4. CASE AddVariable
  <2>1. \A v : position \notin AnnotationsOf(v)
    BY <1>4 DEF AddVariable, Current, AnnotationsOf
  <2>2. ctx' = ctx /\ Seen = position /\ Seen' = position + 1
    BY <1>4 DEF AddVariable, InBody, Step, Seen
  <2>3. \A v : Before(v)' = Before(v)
    <3>1. \A v : Before(v)' = {k \in AnnotationsOf(v) : k < position + 1}
      BY <2>2 DEF Before, AnnotationsOf
    <3>2. position \in Nat
      BY DEF Typed
    <3>. QED
      BY <1>0, <2>1, <2>2, <3>1, <3>2 DEF Before
  <2>4. position \in Produced
    BY <1>4 DEF AddVariable, InBody, Produced, Current
  <2>5. Before(Inst(position)) = {}
    <3>1. \A k \in AnnotationsOf(Inst(position)) : position < k
      BY <2>4, ContextFacts DEF AnnotationsOf, WellFormed, Produced, Inst
    <3>. QED
      BY <1>0, <2>2, <3>1 DEF Before, Typed
  <2>6. Inst(position) \notin Elements(variables)
    BY <2>2 DEF LocalsInvariant, Kept, Inst, Typed
  <2>7. name[Inst(position)] = ctx.own[Inst(position)]
    BY <2>4, <2>5, <2>6 DEF NamesInvariant, NamedSoFar, Tracked
  <2>8. Elements(variables)' = Elements(variables) \cup {Inst(position)}
    <3>1. Elements(Append(variables, Inst(position))) = Elements(variables) \cup {Inst(position)}
      BY AppendElements DEF Typed
    <3>. QED
      BY <1>4, <3>1 DEF AddVariable, Inst, Elements
  <2>9. PICK t : t \in {"local", "tmp"} /\ name' = NameIfEmpty(Inst(position), t)
                 /\ t = IF ctx.instructions[position].kind = "alloca" THEN "local" ELSE "tmp"
    BY <1>4 DEF AddVariable, Inst, Current
  <2>10. Inst(position) \in DOMAIN ctx.own
    BY <2>4, TrackedFacts DEF Tracked
  <2>11. name'[Inst(position)] = OwnName(Inst(position))
    <3>1. CASE name[Inst(position)] = NoName
      BY <2>7, <2>9, <2>10, <3>1, NameGiven DEF OwnName, Inst
    <3>2. CASE name[Inst(position)] # NoName
      BY <2>7, <2>9, <2>10, <3>2, NameGiven DEF OwnName
    <3>. QED
      BY <3>1, <3>2
  <2>12. \A v \in Tracked : v # Inst(position) => name'[v] = name[v]
    <3>1. t # ""
      BY <2>9
    <3>2. \A v \in DOMAIN ctx.own : v # Inst(position) => name'[v] = name[v]
      BY <2>9, <3>1, NameGiven
    <3>3. \A v \in Tracked : v \in DOMAIN ctx.own
      BY TrackedFacts
    <3>. QED
      BY <3>2, <3>3
  <2>13. /\ Tracked' = Tracked /\ (\A k : TextOf(k)' = TextOf(k))
         /\ \A v : OwnName(v)' = OwnName(v)
    BY <2>2 DEF Tracked, Produced, TextOf, OwnName
  <2>14. ASSUME NEW v \in Tracked PROVE NamedSoFar(v)'
    <3>1. CASE v = Inst(position)
      BY <2>2, <2>3, <2>5, <2>8, <2>11, <2>13, <3>1 DEF NamedSoFar
    <3>2. CASE v # Inst(position)
      <4>1. NamedSoFar(v) /\ name'[v] = name[v]
        BY <2>12, <3>2 DEF NamesInvariant
      <4>. QED
        BY <2>2, <2>3, <2>8, <2>13, <3>2, <4>1 DEF NamedSoFar
    <3>. QED
      BY <3>1, <3>2
  <2>. QED
    BY <2>13, <2>14 DEF NamesInvariant
<1>5. CASE DebugName
  <2>1. UNCHANGED <<ctx, variables>> /\ Seen = position /\ Seen' = position + 1
    BY <1>5 DEF DebugName, InBody, Step, Seen
  <2>0. PICK r : r = Current.ref
    OBVIOUS
  <2>2. \A v : position \in AnnotationsOf(v) <=> v = Current.ref
    BY <1>5 DEF DebugName, InBody, Current, AnnotationsOf
  <2>10. \A v : Before(v)' = {k \in AnnotationsOf(v) : k < position + 1}
    BY <2>1 DEF Before, AnnotationsOf
  <2>11. position \in Nat
    BY DEF Typed
  <2>3. \A v : v # Current.ref => Before(v)' = Before(v)
    BY <1>0, <2>1, <2>2, <2>10, <2>11 DEF Before
  <2>4. Before(r)' = Before(r) \cup {position}
    BY <1>0, <2>0, <2>1, <2>2, <2>10, <2>11 DEF Before
  <2>5. name' = name \/ name' = SetName(Current.ref, Current.variable.text, Current.suffix)
    BY <1>5 DEF DebugName
  <2>6. \A v \in Tracked : v # Current.ref => name'[v] = name[v]
    BY <2>5, NameSet, TrackedFacts
  <2>7. /\ Tracked' = Tracked /\ (\A k : TextOf(k)' = TextOf(k))
        /\ \A v : OwnName(v)' = OwnName(v)
    BY <2>1 DEF Tracked, Produced, TextOf, OwnName
  <2>8. Elements(variables)' = Elements(variables)
    BY <2>1 DEF Elements
  <2>9. ASSUME NEW v \in Tracked PROVE NamedSoFar(v)'
    <3>0. NamedSoFar(v)
      BY DEF NamesInvariant
    <3>1. CASE v # Current.ref
      BY <2>1, <2>3, <2>6, <2>7, <2>8, <3>0, <3>1 DEF NamedSoFar
    <3>2. CASE v = Current.ref /\ v[1] = "function"
      <4>1. name' = name
        BY <1>5, <3>2 DEF DebugName, Renamed
      <4>. QED
        BY <2>1, <2>7, <2>8, <3>0, <3>2, <4>1 DEF NamedSoFar
    <3>3. CASE v = Current.ref /\ v[1] # "function"
      <4>1. name' = SetName(v, Current.variable.text, Current.suffix)
        BY <1>5, <3>3, TrackedFacts DEF DebugName, Renamed
      <4>2. name'[v] = TextOf(position)
        BY <4>1, NameSet, TrackedFacts DEF TextOf, Current
      <4>3. \A j \in Before(v)' : j <= position
        BY <1>0, <2>10, <2>11
      <4>4. position \in Before(v)'
        BY <2>0, <2>4, <3>3
      <4>. QED
        BY <2>7, <3>3, <4>2, <4>3, <4>4 DEF NamedSoFar
    <3>. QED
      BY <3>1, <3>2, <3>3
  <2>. QED
    BY <2>7, <2>9 DEF NamesInvariant
<1>6. CASE EndBody
  <2>1. UNCHANGED <<ctx, variables, name>> /\ Seen' = Seen
    BY <1>6 DEF EndBody, Seen
  <2>2. \A v \in Tracked : Before(v)' = Before(v)
    BY <2>1 DEF Before, AnnotationsOf
  <2>. QED
    BY <2>1, <2>2, NamesKept
<1>7. CASE NameFormal
  <2>1. UNCHANGED <<ctx, variables>> /\ Seen' = Seen
    BY <1>7 DEF NameFormal, Seen
  <2>2. \A v \in Tracked : Before(v)' = Before(v)
    BY <2>1 DEF Before, AnnotationsOf
  <2>3. PICK a, t : name' = SetName(<<"arg", a>>, t, ".arg")
    <3>1. formalArguments[position].arg \in DOMAIN arguments
      BY <1>7 DEF NameFormal, FormalsInvariant, Agreeing, Elements
    <3>2. arguments[formalArguments[position].arg] = <<"arg", formalArguments[position].arg>>
      BY <1>7, <3>1 DEF NameFormal, Typed
    <3>. QED
      BY <1>7, <3>2 DEF NameFormal
  <2>4. \A v \in Tracked : name'[v] = name[v]
    BY <2>3, NameSet, TrackedFacts
  <2>. QED
    BY <2>1, <2>2, <2>4, NamesKept
<1>8. CASE UNCHANGED vars
  <2>1. UNCHANGED <<ctx, variables, name>> /\ Seen' = Seen
    BY <1>8 DEF vars, Seen
  <2>2. \A v \in Tracked : Before(v)' = Before(v)
    BY <2>1 DEF Before, AnnotationsOf
  <2>. QED
    BY <2>1, <2>2, NamesKept
<1>. QED
  BY <1>1, <1>2, <1>3, <1>4, <1>5, <1>6, <1>7, <1>8 DEF Next

----------------------------------------------------------------------------
(* The names of the arguments so far.                                      *)
NotInlinedInto == \A v \in Parameters : v.scope = "this"

ArgumentsInvariant ==
  /\ phase \in {"arguments", "body", "retained"} =>
       \A k \in 1 .. ctx.arguments : name[<<"arg", k>>][2] # ".arg"
  /\ phase = "formals" /\ NotInlinedInto =>
       \A j \in 1 .. position - 1 :
         name[<<"arg", formalArguments[j].arg>>] = <<formalArguments[j].text, ".arg">>
  /\ AllParametersOrNone

LEMMA ArgumentsInit == Init => ArgumentsInvariant
<1>. SUFFICES ASSUME Init PROVE ArgumentsInvariant
  OBVIOUS
<1>1. WellFormed(ctx)
  BY ContextsAssumption DEF Init
<1>. QED
  BY <1>1 DEF Init, ArgumentsInvariant, AllParametersOrNone, WellFormed

LEMMA ArgumentFacts ==
  ASSUME Typed
  PROVE  \A k \in 1 .. ctx.arguments : <<"arg", k>> \in DOMAIN ctx.own
  BY ContextFacts DEF WellFormed

(* A parameter of this function has one name.                              *)
LEMMA OneText ==
  ASSUME Typed, FormalsInvariant, phase = "formals", NotInlinedInto
  PROVE  \A j, k \in DOMAIN formalArguments :
           formalArguments[j].arg = formalArguments[k].arg =>
             formalArguments[j] = formalArguments[k]
<1>1. \A j \in DOMAIN formalArguments : formalArguments[j] \in Parameters
  BY DEF FormalsInvariant, Elements
<1>2. \A u \in Parameters : u \in Described(ctx) /\ u.arg # 0 /\ u.scope = "this"
  BY DEF NotInlinedInto, Parameters, Described, Elements
<1>3. \A u, v \in Described(ctx) : u.scope = v.scope /\ u.arg = v.arg /\ u.arg # 0 => u = v
  BY ContextFacts DEF WellFormed
<1>. QED
  BY <1>1, <1>2, <1>3

(* Names with another suffix than ".arg" leave the arguments without it.   *)
LEMMA NoArgumentNames ==
  ASSUME NEW t, NEW x, x # ".arg", Typed,
         \A w \in DOMAIN ctx.own : name'[w] = name[w] \/ name'[w] = <<t, x>>,
         \A k \in 1 .. ctx.arguments : name[<<"arg", k>>][2] # ".arg"
  PROVE  \A k \in 1 .. ctx.arguments : name'[<<"arg", k>>][2] # ".arg"
<1>. TAKE k \in 1 .. ctx.arguments
<1>1. <<"arg", k>> \in DOMAIN ctx.own
  BY ArgumentFacts
<1>2. CASE name'[<<"arg", k>>] = name[<<"arg", k>>]
  BY <1>2
<1>3. CASE name'[<<"arg", k>>] = <<t, x>>
  <2>1. <<t, x>>[2] = x
    OBVIOUS
  <2>. QED
    BY <1>3, <2>1
<1>. QED
  BY <1>1, <1>2, <1>3

LEMMA ArgumentsNext ==
  Typed /\ FormalsInvariant /\ ArgumentsInvariant /\ [Next]_vars => ArgumentsInvariant'
<1>. SUFFICES ASSUME Typed, FormalsInvariant, ArgumentsInvariant, [Next]_vars
              PROVE  ArgumentsInvariant'
  OBVIOUS
<1>0. ctx' = ctx => (NotInlinedInto' <=> NotInlinedInto) /\ Parameters' = Parameters
  BY DEF NotInlinedInto, Parameters, Elements
<1>1. CASE AddArgument
  <2>1. "arg" # "" /\ name' = NameIfEmpty(<<"arg", position>>, "arg")
    BY <1>1 DEF AddArgument
  <2>2. \A w \in DOMAIN ctx.own : name'[w] = name[w] \/ name'[w] = <<"arg", "">>
    BY <2>1, NameGiven
  <2>3. \A k \in 1 .. ctx.arguments : name[<<"arg", k>>][2] # ".arg"
    BY <1>1 DEF AddArgument, ArgumentsInvariant
  <2>4. \A k \in 1 .. ctx.arguments : name'[<<"arg", k>>][2] # ".arg"
    <3>1. "" # ".arg"
      OBVIOUS
    <3>. QED
      BY <2>2, <2>3, <3>1, NoArgumentNames
  <2>. QED
    BY <1>1, <2>4 DEF AddArgument, ArgumentsInvariant, AllParametersOrNone
<1>2. CASE BeginBody \/ SkipInlined \/ AddNothing \/ Retain
  BY <1>2 DEF BeginBody, SkipInlined, AddNothing, InBody, Step, Retain, ArgumentsInvariant,
              AllParametersOrNone
<1>3. CASE AddVariable
  <2>1. PICK t : t \in {"local", "tmp"} /\ name' = NameIfEmpty(Inst(position), t)
    BY <1>3 DEF AddVariable, Inst
  <2>2. t # ""
    BY <2>1
  <2>3. \A k \in 1 .. ctx.arguments : <<"arg", k>> # Inst(position)
    BY DEF Inst
  <2>4. \A k \in 1 .. ctx.arguments : name'[<<"arg", k>>] = name[<<"arg", k>>]
    BY <2>1, <2>2, <2>3, NameGiven, ArgumentFacts
  <2>. QED
    BY <1>3, <2>4 DEF AddVariable, InBody, Step, ArgumentsInvariant, AllParametersOrNone
<1>4. CASE DebugName
  <2>1. name' = name \/ name' = SetName(Current.ref, Current.variable.text, Current.suffix)
    BY <1>4 DEF DebugName
  <2>2. Current.suffix # ".arg"
    BY <1>4, ContextFacts DEF DebugName, InBody, Current, WellFormed
  <2>3. \A k \in 1 .. ctx.arguments : name[<<"arg", k>>][2] # ".arg"
    BY <1>4 DEF DebugName, InBody, ArgumentsInvariant
  <2>4. \A k \in 1 .. ctx.arguments : name'[<<"arg", k>>][2] # ".arg"
    <3>1. CASE name' = name
      BY <2>3, <3>1
    <3>2. CASE name' = SetName(Current.ref, Current.variable.text, Current.suffix)
      <4>1. \A w \in DOMAIN ctx.own :
              name'[w] = name[w] \/ name'[w] = <<Current.variable.text, Current.suffix>>
        BY <3>2, NameSet
      <4>. QED
        BY <2>2, <2>3, <4>1, NoArgumentNames
    <3>. QED
      BY <2>1, <3>1, <3>2
  <2>. QED
    BY <1>4, <2>4 DEF DebugName, InBody, Step, ArgumentsInvariant, AllParametersOrNone
<1>5. CASE EndBody
  <2>1. \A k \in 1 .. ctx.arguments : name[<<"arg", k>>][2] # ".arg"
    BY <1>5 DEF EndBody, ArgumentsInvariant
  <2>. QED
    BY <1>5, <2>1 DEF EndBody, ArgumentsInvariant, AllParametersOrNone
<1>6. CASE EndRetained
  <2>1. \A k \in 1 .. ctx.arguments : name[<<"arg", k>>][2] # ".arg"
    BY <1>6 DEF EndRetained, ArgumentsInvariant
  <2>2. Elements(formalArguments) = Parameters
    BY <1>6, AllRecorded DEF EndRetained, FormalsInvariant
  <2>3. Agreeing <=> \A v \in Parameters : v.arg \in 1 .. ctx.arguments
    BY <1>6, <2>2 DEF EndRetained, Agreeing, Typed
  <2>4. position' = 1 /\ ctx' = ctx /\ name' = name
        /\ phase' = IF Agreeing THEN "formals" ELSE "done"
    BY <1>6 DEF EndRetained
  <2>. QED
    BY <1>0, <2>1, <2>3, <2>4 DEF ArgumentsInvariant, AllParametersOrNone
<1>7. CASE NameFormal
  <2>1. PICK f : f = formalArguments[position]
    OBVIOUS
  <2>2. position \in DOMAIN formalArguments /\ phase = "formals" /\ phase' = "formals"
        /\ ctx' = ctx /\ formalArguments' = formalArguments /\ position' = position + 1
    BY <1>7 DEF NameFormal
  <2>3. f.arg \in 1 .. ctx.arguments /\ arguments[f.arg] = <<"arg", f.arg>>
    BY <2>1, <2>2 DEF FormalsInvariant, Agreeing, Elements, Typed
  <2>4. name' = SetName(<<"arg", f.arg>>, f.text, ".arg")
    BY <1>7, <2>1, <2>3 DEF NameFormal
  <2>5. \A w \in DOMAIN ctx.own :
          /\ w = <<"arg", f.arg>> => name'[w] = <<f.text, ".arg">>
          /\ w # <<"arg", f.arg>> => name'[w] = name[w]
    BY <2>4, NameSet
  <2>6. ASSUME NotInlinedInto, NEW j \in 1 .. position
        PROVE  name'[<<"arg", formalArguments[j].arg>>] = <<formalArguments[j].text, ".arg">>
    <3>0. j \in DOMAIN formalArguments
      BY <2>2, ContextFacts DEF Typed
    <3>1. formalArguments[j].arg \in 1 .. ctx.arguments
      BY <2>2, <3>0 DEF FormalsInvariant, Agreeing, Elements, Typed
    <3>2. CASE formalArguments[j].arg = f.arg
      <4>1. formalArguments[j] = f
        BY <2>1, <2>2, <2>6, <3>0, <3>2, OneText
      <4>. QED
        BY <2>5, <3>1, <4>1, ArgumentFacts
    <3>3. CASE formalArguments[j].arg # f.arg
      <4>1. j \in 1 .. position - 1
        BY <2>1, <3>3 DEF Typed
      <4>2. name[<<"arg", formalArguments[j].arg>>] = <<formalArguments[j].text, ".arg">>
        BY <2>2, <2>6, <4>1 DEF ArgumentsInvariant
      <4>3. <<"arg", formalArguments[j].arg>> # <<"arg", f.arg>>
        BY <3>3
      <4>4. <<"arg", formalArguments[j].arg>> \in DOMAIN ctx.own
        BY <3>1, ArgumentFacts
      <4>. QED
        BY <2>5, <4>2, <4>3, <4>4
    <3>. QED
      BY <3>2, <3>3
  <2>7. position' - 1 = position
    BY <2>2 DEF Typed
  <2>. QED
    BY <1>0, <2>2, <2>6, <2>7 DEF ArgumentsInvariant, AllParametersOrNone
<1>8. CASE Finish
  <2>1. /\ ctx' = ctx /\ name' = name /\ phase' = "done" /\ phase = "formals"
        /\ position = Len(formalArguments) + 1
    BY <1>8 DEF Finish
  <2>2. ctx.subprogram /\ Elements(formalArguments) = Parameters /\ Agreeing
    BY <2>1 DEF FormalsInvariant
  <2>3. \A v \in Parameters : v.arg \in 1 .. ctx.arguments
    BY <2>1, <2>2 DEF Agreeing, Typed
  <2>4. ASSUME NotInlinedInto, NEW v \in Parameters
        PROVE  name[<<"arg", v.arg>>] = <<v.text, ".arg">>
    <3>1. PICK j \in DOMAIN formalArguments : v = formalArguments[j]
      BY <2>2 DEF Elements
    <3>2. j \in 1 .. position - 1
      BY <2>1, <3>1, ContextFacts
    <3>. QED
      BY <2>1, <2>4, <3>1, <3>2 DEF ArgumentsInvariant
  <2>. QED
    BY <1>0, <2>1, <2>2, <2>3, <2>4 DEF ArgumentsInvariant, AllParametersOrNone, NotInlinedInto
<1>9. CASE UNCHANGED vars
  BY <1>0, <1>9 DEF vars, ArgumentsInvariant, AllParametersOrNone, NotInlinedInto
<1>. QED
  BY <1>1, <1>2, <1>3, <1>4, <1>5, <1>6, <1>7, <1>8, <1>9 DEF Next

----------------------------------------------------------------------------
(* The locals are the values that no expression contains, each once and    *)
(* with a name, in every function.                                         *)
THEOREM LocalsAreRight == Spec => []VariablesAreTheLocals
<1>1. Typed /\ LocalsInvariant => VariablesAreTheLocals
  <2>. SUFFICES ASSUME Typed, LocalsInvariant, phase = "done" PROVE VariablesAreTheLocals
    BY DEF VariablesAreTheLocals
  <2>1. \A k \in Produced : k < Seen
    BY ContextFacts DEF Produced, Seen
  <2>2. Kept(Seen) = {j \in Produced : ~ctx.instructions[j].inlined}
    BY <2>1 DEF Kept
  <2>. QED
    BY <2>2 DEF LocalsInvariant, VariablesAreTheLocals, Inst, Unnamed
<1>. QED
  BY <1>1, TypedInit, TypedNext, LocalsInit, LocalsNext, PTL DEF Spec

(* A variable or a global is called what its last annotation says, and     *)
(* what it was, or a made-up name, without one.                            *)
THEOREM LatestNames == Spec => []LatestNameWins
<1>1. Typed /\ LocalsInvariant /\ NamesInvariant => LatestNameWins
  <2>. SUFFICES ASSUME Typed, LocalsInvariant, NamesInvariant, phase = "done",
                       NEW v \in Elements(variables)
                                   \cup {x \in DOMAIN name : x[1] \in {"global", "function"}}
                PROVE  IF v[1] = "function" \/ AnnotationsOf(v) = {} THEN name[v] = OwnName(v)
                       ELSE \E k \in AnnotationsOf(v) :
                              (\A j \in AnnotationsOf(v) : j <= k) /\ name[v] = TextOf(k)
    BY DEF LatestNameWins, TextOf
  <2>1. DOMAIN name = DOMAIN ctx.own
    BY DEF Typed, NamesOf
  <2>2. v \in Tracked
    BY <2>1 DEF LocalsInvariant, Kept, Tracked
  <2>3. Before(v) = AnnotationsOf(v)
    BY ContextFacts DEF Before, AnnotationsOf, Seen
  <2>4. v \notin Elements(variables) => OwnName(v) = ctx.own[v]
    BY DEF OwnName
  <2>. QED
    BY <2>2, <2>3, <2>4 DEF NamesInvariant, NamedSoFar
<1>. QED
  BY <1>1, TypedInit, TypedNext, LocalsInit, LocalsNext, FormalsInit, FormalsNext,
     NamesInit, NamesNext, PTL DEF Spec

(* Every parameter names its argument, or none does.                       *)
THEOREM ParametersAgree == Spec => []AllParametersOrNone
<1>1. ArgumentsInvariant => AllParametersOrNone
  BY DEF ArgumentsInvariant
<1>. QED
  BY <1>1, TypedInit, TypedNext, FormalsInit, FormalsNext, ArgumentsInit, ArgumentsNext,
     PTL DEF Spec

=============================================================================
