---------------------------- MODULE DriverProofs ----------------------------
(***************************************************************************)
(* Proofs about Driver, for every set of well-formed jobs: what the        *)
(* archive and the contexts are, whatever fails and whenever files go.     *)
(***************************************************************************)
EXTENDS Driver, TLAPS, WellFoundedInduction

----------------------------------------------------------------------------
(* The least of some numbers, and the first of some modules.               *)
NatOrder == {ss \in Nat \X Nat : ss[1] < ss[2]}

LEMMA NatOrderWellFounded == IsWellFoundedOn(NatOrder, Nat)
<1>1. OpToRel(<, Nat) = NatOrder
  BY Zenon DEF OpToRel, NatOrder
<1>. QED
  BY <1>1, NatLessThanWellFounded

LEMMA LowestOf ==
  ASSUME NEW S, S \subseteq Nat, S # {}
  PROVE  Lowest(S) \in S /\ \A q \in S : Lowest(S) <= q
<1>1. PICK p \in S : \A q \in S : ~ (<<q, p>> \in NatOrder)
  BY NatOrderWellFounded, WFMin
<1>2. ASSUME NEW q \in S PROVE p <= q
  <2>1. p \in Nat /\ q \in Nat /\ <<q, p>> \notin NatOrder
    BY <1>1
  <2>2. <<q, p>> \in Nat \X Nat /\ <<q, p>>[1] = q /\ <<q, p>>[2] = p
    BY <2>1
  <2>3. ~(q < p)
    BY <2>1, <2>2 DEF NatOrder
  <2>. QED
    BY <2>1, <2>3
<1>. QED
  BY <1>2 DEF Lowest

----------------------------------------------------------------------------
(* Sequences.                                                              *)
LEMMA RangeFacts ==
  ASSUME NEW S, NEW s \in Seq(S)
  PROVE  s \in Seq(RangeOf(s)) /\ RangeOf(s) \subseteq S /\ DOMAIN s = 1 .. Len(s)
  BY DEF RangeOf

LEMMA HeadFacts ==
  ASSUME NEW S, NEW s \in Seq(S), s # <<>>
  PROVE  /\ Head(s) \in S /\ Tail(s) \in Seq(S)
         /\ RangeOf(s) = {Head(s)} \cup RangeOf(Tail(s))
<1>1. s = [i \in 1 .. Len(s) |-> s[i]] /\ Len(s) \in Nat /\ Len(s) # 0
  OBVIOUS
<1>2. Tail(s) \in Seq(S) /\ Len(Tail(s)) = Len(s) - 1
      /\ \A i \in 1 .. Len(s) - 1 : Tail(s)[i] = s[i + 1]
  BY <1>1
<1>3. Head(s) = s[1] /\ s[1] \in S
  BY <1>1
<1>4. DOMAIN s = 1 .. Len(s) /\ DOMAIN Tail(s) = 1 .. Len(s) - 1
  BY <1>2
<1>5. \A i \in 1 .. Len(s) : i = 1 \/ (i - 1 \in 1 .. Len(s) - 1 /\ s[i] = Tail(s)[i - 1])
  BY <1>1, <1>2
<1>6. \A i \in 1 .. Len(s) - 1 : i + 1 \in 1 .. Len(s) /\ Tail(s)[i] = s[i + 1]
  BY <1>1, <1>2
<1>. QED
  BY <1>1, <1>2, <1>3, <1>4, <1>5, <1>6 DEF RangeOf

LEMMA ConcatFacts ==
  ASSUME NEW S, NEW s \in Seq(S), NEW t \in Seq(S)
  PROVE  /\ s \o t \in Seq(S) /\ Len(s \o t) = Len(s) + Len(t)
         /\ DOMAIN (s \o t) = 1 .. Len(s) + Len(t)
         /\ \A i \in 1 .. Len(s) : (s \o t)[i] = s[i]
         /\ \A i \in 1 .. Len(t) : (s \o t)[Len(s) + i] = t[i]
         /\ RangeOf(s \o t) = RangeOf(s) \cup RangeOf(t)
<1>1. /\ s \o t \in Seq(S) /\ Len(s \o t) = Len(s) + Len(t)
      /\ Len(s) \in Nat /\ Len(t) \in Nat
      /\ DOMAIN s = 1 .. Len(s) /\ DOMAIN t = 1 .. Len(t)
  OBVIOUS
<1>2. DOMAIN (s \o t) = 1 .. Len(s) + Len(t)
  BY <1>1
<1>3. \A i \in 1 .. Len(s) : (s \o t)[i] = s[i]
  OBVIOUS
<1>4. \A i \in 1 .. Len(t) : (s \o t)[Len(s) + i] = t[i]
  OBVIOUS
<1>5. \A i \in 1 .. Len(s) + Len(t) :
        i \in 1 .. Len(s) \/ (i - Len(s) \in 1 .. Len(t) /\ i = Len(s) + (i - Len(s)))
  BY <1>1
<1>6. ASSUME NEW e PROVE e \in RangeOf(s \o t) <=> e \in RangeOf(s) \cup RangeOf(t)
  <2>1. e \in RangeOf(s \o t) <=> \E i \in 1 .. Len(s) + Len(t) : e = (s \o t)[i]
    BY <1>2 DEF RangeOf
  <2>2. e \in RangeOf(s) <=> \E i \in 1 .. Len(s) : e = s[i]
    BY <1>1 DEF RangeOf
  <2>3. e \in RangeOf(t) <=> \E i \in 1 .. Len(t) : e = t[i]
    BY <1>1 DEF RangeOf
  <2>4. \A i \in 1 .. Len(s) : i \in 1 .. Len(s) + Len(t)
    BY <1>1
  <2>5. \A i \in 1 .. Len(t) : Len(s) + i \in 1 .. Len(s) + Len(t)
    BY <1>1
  <2>. QED
    BY <2>1, <2>2, <2>3, <2>4, <2>5, <1>3, <1>4, <1>5
<1>. QED
  BY <1>1, <1>2, <1>3, <1>4, <1>6

LEMMA ShortFacts ==
  ASSUME NEW S, NEW e \in S
  PROVE  /\ <<e>> \in Seq(S) /\ Len(<<e>>) = 1 /\ <<e>>[1] = e /\ RangeOf(<<e>>) = {e}
         /\ <<>> \in Seq(S) /\ Len(<<>>) = 0 /\ RangeOf(<<>>) = {}
  BY DEF RangeOf

LEMMA SingleRange ==
  ASSUME NEW e
  PROVE  RangeOf(<<e>>) = {e}
  BY DEF RangeOf

LEMMA AppendRange ==
  ASSUME NEW S, NEW s \in Seq(S), NEW e \in S
  PROVE  RangeOf(s \o <<e>>) = RangeOf(s) \cup {e}
<1>. DEFINE t == <<e>>
<1>1. t \in Seq(S) /\ RangeOf(t) = {e}
  BY ShortFacts, SingleRange
<1>. HIDE DEF t
<1>2. RangeOf(s \o t) = RangeOf(s) \cup RangeOf(t)
  BY <1>1, ConcatFacts
<1>. QED
  BY <1>1, <1>2 DEF t

LEMMA SequenceFacts ==
  ASSUME NEW S, NEW s \in Seq(S), NEW e
  PROVE  /\ Append(s, e) = s \o <<e>> /\ s \o <<>> = s
         /\ DropContext(Append(s, e)) = s
<1>. DEFINE T == S \cup {e}
<1>1. s \in Seq(T) /\ e \in T
  OBVIOUS
<1>2. s = [i \in 1 .. Len(s) |-> s[i]] /\ Len(s) \in Nat
  OBVIOUS
<1>3. Append(s, e) = s \o <<e>> /\ s \o <<>> = s
  BY <1>1, <1>2
<1>4. Append(s, e) \in Seq(T) /\ Len(Append(s, e)) = Len(s) + 1
  BY <1>1
<1>5. SubSeq(Append(s, e), 1, Len(s)) = s
  BY <1>1, <1>2, <1>4
<1>. QED
  BY <1>2, <1>3, <1>4, <1>5 DEF DropContext

----------------------------------------------------------------------------
(* What the jobs are.                                                      *)
Inputs == {f \in FilesGiven : IsInput(job.file[f])}

ArchitecturesOf(f) ==
  {job.file[f].slices[s].arch : s \in {t \in DOMAIN job.file[f].slices :
                                         job.file[f].slices[t].embedded}}

(* The embedded files of f, those that are skipped included.               *)
Embeds(f) ==
  {id \in FileIds(f) : /\ job.file[f].slices[id[2]].embedded
                       /\ job.file[f].slices[id[2]].arch = Lowest(ArchitecturesOf(f))}

LEMMA JobFacts ==
  ASSUME job \in Jobs
  PROVE  /\ job.strict \in BOOLEAN
         /\ job.arguments \in Seq(RangeOf(job.arguments))
         /\ \A a \in RangeOf(job.arguments) : a.names \in Seq(NamesGiven)
         /\ NamesGiven \subseteq DOMAIN job.real
         /\ FilesGiven \subseteq DOMAIN job.file
         /\ DOMAIN job.file \subseteq DOMAIN job.real
         /\ \A f \in DOMAIN job.file : f \in Nat /\ f # 0 /\ job.real[f] = f
         /\ \A n \in NamesGiven : job.real[n] \in FilesGiven
         /\ \A f \in DOMAIN job.file : ContentWellFormed(job.file[f])
<1>1. WellFormed(job)
  BY JobsAssumption
<1>2. \A a \in RangeOf(job.arguments) :
        RangeOf(a.names) \subseteq NamesGiven /\ RangeOf(a.names) \subseteq DOMAIN job.real
  BY <1>1, RangeFacts DEF WellFormed, NamesGiven
<1>3. ASSUME NEW a \in RangeOf(job.arguments) PROVE a.names \in Seq(NamesGiven)
  <2>1. a.names \in Seq(RangeOf(a.names))
    BY <1>1, RangeFacts DEF WellFormed
  <2>. QED
    BY <2>1, <1>2
<1>4. NamesGiven \subseteq DOMAIN job.real
  BY <1>2 DEF NamesGiven
<1>. QED
  BY <1>1, <1>3, <1>4 DEF WellFormed, FilesGiven

LEMMA IdFacts ==
  ASSUME NEW f, NEW id \in FileIds(f), job \in Jobs, f \in DOMAIN job.file
  PROVE  /\ id = <<f, id[2], id[3]>> /\ id[1] = f /\ id[2] \in Nat /\ id[3] \in Nat
         /\ id # NoModule /\ id \in Ids
         /\ id[2] \in DOMAIN job.file[f].slices
         /\ id[3] \in DOMAIN job.file[f].slices[id[2]].modules
<1>1. WellFormed(job)
  BY JobsAssumption
<1>2. PICK s \in DOMAIN job.file[f].slices :
        \E m \in DOMAIN job.file[f].slices[s].modules : id = <<f, s, m>>
  BY DEF FileIds
<1>3. PICK m \in DOMAIN job.file[f].slices[s].modules : id = <<f, s, m>>
  BY <1>2
<1>4. s \in Nat /\ m \in Nat
  BY <1>1, RangeFacts DEF WellFormed
<1>5. id[1] = f /\ id[2] = s /\ id[3] = m
  BY <1>3
<1>6. id # NoModule
  BY <1>3 DEF NoModule
<1>. QED
  BY <1>3, <1>4, <1>5, <1>6 DEF Ids

LEMMA BeforeFacts ==
  ASSUME NEW a, NEW b, NEW c, a[1] \in Nat, a[2] \in Nat, a[3] \in Nat,
         b[1] \in Nat, b[2] \in Nat, b[3] \in Nat, c[1] \in Nat, c[2] \in Nat, c[3] \in Nat
  PROVE  /\ a[1] < b[1] => Before(a, b)
         /\ Before(a, b) => a # b /\ a[1] <= b[1]
         /\ Before(a, b) /\ Before(b, c) => Before(a, c)
  BY DEF Before

LEMMA FirstOf ==
  ASSUME NEW f, NEW S, S \subseteq FileIds(f), S # {}, job \in Jobs, f \in DOMAIN job.file
  PROVE  First(S) \in S /\ \A b \in S \ {First(S)} : Before(First(S), b)
<1>1. \A id \in S : id = <<f, id[2], id[3]>> /\ id[1] = f /\ id[2] \in Nat /\ id[3] \in Nat
  BY IdFacts
<1>. DEFINE T == {id[2] : id \in S}
<1>2. T \subseteq Nat /\ T # {}
  BY <1>1
<1>3. Lowest(T) \in T /\ \A q \in T : Lowest(T) <= q
  BY <1>2, LowestOf
<1>. DEFINE U == {id[3] : id \in {x \in S : x[2] = Lowest(T)}}
<1>4. U \subseteq Nat /\ U # {}
  BY <1>1, <1>3
<1>5. Lowest(U) \in U /\ \A q \in U : Lowest(U) <= q
  BY <1>4, LowestOf
<1>6. PICK a \in S : a[2] = Lowest(T) /\ a[3] = Lowest(U)
  BY <1>5
<1>7. ASSUME NEW b \in S \ {a} PROVE Before(a, b)
  <2>1. a[1] = b[1] /\ a[2] <= b[2] /\ a[2] \in Nat /\ b[2] \in Nat /\ a[3] \in Nat /\ b[3] \in Nat
    BY <1>1, <1>3, <1>6
  <2>2. a[2] = b[2] => a[3] <= b[3]
    BY <1>5, <1>6
  <2>3. a[2] = b[2] => a[3] # b[3]
    <3>1. a = <<f, a[2], a[3]>> /\ b = <<f, b[2], b[3]>>
      BY <1>1
    <3>. QED
      BY <3>1
  <2>. QED
    BY <2>1, <2>2, <2>3 DEF Before
<1>. QED
  BY <1>7 DEF First

(* What a file offers is what is embedded in it and not skipped.           *)
LEMMA OffersOf ==
  ASSUME NEW f \in Inputs
  PROVE  Offers(f) = {id \in Embeds(f) : Kind(id) # "skipped"}
  BY DEF Offers, Embeds, Inputs, IsInput, ArchitecturesOf

LEMMA NoOffers ==
  ASSUME NEW f \in FilesGiven \ Inputs
  PROVE  Offers(f) = {}
  BY DEF Offers, Inputs, IsInput

LEMMA OneOffer ==
  ASSUME NEW f \in Inputs, job \in Jobs, job.file[f].type \in {"bitcode", "ir"}
  PROVE  Offers(f) = {<<f, 1, 1>>} /\ <<f, 1, 1>> \in FileIds(f)
<1>1. f \in DOMAIN job.file /\ ContentWellFormed(job.file[f])
  BY JobFacts DEF Inputs
<1>2. /\ DOMAIN job.file[f].slices = {1} /\ DOMAIN job.file[f].slices[1].modules = {1}
      /\ job.file[f].slices[1].embedded /\ job.file[f].slices[1].modules[1] # "skipped"
      /\ job.file[f].slices[1].arch \in Nat
  BY <1>1 DEF ContentWellFormed
<1>3. FileIds(f) = {<<f, 1, 1>>}
  BY <1>2 DEF FileIds
<1>4. ArchitecturesOf(f) = {job.file[f].slices[1].arch}
  BY <1>2 DEF ArchitecturesOf
<1>5. Lowest(ArchitecturesOf(f)) = job.file[f].slices[1].arch
  BY <1>2, <1>4, LowestOf
<1>6. <<f, 1, 1>>[1] = f /\ <<f, 1, 1>>[2] = 1 /\ <<f, 1, 1>>[3] = 1
  OBVIOUS
<1>7. Kind(<<f, 1, 1>>) # "skipped"
  BY <1>2, <1>6 DEF Kind
<1>. QED
  BY <1>2, <1>3, <1>5, <1>6, <1>7, OffersOf DEF Embeds

LEMMA EmbeddedOf ==
  ASSUME job \in Jobs, path \in Inputs
  PROVE  EmbeddedFiles = Embeds(path) /\ Content(path) = job.file[path]
<1>1. job.real[path] = path /\ path \in DOMAIN job.file
  BY JobFacts DEF Inputs
<1>2. Slices = job.file[path].slices /\ Content(path) = job.file[path]
  BY <1>1 DEF Slices, Content
<1>3. Architectures = ArchitecturesOf(path)
  BY <1>2 DEF Architectures, ArchitecturesOf, Embedded
<1>4. ASSUME NEW id PROVE id \in EmbeddedFiles <=> id \in Embeds(path)
  <2>1. id \in EmbeddedFiles <=>
          \E s \in DOMAIN Slices : /\ Slices[s].embedded /\ Slices[s].arch = Lowest(Architectures)
                                   /\ \E m \in DOMAIN Slices[s].modules : id = <<path, s, m>>
    BY <1>1 DEF EmbeddedFiles, Embedded, Id
  <2>2. id \in Embeds(path) <=>
          \E s \in DOMAIN Slices : /\ Slices[s].embedded /\ Slices[s].arch = Lowest(Architectures)
                                   /\ \E m \in DOMAIN Slices[s].modules : id = <<path, s, m>>
    <3>1. \A s, m : <<path, s, m>>[2] = s
      OBVIOUS
    <3>. QED
      BY <1>2, <1>3, <3>1 DEF Embeds, FileIds
  <2>. QED
    BY <2>1, <2>2
<1>. QED
  BY <1>2, <1>4

----------------------------------------------------------------------------
(* The types of the variables.                                             *)
Loading == {"bitcode", "ir", "binary"}

Typed ==
  /\ job \in Jobs
  /\ present \subseteq DOMAIN job.file
  /\ arguments \in Seq(RangeOf(job.arguments))
  /\ worklist \in Seq(NamesGiven)
  /\ paths \subseteq Inputs
  /\ path = 0 \/ path \in Inputs
  /\ phase \in {"arguments", "classify", "load", "bitcode", "ir", "binary", "extract",
                "save", "end"}
  /\ phase \in Loading => path \in Inputs /\ job.file[path].type = phase
  /\ phase = "extract" => path \in Inputs /\ pending \subseteq Embeds(path)
  /\ phase # "extract" => pending = {}
  /\ modules \in Seq(Ids \cup {NoModule})
  /\ contexts \in Seq(Ids) /\ files \in Seq(Ids)
  /\ added \in 0 .. Len(modules)
  /\ complained \in BOOLEAN
  /\ status \in {"running", "exit_0", "exit_1", "crash"}
  /\ output \in [written : BOOLEAN, files : Seq(Ids)]

LEMMA InputFacts ==
  ASSUME job \in Jobs, NEW f \in Inputs
  PROVE  /\ f \in DOMAIN job.file /\ f \in DOMAIN job.real /\ job.real[f] = f
         /\ f \in Nat /\ f # 0 /\ job.file[f].type \in Loading
         /\ Embeds(f) \subseteq FileIds(f)
  BY JobFacts DEF Inputs, IsInput, Loading, Embeds

----------------------------------------------------------------------------
(* What a step does: one that strict mode stops does nothing else; the     *)
(* others go on, and c says whether something was complained of.           *)
Stopped ==
  /\ Running /\ job.strict /\ complained' = TRUE /\ status' = "exit_1" /\ phase # "end"
  /\ UNCHANGED <<job, present, input, loaded, cpg, phase>>

GoesOn(c) ==
  /\ Running /\ complained' = c /\ (job.strict => c = complained)
  /\ UNCHANGED <<job, present, status>>

Reads(names, c) ==
  phase = "arguments" /\ arguments # <<>> /\ FirstArgument(names) /\ GoesOn(c)

Enters(from, to) ==
  /\ phase = from /\ phase' = to /\ GoesOn(complained)
  /\ UNCHANGED <<input, loaded, cpg>>

Classifies(found, c) ==
  phase = "classify" /\ worklist # <<>> /\ FirstName(found) /\ GoesOn(c)

Takes(to, c) == phase = "load" /\ paths # {} /\ TakePath(to) /\ GoesOn(c)

(* Loads(ids) and Extracts(ids) deliver ids, with their contexts.          *)
Loads(ids) ==
  phase \in {"bitcode", "ir"} /\ Deliver(ids) /\ contexts' = contexts \o ids /\ GoesOn(complained)

FailsToLoad(result) ==
  /\ phase \in {"bitcode", "ir"} /\ result \in {<<>>, <<NoModule>>}
  /\ Deliver(result) /\ UNCHANGED contexts /\ GoesOn(TRUE)

Opens(found, c) == phase = "binary" /\ Extract(found) /\ GoesOn(c)

Extracts(ids, c) ==
  /\ phase = "extract" /\ pending # {}
  /\ ExtractNext(ids) /\ contexts' = contexts \o ids /\ GoesOn(c)

Adds(c) ==
  /\ phase = "load" /\ paths = {} /\ added < Len(modules) /\ NextModule # NoModule
  /\ AddNext /\ GoesOn(c)

Crashes ==
  /\ Running /\ phase = "load" /\ status' = "crash"
  /\ UNCHANGED <<job, present, input, loaded, cpg, phase, complained>>

Writes(to, c) ==
  /\ phase = "load" /\ paths = {} /\ added = Len(modules) /\ GoOn(to) /\ GoesOn(c)

Saves ==
  /\ phase = "save" /\ output' = [written |-> TRUE, files |-> files] /\ phase' = "end"
  /\ GoesOn(complained) /\ UNCHANGED <<input, loaded, added, files>>

SavesNothing == phase = "save" /\ GoOn("end") /\ GoesOn(TRUE)

Ends ==
  /\ Running /\ phase = "end" /\ status' = "exit_0"
  /\ UNCHANGED <<job, present, input, loaded, cpg, phase, complained>>

Loses ==
  /\ Running /\ present' \subseteq present
  /\ UNCHANGED <<job, input, loaded, cpg, phase, complained, status>>

LEMMA ArgumentSteps ==
  ASSUME Typed
  PROVE  /\ ReadArgument => Reads(Head(arguments).names, complained)
         /\ ReadDirectoryPartly =>
              \/ Stopped
              \/ \E k \in 0 .. Len(Head(arguments).names) :
                   Reads(SubSeq(Head(arguments).names, 1, k), TRUE)
         /\ EndArguments => Enters("arguments", "classify") /\ arguments = <<>>
<1>1. ReadArgument => Reads(Head(arguments).names, complained)
  BY DEF ReadArgument, Quietly, Reads, GoesOn, FirstArgument
<1>2. ASSUME ReadDirectoryPartly, ~Stopped
      PROVE  \E k \in 0 .. Len(Head(arguments).names) :
               Reads(SubSeq(Head(arguments).names, 1, k), TRUE)
  <2>1. CASE job.strict
    BY <1>2, <2>1 DEF ReadDirectoryPartly, Complain, Stopped
  <2>2. CASE ~job.strict
    BY <1>2, <2>2 DEF ReadDirectoryPartly, Complain, Reads, GoesOn
  <2>. QED
    BY <2>1, <2>2
<1>3. EndArguments => Enters("arguments", "classify") /\ arguments = <<>>
  BY DEF EndArguments, Enters, GoesOn
<1>. QED
  BY <1>1, <1>2, <1>3

LEMMA ClassifySteps ==
  ASSUME Typed
  PROVE  /\ Classify =>
              \/ Stopped
              \/ Classifies({}, TRUE)
              \/ Classifies({p \in {job.real[Head(worklist)]} : IsInput(job.file[p])}, complained)
         /\ EndScan => Enters("classify", "load") /\ worklist = <<>>
<1>1. ASSUME Classify, ~Stopped
      PROVE  \/ Classifies({}, TRUE)
             \/ Classifies({p \in {job.real[Head(worklist)]} : IsInput(job.file[p])}, complained)
  <2>1. CASE Exists(Head(worklist))
    <3>0. worklist # <<>>
      BY <1>1 DEF Classify
    <3>1. Head(worklist) \in NamesGiven
      BY <3>0, HeadFacts DEF Typed
    <3>2. \A p \in {job.real[Head(worklist)]} : Content(p) = job.file[p]
      BY <3>1, JobFacts DEF Typed, Content
    <3>3. Classifies({p \in {RealPath(Head(worklist))} : IsInput(Content(p))}, complained)
      BY <1>1, <2>1 DEF Classify, Quietly, Classifies, GoesOn
    <3>. QED
      BY <3>2, <3>3 DEF RealPath
  <2>2. CASE ~Exists(Head(worklist)) /\ job.strict
    BY <1>1, <2>2 DEF Classify, Complain, Stopped
  <2>3. CASE ~Exists(Head(worklist)) /\ ~job.strict
    BY <1>1, <2>3 DEF Classify, Complain, Classifies, GoesOn
  <2>. QED
    BY <2>1, <2>2, <2>3
<1>2. EndScan => Enters("classify", "load") /\ worklist = <<>>
  BY DEF EndScan, Enters, GoesOn
<1>. QED
  BY <1>1, <1>2

LEMMA IdentifySteps ==
  ASSUME Typed, Identify
  PROVE  Stopped \/ Takes("load", TRUE) \/ Takes(job.file[Lowest(paths)].type, complained)
<1>1. Lowest(paths) \in Inputs
  BY LowestOf, InputFacts DEF Typed, Identify
<1>2. Content(Lowest(paths)) = job.file[Lowest(paths)] /\ job.file[Lowest(paths)].type \in Loading
  BY <1>1, InputFacts DEF Typed, Content
<1>3. CASE Exists(Lowest(paths))
  <2>1. job.file[Lowest(paths)].type # "unsupported"
    BY <1>2 DEF Loading
  <2>. QED
    BY <1>2, <1>3, <2>1 DEF Identify, Quietly, Takes, GoesOn
<1>4. CASE ~Exists(Lowest(paths)) /\ job.strict
  BY <1>4 DEF Identify, Complain, Stopped
<1>5. CASE ~Exists(Lowest(paths)) /\ ~job.strict
  BY <1>5 DEF Identify, Complain, Takes, GoesOn
<1>. QED
  BY <1>3, <1>4, <1>5

LEMMA LoadSteps ==
  ASSUME Typed, LoadFile
  PROVE  \/ Stopped
         \/ \E result \in {<<>>, <<NoModule>>} : FailsToLoad(result)
         \/ Loads(<< <<path, 1, 1>> >>) /\ Kind(<<path, 1, 1>>) # "broken"
<1>. DEFINE id == Id(path, 1, 1)
<1>1. path \in Inputs /\ phase \in {"bitcode", "ir"}
  BY DEF LoadFile, Typed, Loading
<1>2. id = <<path, 1, 1>>
  BY <1>1, InputFacts DEF Typed, Id
<1>3. OnFailure \in {<<>>, <<NoModule>>}
  BY DEF OnFailure
<1>4. DropContext(Append(contexts, id)) = contexts
  BY SequenceFacts DEF Typed
<1>5. Append(contexts, id) = contexts \o <<id>>
  BY SequenceFacts DEF Typed
<1>6. CASE ~Exists(path)
  <2>1. Complain(UNCHANGED contexts /\ Deliver(OnFailure)) /\ UNCHANGED <<job, present>>
    BY <1>6 DEF LoadFile
  <2>2. CASE job.strict
    BY <2>1, <2>2 DEF Complain, Stopped, LoadFile
  <2>3. CASE ~job.strict
    BY <1>1, <1>3, <2>1, <2>3 DEF Complain, FailsToLoad, GoesOn, LoadFile
  <2>. QED
    BY <2>2, <2>3
<1>7. CASE Exists(path) /\ Kind(id) = "broken"
  <2>1. Complain(Parse(id, Deliver(OnFailure))) /\ UNCHANGED <<job, present>>
    BY <1>7 DEF LoadFile
  <2>2. CASE job.strict
    BY <2>1, <2>2 DEF Complain, Stopped, LoadFile
  <2>3. CASE ~job.strict
    <3>1. UNCHANGED contexts
      BY <1>4, <1>7, <2>1, <2>3 DEF Complain, Parse
    <3>. QED
      BY <1>1, <1>3, <2>1, <2>3, <3>1 DEF Complain, FailsToLoad, GoesOn, LoadFile, Parse
  <2>. QED
    BY <2>2, <2>3
<1>8. CASE Exists(path) /\ Kind(id) # "broken"
  <2>1. Quietly(Parse(id, Deliver(<<id>>))) /\ UNCHANGED <<job, present>>
    BY <1>8 DEF LoadFile
  <2>2. contexts' = contexts \o <<id>>
    BY <1>5, <1>8, <2>1 DEF Quietly, Parse
  <2>. QED
    BY <1>1, <1>2, <1>8, <2>1, <2>2 DEF Quietly, Parse, Loads, GoesOn, LoadFile
<1>. QED
  BY <1>6, <1>7, <1>8

LEMMA OpenSteps ==
  ASSUME Typed, OpenBinary
  PROVE  \/ Stopped
         \/ \E found \in {{}, Embeds(path)} : Opens(found, TRUE)
         \/ Opens(Embeds(path), complained)
<1>1. path \in Inputs /\ phase = "binary"
  BY DEF OpenBinary, Typed, Loading
<1>2. EmbeddedFiles = Embeds(path)
  BY <1>1, EmbeddedOf DEF Typed
<1>3. CASE Quietly(Extract(EmbeddedFiles))
  BY <1>1, <1>2, <1>3 DEF OpenBinary, Quietly, Opens, GoesOn
<1>4. CASE \E found \in {{}, EmbeddedFiles} : Complain(Extract(found))
  <2>1. CASE job.strict
    BY <1>4, <2>1 DEF OpenBinary, Complain, Stopped
  <2>2. CASE ~job.strict
    BY <1>1, <1>2, <1>4, <2>2 DEF OpenBinary, Complain, Opens, GoesOn
  <2>. QED
    BY <2>1, <2>2
<1>. QED
  BY <1>3, <1>4 DEF OpenBinary

LEMMA ExtractSteps ==
  ASSUME Typed, ExtractModule
  PROVE  \/ Stopped
         \/ Extracts(<<>>, TRUE)
         \/ Extracts(<<>>, complained) /\ Kind(First(pending)) = "skipped"
         \/ /\ Extracts(<<First(pending)>>, complained)
            /\ Kind(First(pending)) \notin {"broken", "skipped"}
<1>. DEFINE id == First(pending)
<1>1. DropContext(Append(contexts, id)) = contexts /\ contexts \o <<>> = contexts
  BY SequenceFacts DEF Typed
<1>2. Append(contexts, id) = contexts \o <<id>>
  BY SequenceFacts DEF Typed
<1>3. CASE Kind(id) = "skipped"
  BY <1>1, <1>3 DEF ExtractModule, Quietly, Extracts, GoesOn
<1>4. CASE Kind(id) = "broken"
  <2>1. Complain(Parse(id, ExtractNext(<<>>))) /\ UNCHANGED <<job, present>>
    BY <1>4 DEF ExtractModule
  <2>2. CASE job.strict
    BY <2>1, <2>2 DEF Complain, Stopped, ExtractModule
  <2>3. CASE ~job.strict
    <3>1. UNCHANGED contexts
      BY <1>1, <1>4, <2>1, <2>3 DEF Complain, Parse
    <3>. QED
      BY <1>1, <2>1, <2>3, <3>1 DEF Complain, Extracts, GoesOn, ExtractModule, Parse
  <2>. QED
    BY <2>2, <2>3
<1>5. CASE Kind(id) \notin {"broken", "skipped"}
  <2>1. Quietly(Parse(id, ExtractNext(<<id>>))) /\ UNCHANGED <<job, present>>
    BY <1>5 DEF ExtractModule
  <2>2. contexts' = contexts \o <<id>>
    BY <1>2, <1>5, <2>1 DEF Quietly, Parse
  <2>. QED
    BY <1>5, <2>1, <2>2 DEF Quietly, Parse, Extracts, GoesOn, ExtractModule
<1>. QED
  BY <1>3, <1>4, <1>5

LEMMA LaterSteps ==
  /\ EndExtract => Enters("extract", "load") /\ pending = {}
  /\ AddBitcode => Stopped \/ Adds(TRUE) \/ Adds(complained)
  /\ AddNull => Crashes
  /\ WriteCpg => Stopped \/ Writes("end", TRUE) \/ Writes("save", complained)
  /\ SaveFails => Stopped \/ SavesNothing
  /\ SaveToArchive => Saves
  /\ ShutDown => Ends
  /\ Vanish => Loses
<1>1. EndExtract => Enters("extract", "load") /\ pending = {}
  BY DEF EndExtract, Enters, GoesOn
<1>2. ASSUME AddBitcode PROVE Stopped \/ Adds(TRUE) \/ Adds(complained)
  <2>1. CASE Kind(NextModule) = "plain" /\ job.strict
    BY <1>2, <2>1 DEF AddBitcode, Complain, Stopped
  <2>2. CASE Kind(NextModule) = "plain" /\ ~job.strict
    BY <1>2, <2>2 DEF AddBitcode, Complain, Adds, GoesOn
  <2>3. CASE Kind(NextModule) # "plain"
    BY <1>2, <2>3 DEF AddBitcode, Quietly, Adds, GoesOn
  <2>. QED
    BY <2>1, <2>2, <2>3
<1>3. AddNull => Crashes
  BY DEF AddNull, Crashes
<1>4. ASSUME WriteCpg PROVE Stopped \/ Writes("end", TRUE) \/ Writes("save", complained)
  <2>1. CASE files = <<>> /\ job.strict
    BY <1>4, <2>1 DEF WriteCpg, Complain, Stopped
  <2>2. CASE files = <<>> /\ ~job.strict
    BY <1>4, <2>2 DEF WriteCpg, Complain, Writes, GoesOn
  <2>3. CASE files # <<>>
    BY <1>4, <2>3 DEF WriteCpg, Quietly, Writes, GoesOn
  <2>. QED
    BY <2>1, <2>2, <2>3
<1>5. ASSUME SaveFails PROVE Stopped \/ SavesNothing
  <2>1. CASE job.strict
    BY <1>5, <2>1 DEF SaveFails, Complain, Stopped
  <2>2. CASE ~job.strict
    BY <1>5, <2>2 DEF SaveFails, Complain, SavesNothing, GoesOn
  <2>. QED
    BY <2>1, <2>2
<1>6. SaveToArchive => Saves
  BY DEF SaveToArchive, Saves, GoesOn
<1>7. ShutDown => Ends
  BY DEF ShutDown, Ends
<1>8. Vanish => Loses
  BY DEF Vanish, Loses
<1>. QED
  BY <1>1, <1>2, <1>3, <1>4, <1>5, <1>6, <1>7, <1>8

----------------------------------------------------------------------------
LEMMA StepCases ==
  ASSUME Typed, [Next]_vars
  PROVE  \/ UNCHANGED vars \/ Stopped \/ Crashes \/ Ends \/ Loses \/ Saves \/ SavesNothing
         \/ \E names \in Seq(NamesGiven), c \in {TRUE, complained} :
              /\ Reads(names, c)
              /\ c = FALSE => names = Head(arguments).names
         \/ Enters("arguments", "classify") /\ arguments = <<>>
         \/ Enters("classify", "load") /\ worklist = <<>>
         \/ Enters("extract", "load") /\ pending = {}
         \/ Classifies({}, TRUE)
         \/ Classifies({p \in {job.real[Head(worklist)]} : IsInput(job.file[p])}, complained)
         \/ Takes("load", TRUE) \/ Takes(job.file[Lowest(paths)].type, complained)
         \/ \E result \in {<<>>, <<NoModule>>} : FailsToLoad(result)
         \/ Loads(<< <<path, 1, 1>> >>) /\ Kind(<<path, 1, 1>>) # "broken"
         \/ \E found \in {{}, Embeds(path)}, c \in {TRUE, complained} :
              Opens(found, c) /\ (c = FALSE => found = Embeds(path))
         \/ Extracts(<<>>, TRUE)
         \/ Extracts(<<>>, complained) /\ Kind(First(pending)) = "skipped"
         \/ /\ Extracts(<<First(pending)>>, complained)
            /\ Kind(First(pending)) \notin {"broken", "skipped"}
         \/ \E c \in {TRUE, complained} : Adds(c)
         \/ Writes("end", TRUE) \/ Writes("save", complained)
<1>1. ASSUME ReadArgument \/ ReadDirectoryPartly
      PROVE  \/ Stopped
             \/ \E names \in Seq(NamesGiven), c \in {TRUE, complained} :
                  Reads(names, c) /\ (c = FALSE => names = Head(arguments).names)
  <2>1. arguments # <<>>
    BY <1>1 DEF ReadArgument, ReadDirectoryPartly
  <2>2. Head(arguments) \in RangeOf(job.arguments)
    BY <2>1, HeadFacts DEF Typed
  <2>3. Head(arguments).names \in Seq(NamesGiven)
    BY <2>2, JobFacts DEF Typed
  <2>4. \A k \in 0 .. Len(Head(arguments).names) :
          SubSeq(Head(arguments).names, 1, k) \in Seq(NamesGiven)
    BY <2>3
  <2>. QED
    BY <1>1, <2>3, <2>4, ArgumentSteps
<1>2. ASSUME OpenBinary
      PROVE  \/ Stopped
             \/ \E found \in {{}, Embeds(path)}, c \in {TRUE, complained} :
                  Opens(found, c) /\ (c = FALSE => found = Embeds(path))
  BY <1>2, OpenSteps
<1>. QED
  BY <1>1, <1>2, ArgumentSteps, ClassifySteps, IdentifySteps, LoadSteps, ExtractSteps,
     LaterSteps DEF Next

----------------------------------------------------------------------------
LEMMA TypedInit == Init => Typed
<1>. SUFFICES ASSUME Init PROVE Typed
  OBVIOUS
<1>1. job.arguments \in Seq(RangeOf(job.arguments))
  BY JobFacts DEF Init
<1>2. <<>> \in Seq(Ids) /\ <<>> \in Seq(Ids \cup {NoModule}) /\ <<>> \in Seq(NamesGiven)
      /\ Len(<<>>) = 0
  OBVIOUS
<1>3. output \in [written : BOOLEAN, files : Seq(Ids)]
  BY DEF Init, Previous
<1>4. job \in Jobs /\ present \subseteq DOMAIN job.file /\ paths = {} /\ path = 0
      /\ arguments = job.arguments /\ pending = {} /\ phase = "arguments"
      /\ worklist = <<>> /\ modules = <<>> /\ contexts = <<>> /\ files = <<>>
      /\ added = 0 /\ complained = FALSE /\ status = "running"
  BY DEF Init
<1>. HIDE DEF Init
<1>5. /\ worklist \in Seq(NamesGiven) /\ modules \in Seq(Ids \cup {NoModule})
      /\ contexts \in Seq(Ids) /\ files \in Seq(Ids) /\ Len(modules) = 0
  BY <1>2, <1>4
<1>6. added \in 0 .. Len(modules)
  <2>1. added = 0 /\ Len(modules) = 0
    BY <1>4, <1>5
  <2>. QED
    BY <2>1
<1>8. complained \in BOOLEAN
  BY <1>4
<1>7. /\ phase \in {"arguments", "classify", "load", "bitcode", "ir", "binary", "extract",
                    "save", "end"}
      /\ phase \notin Loading /\ phase # "extract" /\ pending = {}
      /\ status \in {"running", "exit_0", "exit_1", "crash"}
  BY <1>4 DEF Loading
<1>. QED
  BY <1>1, <1>3, <1>4, <1>5, <1>6, <1>7, <1>8 DEF Typed

LEMMA TypedNext == Typed /\ [Next]_vars => Typed'
<1>. SUFFICES ASSUME Typed, [Next]_vars PROVE Typed'
  OBVIOUS
<1>. DEFINE Same == job' = job
<1>0. job' = job => /\ NamesGiven' = NamesGiven /\ Inputs' = Inputs /\ Ids' = Ids
                    /\ RangeOf(job.arguments)' = RangeOf(job.arguments)
                    /\ (path' = path => Embeds(path)' = Embeds(path))
  <2>1. job' = job => RangeOf(job.arguments)' = RangeOf(job.arguments)
    BY DEF RangeOf
  <2>2. job' = job => NamesGiven' = NamesGiven
    BY <2>1 DEF NamesGiven, RangeOf
  <2>3. job' = job => Inputs' = Inputs
    BY <2>2 DEF Inputs, FilesGiven
  <2>4. job' = job => Ids' = Ids
    BY DEF Ids, FileIds
  <2>5. job' = job /\ path' = path => Embeds(path)' = Embeds(path)
    BY DEF FileIds, Embeds, ArchitecturesOf
  <2>. QED
    BY <2>1, <2>2, <2>3, <2>4, <2>5
<1>1. CASE UNCHANGED vars
  BY <1>0, <1>1 DEF Typed, vars, input, loaded, cpg
<1>2. CASE Stopped
  BY <1>0, <1>2 DEF Typed, Stopped, input, loaded, cpg
<1>3. CASE Crashes \/ Ends \/ Loses
  BY <1>0, <1>3 DEF Typed, Crashes, Ends, Loses, input, loaded, cpg
<1>4. CASE Saves
  <2>1. output' \in [written : BOOLEAN, files : Seq(Ids)]
    BY <1>4 DEF Saves, Typed
  <2>. QED
    BY <1>0, <1>4, <2>1 DEF Typed, Saves, GoesOn, Loading, input, loaded
<1>a. CASE SavesNothing
  BY <1>0, <1>a DEF Typed, SavesNothing, GoOn, GoesOn, Loading, input, loaded, cpg
<1>5. ASSUME NEW names \in Seq(NamesGiven), NEW c \in {TRUE, complained}, Reads(names, c)
      PROVE  Typed'
  <2>1. arguments' = Tail(arguments) /\ worklist' = worklist \o names
    BY <1>5 DEF Reads, FirstArgument
  <2>2. Tail(arguments) \in Seq(RangeOf(job.arguments)) /\ worklist \o names \in Seq(NamesGiven)
    BY <1>5, HeadFacts, ConcatFacts DEF Typed, Reads
  <2>. QED
    BY <1>0, <1>5, <2>1, <2>2 DEF Typed, Reads, FirstArgument, GoesOn, loaded, cpg
<1>6. CASE Enters("arguments", "classify") \/ Enters("classify", "load")
            \/ (Enters("extract", "load") /\ pending = {})
  BY <1>0, <1>6 DEF Typed, Enters, GoesOn, Loading, input, loaded, cpg
<1>7. ASSUME NEW found, NEW c \in {TRUE, complained}, found \subseteq Inputs,
             Classifies(found, c)
      PROVE  Typed'
  <2>1. worklist' = Tail(worklist) /\ Tail(worklist) \in Seq(NamesGiven)
    BY <1>7, HeadFacts DEF Typed, Classifies, FirstName
  <2>. QED
    BY <1>0, <1>7, <2>1 DEF Typed, Classifies, FirstName, GoesOn, loaded, cpg
<1>8. {p \in {job.real[Head(worklist)]} : IsInput(job.file[p])} \subseteq Inputs \/ worklist = <<>>
  <2>. SUFFICES ASSUME worklist # <<>>
                PROVE  {p \in {job.real[Head(worklist)]} : IsInput(job.file[p])} \subseteq Inputs
    OBVIOUS
  <2>1. Head(worklist) \in NamesGiven
    BY HeadFacts DEF Typed
  <2>2. job.real[Head(worklist)] \in FilesGiven
    BY <2>1, JobFacts DEF Typed
  <2>. QED
    BY <2>2 DEF Inputs
<1>9. CASE Takes("load", TRUE) \/ Takes(job.file[Lowest(paths)].type, complained)
  <2>1. Lowest(paths) \in Inputs
    BY <1>9, LowestOf, InputFacts DEF Typed, Takes
  <2>2. job.file[Lowest(paths)].type \in Loading
    BY <2>1, InputFacts DEF Typed
  <2>3. path' = Lowest(paths) /\ paths' \subseteq paths /\ pending' = pending /\ phase = "load"
        /\ phase' \in {"load", job.file[path'].type} /\ complained' \in BOOLEAN
        /\ UNCHANGED <<job, present, arguments, worklist, modules, contexts, added, files,
                       output, status>>
    BY <1>9 DEF Takes, TakePath, GoesOn, loaded, cpg, Typed
  <2>4. phase' # "extract" /\ (phase' \in Loading => job.file[path'].type = phase')
        /\ phase' \in {"load", "bitcode", "ir", "binary"}
    BY <2>1, <2>2, <2>3 DEF Loading
  <2>. QED
    BY <1>0, <2>1, <2>3, <2>4 DEF Typed
<1>10. ASSUME NEW result \in {<<>>, <<NoModule>>}, FailsToLoad(result) PROVE Typed'
  <2>1. result \in Seq(Ids \cup {NoModule}) /\ Len(result) \in Nat
    BY ShortFacts
  <2>2. modules \in Seq(Ids \cup {NoModule}) /\ Len(modules) \in Nat
    BY DEF Typed
  <2>3. modules \o result \in Seq(Ids \cup {NoModule}) /\ Len(modules \o result) >= Len(modules)
    BY <2>1, <2>2, ConcatFacts
  <2>. QED
    BY <1>0, <1>10, <2>2, <2>3 DEF Typed, FailsToLoad, Deliver, GoesOn, Loading, input, cpg
<1>11. CASE Loads(<< <<path, 1, 1>> >>)
  <2>1. path \in Inputs /\ job.file[path].type \in {"bitcode", "ir"}
    BY <1>11 DEF Loads, Typed, Loading
  <2>2. <<path, 1, 1>> \in Ids
    BY <2>1, OneOffer, IdFacts, InputFacts DEF Typed
  <2>. DEFINE id == <<path, 1, 1>>
  <2>4. /\ modules \in Seq(Ids \cup {NoModule}) /\ Len(modules) \in Nat
        /\ contexts \in Seq(Ids)
    BY DEF Typed
  <2>5. <<id>> \in Seq(Ids \cup {NoModule}) /\ <<id>> \in Seq(Ids) /\ Len(<<id>>) = 1
    BY <2>2, ShortFacts
  <2>3. /\ modules \o << <<path, 1, 1>> >> \in Seq(Ids \cup {NoModule})
        /\ Len(modules \o << <<path, 1, 1>> >>) >= Len(modules)
        /\ contexts \o << <<path, 1, 1>> >> \in Seq(Ids)
    BY <2>4, <2>5, ConcatFacts
  <2>. QED
    BY <1>0, <1>11, <2>3, <2>4 DEF Typed, Loads, Deliver, GoesOn, Loading, input, cpg
<1>12. ASSUME NEW found \in {{}, Embeds(path)}, NEW c \in {TRUE, complained}, Opens(found, c)
       PROVE  Typed'
  BY <1>0, <1>12 DEF Typed, Opens, Extract, GoesOn, Loading, input, cpg
<1>13. ASSUME NEW ids \in {<<>>, <<First(pending)>>}, NEW c \in {TRUE, complained},
              Extracts(ids, c)
       PROVE  Typed'
  <2>1. path \in Inputs /\ pending \subseteq Embeds(path) /\ pending # {}
    BY <1>13 DEF Extracts, Typed
  <2>2. First(pending) \in pending
    BY <2>1, InputFacts, FirstOf DEF Typed
  <2>3. First(pending) \in Ids
    BY <2>1, <2>2, InputFacts, IdFacts DEF Typed
  <2>4. /\ modules \in Seq(Ids \cup {NoModule}) /\ Len(modules) \in Nat
        /\ contexts \in Seq(Ids)
    BY DEF Typed
  <2>5. ids \in Seq(Ids \cup {NoModule}) /\ ids \in Seq(Ids) /\ Len(ids) \in Nat
    <3>1. CASE ids = <<>>
      BY <3>1
    <3>2. CASE ids = <<First(pending)>>
      BY <2>3, <3>2, ShortFacts
    <3>. QED
      BY <1>13, <3>1, <3>2
  <2>6. /\ modules \o ids \in Seq(Ids \cup {NoModule})
        /\ Len(modules \o ids) >= Len(modules)
        /\ contexts \o ids \in Seq(Ids)
    BY <2>4, <2>5, ConcatFacts
  <2>. QED
    <3>1. /\ pending' \subseteq pending /\ modules' = modules \o ids
          /\ contexts' = contexts \o ids /\ phase = "extract" /\ complained' \in BOOLEAN
          /\ UNCHANGED <<job, present, arguments, worklist, paths, path, phase, added, files,
                         output, status>>
      BY <1>13 DEF Extracts, ExtractNext, GoesOn, input, cpg, Typed
    <3>. HIDE <1>13
    <3>2. added' \in 0 .. Len(modules')
      BY <2>4, <2>6, <3>1 DEF Typed
    <3>. QED
      BY <1>0, <2>1, <2>6, <3>1, <3>2 DEF Typed
<1>14. ASSUME NEW c \in {TRUE, complained}, Adds(c) PROVE Typed'
  <2>1. added + 1 \in 1 .. Len(modules) /\ modules \in Seq(Ids \cup {NoModule})
    BY <1>14 DEF Adds, Typed
  <2>2. NextModule \in Ids
    BY <1>14, <2>1 DEF Adds, NextModule
  <2>3. Append(files, NextModule) \in Seq(Ids)
    BY <2>2 DEF Typed
  <2>. QED
    <3>1. /\ added' = added + 1 /\ files' = Append(files, NextModule)
          /\ complained' \in BOOLEAN
          /\ UNCHANGED <<job, present, arguments, worklist, paths, path, phase, pending,
                         modules, contexts, output, status>>
      BY <1>14 DEF Adds, AddNext, GoesOn, input, loaded, Typed
    <3>2. added' \in 0 .. Len(modules')
      BY <2>1, <3>1
    <3>. QED
      BY <1>0, <2>1, <2>3, <3>1, <3>2 DEF Typed
<1>15. CASE Writes("end", TRUE) \/ Writes("save", complained)
  BY <1>0, <1>15 DEF Typed, Writes, GoOn, GoesOn, Loading, input, loaded, cpg
<1>16. Classifies({}, TRUE) => Typed'
  BY <1>7
<1>17. Classifies({p \in {job.real[Head(worklist)]} : IsInput(job.file[p])}, complained) => Typed'
  BY <1>7, <1>8 DEF Classifies
<1>18. Extracts(<<>>, TRUE) \/ Extracts(<<>>, complained)
         \/ Extracts(<<First(pending)>>, complained) => Typed'
  BY <1>13
<1>. QED
  BY <1>1, <1>2, <1>3, <1>4, <1>a, <1>5, <1>6, <1>9, <1>10, <1>11, <1>12, <1>14, <1>15,
     <1>16, <1>17, <1>18, StepCases

(* Every variable of a run has its type at every step: what is loaded,     *)
(* pending, added or written is always a module of an input file, and no   *)
(* file that getInputFilePaths leaves out is among the paths.              *)
THEOREM TypeCorrect == Spec => []TypeOK
<1>1. Typed => TypeOK
  <2>. SUFFICES ASSUME Typed PROVE TypeOK
    OBVIOUS
  <2>1. RangeOf(worklist) \subseteq DOMAIN job.real /\ paths \subseteq DOMAIN job.real
    BY JobFacts, InputFacts, RangeFacts DEF Typed
  <2>2. \A p \in paths : Content(p).type # "unsupported"
    BY InputFacts DEF Typed, Content, Loading
  <2>3. path \in {0} \cup DOMAIN job.real
    BY InputFacts DEF Typed
  <2>4. pending \subseteq Ids
    BY InputFacts, IdFacts DEF Typed
  <2>5. /\ RangeOf(contexts) \subseteq Ids /\ RangeOf(files) \subseteq Ids
        /\ RangeOf(modules) \subseteq Ids \cup {NoModule} /\ RangeOf(output.files) \subseteq Ids
    BY RangeFacts DEF Typed
  <2>. QED
    BY <2>1, <2>2, <2>3, <2>4, <2>5 DEF Typed, TypeOK
<1>. QED
  BY <1>1, TypedInit, TypedNext, PTL DEF Spec

----------------------------------------------------------------------------
(* What the jobs offer does not change.                                    *)
LEMMA SameJob ==
  ASSUME job' = job
  PROVE  /\ NamesGiven' = NamesGiven /\ FilesGiven' = FilesGiven /\ Inputs' = Inputs
         /\ \A f : Offers(f)' = Offers(f)
         /\ \A id : Kind(id)' = Kind(id)
         /\ AllOffers' = AllOffers
<1>1. NamesGiven' = NamesGiven
  BY DEF NamesGiven, RangeOf
<1>2. FilesGiven' = FilesGiven
  BY <1>1 DEF FilesGiven
<1>3. Inputs' = Inputs
  BY <1>2 DEF Inputs
<1>4. \A id : Kind(id)' = Kind(id)
  BY DEF Kind
<1>5. \A f : Offers(f)' = Offers(f)
  BY DEF Offers, FileIds, Kind
<1>6. AllOffers' = AllOffers
  BY <1>2, <1>5 DEF AllOffers
<1>. QED
  BY <1>1, <1>2, <1>3, <1>4, <1>5, <1>6

----------------------------------------------------------------------------
(* The files are the modules that were added, none of them null, and what  *)
(* is written is the files, after all the modules were added.              *)
Archived ==
  /\ Len(files) = added
  /\ \A k \in 1 .. added : files[k] = modules[k] /\ modules[k] # NoModule
  /\ phase \in {"save", "end"} => added = Len(modules) /\ paths = {}
  /\ output.written => phase = "end" /\ output.files = files
  /\ ~output.written => output = Previous
  /\ status \in {"exit_1", "crash"} => output = Previous
  /\ status = "exit_0" => phase = "end"

LEMMA ArchivedInit == Init => Archived
<1>1. Len(<<>>) = 0 /\ 1 .. 0 = {} /\ Previous.written = FALSE
  BY DEF Previous
<1>. QED
  BY <1>1 DEF Init, Archived

(* Modules that are delivered come after those that were added.            *)
LEMMA DeliveryArchived ==
  ASSUME Typed, Archived, NEW result \in Seq(Ids \cup {NoModule}),
         modules' = modules \o result,
         UNCHANGED <<added, files, output, status>>,
         phase \notin {"save", "end"}, phase' \notin {"save", "end"}
  PROVE  Archived'
<1>1. /\ modules \in Seq(Ids \cup {NoModule}) /\ added \in 0 .. Len(modules)
      /\ Len(modules) \in Nat
  BY DEF Typed
<1>2. \A k \in 1 .. added : k \in 1 .. Len(modules)
  BY <1>1
<1>3. \A k \in 1 .. added : modules'[k] = modules[k]
  BY <1>1, <1>2, ConcatFacts
<1>. QED
  BY <1>3 DEF Archived

LEMMA ArchivedNext == Typed /\ Typed' /\ Archived /\ [Next]_vars => Archived'
<1>. SUFFICES ASSUME Typed, Typed', Archived, [Next]_vars PROVE Archived'
  OBVIOUS
<1>1. CASE UNCHANGED vars
  BY <1>1 DEF Archived, vars, input, loaded, cpg
<1>2. CASE Stopped
  BY <1>2 DEF Archived, Stopped, input, loaded, cpg, Running
<1>3. CASE Crashes
  BY <1>3 DEF Archived, Crashes, input, loaded, cpg, Running
<1>4. CASE Ends
  BY <1>4 DEF Archived, Ends, input, loaded, cpg, Running
<1>5. CASE Loses
  BY <1>5 DEF Archived, Loses, input, loaded, cpg
<1>6. CASE Saves
  <2>1. output'.written = TRUE /\ output'.files = files
    BY <1>6 DEF Saves
  <2>. QED
    BY <1>6, <2>1 DEF Archived, Saves, GoesOn, Running, input, loaded
<1>7. CASE SavesNothing
  BY <1>7 DEF Archived, SavesNothing, GoOn, GoesOn, Running, input, loaded, cpg
<1>8. ASSUME NEW names, NEW c, Reads(names, c) PROVE Archived'
  BY <1>8 DEF Archived, Reads, FirstArgument, GoesOn, Running, loaded, cpg
<1>9. ASSUME NEW from \in {"arguments", "classify", "extract"}, NEW to \in {"classify", "load"},
             Enters(from, to)
      PROVE  Archived'
  BY <1>9 DEF Archived, Enters, GoesOn, Running, input, loaded, cpg
<1>10. ASSUME NEW found, NEW c, Classifies(found, c) PROVE Archived'
  BY <1>10 DEF Archived, Classifies, FirstName, GoesOn, Running, loaded, cpg
<1>11. ASSUME NEW to, NEW c, Takes(to, c), to \notin {"save", "end"} PROVE Archived'
  BY <1>11 DEF Archived, Takes, TakePath, GoesOn, Running, loaded, cpg
<1>12. CASE Takes("load", TRUE) \/ Takes(job.file[Lowest(paths)].type, complained)
  <2>1. Lowest(paths) \in Inputs
    BY <1>12, LowestOf, InputFacts DEF Typed, Takes
  <2>2. job.file[Lowest(paths)].type \notin {"save", "end"}
    BY <2>1, InputFacts DEF Typed, Loading
  <2>. QED
    BY <1>11, <1>12, <2>2
<1>13. ASSUME NEW result \in {<<>>, <<NoModule>>}, FailsToLoad(result) PROVE Archived'
  <2>1. result \in Seq(Ids \cup {NoModule})
    BY ShortFacts
  <2>. QED
    BY <1>13, <2>1, DeliveryArchived DEF FailsToLoad, Deliver, GoesOn, cpg
<1>14. CASE Loads(<< <<path, 1, 1>> >>)
  <2>1. path \in Inputs /\ job.file[path].type \in {"bitcode", "ir"}
    BY <1>14 DEF Loads, Typed, Loading
  <2>2. <<path, 1, 1>> \in Ids
    BY <2>1, OneOffer, IdFacts, InputFacts DEF Typed
  <2>3. << <<path, 1, 1>> >> \in Seq(Ids \cup {NoModule})
    BY <2>2, ShortFacts
  <2>. QED
    BY <1>14, <2>3, DeliveryArchived DEF Loads, Deliver, GoesOn, cpg
<1>15. ASSUME NEW found, NEW c, Opens(found, c) PROVE Archived'
  BY <1>15 DEF Archived, Opens, Extract, GoesOn, Running, input, cpg
<1>16. ASSUME NEW ids \in {<<>>, <<First(pending)>>}, NEW c, Extracts(ids, c)
       PROVE  Archived'
  <2>1. path \in Inputs /\ pending \subseteq Embeds(path) /\ pending # {}
    BY <1>16 DEF Extracts, Typed
  <2>2. First(pending) \in pending
    BY <2>1, InputFacts, FirstOf DEF Typed
  <2>3. First(pending) \in Ids
    BY <2>1, <2>2, InputFacts, IdFacts DEF Typed
  <2>4. ids \in Seq(Ids \cup {NoModule})
    <3>1. CASE ids = <<>>
      BY <3>1
    <3>2. CASE ids = <<First(pending)>>
      BY <2>3, <3>2, ShortFacts
    <3>. QED
      BY <1>16, <3>1, <3>2
  <2>. QED
    BY <1>16, <2>4, DeliveryArchived DEF Extracts, ExtractNext, GoesOn, cpg
<1>17. ASSUME NEW c, Adds(c) PROVE Archived'
  <2>1. /\ added' = added + 1 /\ files' = Append(files, modules[added + 1])
        /\ modules[added + 1] # NoModule /\ phase = "load" /\ added \in Nat
        /\ UNCHANGED <<modules, phase, paths, output, status>>
    BY <1>17 DEF Adds, AddNext, NextModule, GoesOn, input, loaded, Typed
  <2>2. files \in Seq(Ids) /\ Len(files) = added
    BY DEF Typed, Archived
  <2>3. /\ Len(files') = added + 1
        /\ \A k \in 1 .. added : files'[k] = files[k]
        /\ files'[added + 1] = modules[added + 1]
    BY <2>1, <2>2
  <2>4. \A k \in 1 .. added + 1 : k \in 1 .. added \/ k = added + 1
    BY <2>1
  <2>5. \A k \in 1 .. added + 1 : files'[k] = modules[k] /\ modules[k] # NoModule
    BY <2>1, <2>3, <2>4 DEF Archived
  <2>. QED
    BY <2>1, <2>3, <2>5 DEF Archived
<1>18. CASE Writes("end", TRUE) \/ Writes("save", complained)
  BY <1>18 DEF Archived, Writes, GoOn, GoesOn, Running, input, loaded, cpg
<1>. QED
  BY <1>1, <1>2, <1>3, <1>4, <1>5, <1>6, <1>7, <1>8, <1>9, <1>10, <1>12, <1>13, <1>14, <1>15,
     <1>16, <1>17, <1>18, StepCases

----------------------------------------------------------------------------
(* The modules that loaded are offered by the files and in their order,    *)
(* and the file being read and those to come are later ones.               *)
Loaded == RangeOf(modules) \ {NoModule}

Chain(ms) ==
  \A i, j \in DOMAIN ms :
    i < j /\ ms[i] # NoModule /\ ms[j] # NoModule => Before(ms[i], ms[j])

Ordered ==
  /\ Chain(modules)
  /\ \A m \in Loaded :
       /\ m \in AllOffers /\ Kind(m) # "broken"
       /\ m[1] <= path /\ (phase \in Loading => m[1] < path)
       /\ \A id \in pending : Before(m, id)
  /\ \A p \in paths : path < p
  /\ phase \in {"arguments", "classify"} => path = 0

LEMMA ChainOf ==
  ASSUME NEW S, NEW ms \in Seq(S), NEW e \in S, Chain(ms),
         \A m \in RangeOf(ms) \ {NoModule} : e # NoModule => Before(m, e)
  PROVE  Chain(ms \o <<e>>)
<1>. DEFINE new == ms \o <<e>>
<1>1. /\ DOMAIN new = 1 .. Len(ms) + 1 /\ DOMAIN ms = 1 .. Len(ms) /\ Len(ms) \in Nat
      /\ \A i \in 1 .. Len(ms) : new[i] = ms[i]
      /\ new[Len(ms) + 1] = e
  BY ConcatFacts, ShortFacts
<1>. HIDE DEF new
<1>. SUFFICES ASSUME NEW i \in DOMAIN new, NEW j \in DOMAIN new, i < j,
                     new[i] # NoModule, new[j] # NoModule
              PROVE  Before(new[i], new[j])
  BY DEF Chain, new
<1>2. i \in 1 .. Len(ms) /\ (j \in 1 .. Len(ms) \/ j = Len(ms) + 1)
  BY <1>1
<1>3. CASE j \in 1 .. Len(ms)
  BY <1>1, <1>2, <1>3 DEF Chain
<1>4. CASE j = Len(ms) + 1
  <2>1. ms[i] \in RangeOf(ms) /\ ms[i] = new[i] /\ new[j] = e
    BY <1>1, <1>2, <1>4 DEF RangeOf
  <2>. QED
    BY <2>1
<1>. QED
  BY <1>2, <1>3, <1>4

(* An offered module is a triple of numbers.                               *)
LEMMA OfferFacts ==
  ASSUME job \in Jobs, NEW id \in AllOffers
  PROVE  id[1] \in Nat /\ id[2] \in Nat /\ id[3] \in Nat /\ id # NoModule
<1>1. PICK f \in FilesGiven : id \in Offers(f)
  BY DEF AllOffers
<1>2. id \in FileIds(f) /\ f \in DOMAIN job.file /\ f \in Nat
  BY <1>1, JobFacts DEF Offers
<1>. QED
  BY <1>2, IdFacts

LEMMA EmbedFacts ==
  ASSUME job \in Jobs, NEW f \in Inputs, NEW id \in Embeds(f)
  PROVE  /\ id[1] = f /\ id[1] \in Nat /\ id[2] \in Nat /\ id[3] \in Nat /\ id \in Ids
         /\ id # NoModule
         /\ Kind(id) # "skipped" => id \in Offers(f) /\ id \in AllOffers
<1>1. id \in FileIds(f) /\ f \in Nat /\ f \in DOMAIN job.file
  BY InputFacts
<1>2. Kind(id) # "skipped" => id \in Offers(f)
  BY OffersOf
<1>3. f \in FilesGiven
  BY DEF Inputs
<1>. QED
  BY <1>1, <1>2, <1>3, IdFacts DEF AllOffers

LEMMA OrderedInit == Init => Ordered
<1>. SUFFICES ASSUME Init PROVE Ordered
  OBVIOUS
<1>1. modules = <<>> /\ path = 0 /\ paths = {}
  BY DEF Init
<1>2. DOMAIN modules = {} /\ Loaded = {}
  BY <1>1 DEF Loaded, RangeOf
<1>. QED
  BY <1>1, <1>2 DEF Ordered, Chain

(* Steps that deliver no module and start no file.                         *)
LEMMA StayOrdered ==
  ASSUME Typed, Ordered, job' = job, modules' = modules, pending' \subseteq pending,
         path' = path, paths' \subseteq paths,
         phase' \in Loading => phase \in Loading,
         phase' \in {"arguments", "classify"} => phase \in {"arguments", "classify"}
  PROVE  Ordered'
<1>1. Chain(modules)' = Chain(modules) /\ Loaded' = Loaded
  BY DEF Chain, Loaded, RangeOf
<1>. QED
  BY <1>1, SameJob DEF Ordered

(* A module that is delivered is the first of what is left of its file.    *)
LEMMA DeliveryOrdered ==
  ASSUME Typed, Ordered, NEW id \in AllOffers, Kind(id) # "broken", id[1] = path,
         \A m \in Loaded : Before(m, id),
         job' = job, modules' = modules \o <<id>>, path' = path, paths' = paths,
         phase' \in {"load", "extract"}, pending' \subseteq pending,
         \A b \in pending' : Before(id, b)
  PROVE  Ordered'
<1>1. id \in Ids \cup {NoModule}
  <2>1. PICK f \in FilesGiven : id \in Offers(f)
    BY DEF AllOffers
  <2>. QED
    BY <2>1, JobFacts, IdFacts DEF Offers, Typed
<1>2. modules \in Seq(Ids \cup {NoModule})
  BY DEF Typed
<1>3. Chain(modules \o <<id>>)
  BY <1>1, <1>2, ChainOf DEF Ordered, Loaded
<1>4. Chain(modules)'
  <2>1. Chain(modules)' <=> Chain(modules \o <<id>>)
    BY DEF Chain
  <2>. QED
    BY <1>3, <2>1
<1>5. Loaded' \subseteq Loaded \cup {id}
  <2>1. RangeOf(modules \o <<id>>) = RangeOf(modules) \cup {id}
    BY <1>1, <1>2, AppendRange
  <2>2. RangeOf(modules)' = RangeOf(modules \o <<id>>)
    BY DEF RangeOf
  <2>. QED
    BY <2>1, <2>2 DEF Loaded
<1>6. id[1] \in Nat
  BY OfferFacts DEF Typed
<1>7. \A m \in Loaded' : /\ m \in AllOffers' /\ Kind(m)' # "broken" /\ m[1] <= path'
                         /\ \A b \in pending' : Before(m, b)
  BY <1>5, <1>6, SameJob DEF Ordered
<1>8. phase' \notin Loading /\ phase' \notin {"arguments", "classify"}
  BY DEF Loading
<1>. QED
  BY <1>4, <1>7, <1>8 DEF Ordered

LEMMA NullOrdered ==
  ASSUME Typed, Ordered, NEW result \in {<<>>, <<NoModule>>}, job' = job,
         modules' = modules \o result, UNCHANGED <<path, paths, pending>>, phase' = "load"
  PROVE  Ordered'
<1>1. modules \in Seq(Ids \cup {NoModule})
  BY DEF Typed
<1>2. Chain(modules \o <<NoModule>>)
  BY <1>1, ChainOf DEF Ordered, Loaded
<1>3. modules \o <<>> = modules
  BY <1>1, SequenceFacts
<1>4. Chain(modules \o result)
  BY <1>2, <1>3 DEF Ordered
<1>5. Chain(modules)'
  <2>1. Chain(modules)' <=> Chain(modules \o result)
    BY DEF Chain
  <2>. QED
    BY <1>4, <2>1
<1>6. Loaded' \subseteq Loaded
  <2>2. RangeOf(modules \o <<NoModule>>) = RangeOf(modules) \cup {NoModule}
    BY <1>1, AppendRange
  <2>3. RangeOf(modules)' = RangeOf(modules \o result)
    BY DEF RangeOf
  <2>. QED
    BY <1>3, <2>2, <2>3 DEF Loaded
<1>7. phase' \notin Loading /\ phase' \notin {"arguments", "classify"}
  BY DEF Loading
<1>. QED
  BY <1>5, <1>6, <1>7, SameJob DEF Ordered

LEMMA OrderedNext == Typed /\ Ordered /\ [Next]_vars => Ordered'
<1>. SUFFICES ASSUME Typed, Ordered, [Next]_vars PROVE Ordered'
  OBVIOUS
<1>1. CASE \/ UNCHANGED vars \/ Stopped \/ Crashes \/ Ends \/ Loses \/ Saves \/ SavesNothing
           \/ \E names \in Seq(NamesGiven), c \in {TRUE, complained} : Reads(names, c)
           \/ Enters("arguments", "classify") \/ Enters("classify", "load")
           \/ Enters("extract", "load")
           \/ \E c \in {TRUE, complained} : Adds(c)
           \/ Writes("end", TRUE) \/ Writes("save", complained)
  <2>1. UNCHANGED <<job, modules, pending, path, paths>>
    BY <1>1 DEF vars, input, loaded, cpg, Stopped, Crashes, Ends, Loses, Saves, SavesNothing,
                Reads, FirstArgument, Enters, Adds, AddNext, Writes, GoOn, GoesOn
  <2>2. \/ phase' = phase \/ phase' \in {"end", "save", "load"}
        \/ phase' = "classify" /\ phase = "arguments"
    BY <1>1 DEF vars, input, loaded, cpg, Stopped, Crashes, Ends, Loses, Saves, SavesNothing,
                Reads, FirstArgument, Enters, Adds, AddNext, Writes, GoOn, GoesOn
  <2>. QED
    BY <2>1, <2>2, StayOrdered DEF Loading
<1>2. ASSUME NEW found, NEW c, found \subseteq Inputs, Classifies(found, c) PROVE Ordered'
  <2>1. /\ UNCHANGED <<job, modules, pending, path, phase>> /\ paths' = paths \cup found
        /\ phase = "classify"
    BY <1>2 DEF Classifies, FirstName, GoesOn, loaded, cpg
  <2>2. path = 0 /\ \A p \in found : path < p
    BY <1>2, <2>1, InputFacts DEF Ordered, Typed
  <2>3. Chain(modules)' = Chain(modules) /\ Loaded' = Loaded
    BY <2>1 DEF Chain, Loaded, RangeOf
  <2>4. phase \notin Loading
    BY <2>1 DEF Loading
  <2>. QED
    BY <2>1, <2>2, <2>3, <2>4, SameJob DEF Ordered
<1>3. {p \in {job.real[Head(worklist)]} : IsInput(job.file[p])} \subseteq Inputs \/ worklist = <<>>
  <2>. SUFFICES ASSUME worklist # <<>>
                PROVE  {p \in {job.real[Head(worklist)]} : IsInput(job.file[p])} \subseteq Inputs
    OBVIOUS
  <2>1. Head(worklist) \in NamesGiven
    BY HeadFacts DEF Typed
  <2>2. job.real[Head(worklist)] \in FilesGiven
    BY <2>1, JobFacts DEF Typed
  <2>. QED
    BY <2>2 DEF Inputs
<1>4. ASSUME NEW to, NEW c, Takes(to, c), to \notin {"arguments", "classify"} PROVE Ordered'
  <2>1. /\ path' = Lowest(paths) /\ paths' = paths \ {path'}
        /\ phase = "load" /\ phase' = to /\ UNCHANGED <<job, modules, pending>>
    BY <1>4 DEF Takes, TakePath, GoesOn, loaded, cpg
  <2>2. paths \subseteq Nat /\ path \in Nat /\ pending = {}
    BY <2>1, InputFacts DEF Typed
  <2>3. path' \in paths /\ \A q \in paths : path' <= q
    BY <1>4, <2>1, <2>2, LowestOf DEF Takes
  <2>4. path < path' /\ \A p \in paths' : path' < p
    BY <2>1, <2>2, <2>3 DEF Ordered
  <2>5. Chain(modules)' = Chain(modules) /\ Loaded' = Loaded
    BY <2>1 DEF Chain, Loaded, RangeOf
  <2>6. \A m \in Loaded : m[1] <= path /\ m[1] \in Nat
    BY OfferFacts DEF Ordered, Typed
  <2>7. \A m \in Loaded : m[1] < path' /\ m[1] <= path'
    BY <2>2, <2>3, <2>4, <2>6
  <2>. QED
    BY <1>4, <2>1, <2>2, <2>4, <2>5, <2>7, SameJob DEF Ordered
<1>5. CASE Takes("load", TRUE) \/ Takes(job.file[Lowest(paths)].type, complained)
  <2>1. Lowest(paths) \in Inputs
    BY <1>5, LowestOf, InputFacts DEF Typed, Takes
  <2>2. job.file[Lowest(paths)].type \notin {"arguments", "classify"}
    BY <2>1, InputFacts DEF Typed, Loading
  <2>. QED
    BY <1>4, <1>5, <2>2
<1>6. ASSUME NEW result \in {<<>>, <<NoModule>>}, FailsToLoad(result) PROVE Ordered'
  BY <1>6, NullOrdered DEF FailsToLoad, Deliver, GoesOn, input
<1>7. CASE Loads(<< <<path, 1, 1>> >>) /\ Kind(<<path, 1, 1>>) # "broken"
  <2>. DEFINE id == <<path, 1, 1>>
  <2>1. path \in Inputs /\ job.file[path].type \in {"bitcode", "ir"} /\ phase \in Loading
        /\ pending = {}
    BY <1>7 DEF Loads, Typed, Loading
  <2>2. id \in Offers(path) /\ path \in FilesGiven
    BY <2>1, OneOffer DEF Typed, Inputs
  <2>3. id \in AllOffers /\ id[1] = path
    BY <2>2 DEF AllOffers
  <2>4. \A m \in Loaded : Before(m, id)
    <3>1. \A m \in Loaded : m[1] < path
      BY <2>1 DEF Ordered
    <3>. QED
      BY <2>3, <3>1 DEF Before
  <2>5. /\ UNCHANGED <<job, path, paths, pending>> /\ phase' = "load"
        /\ modules' = modules \o <<id>>
    BY <1>7 DEF Loads, Deliver, GoesOn, input
  <2>. HIDE DEF id
  <2>. QED
    BY <1>7, <2>1, <2>3, <2>4, <2>5, DeliveryOrdered DEF id
<1>8. ASSUME NEW found \in {{}, Embeds(path)}, NEW c, Opens(found, c) PROVE Ordered'
  <2>1. /\ UNCHANGED <<job, modules, path, paths>> /\ pending' = found
        /\ phase \in Loading /\ phase' = "extract"
    BY <1>8 DEF Opens, Extract, GoesOn, input, Loading
  <2>2. path \in Inputs
    BY <2>1 DEF Typed
  <2>3. \A id \in found : id[1] = path
    BY <2>2, EmbedFacts DEF Typed
  <2>4. \A m \in Loaded : m[1] < path
    BY <2>1 DEF Ordered
  <2>5. \A m \in Loaded : \A id \in found : Before(m, id)
    BY <2>3, <2>4 DEF Before
  <2>6. Chain(modules)' = Chain(modules) /\ Loaded' = Loaded
    BY <2>1 DEF Chain, Loaded, RangeOf
  <2>7. phase' \notin Loading /\ phase' \notin {"arguments", "classify"}
    BY <2>1 DEF Loading
  <2>. QED
    BY <2>1, <2>5, <2>6, <2>7, SameJob DEF Ordered
<1>9. ASSUME NEW c, Extracts(<<>>, c) PROVE Ordered'
  <2>1. modules \o <<>> = modules
    BY SequenceFacts DEF Typed
  <2>2. UNCHANGED <<job, modules, path, paths, phase>> /\ pending' \subseteq pending
    BY <1>9, <2>1 DEF Extracts, ExtractNext, GoesOn, input, cpg
  <2>. QED
    BY <2>2, StayOrdered
<1>10. ASSUME NEW c, Extracts(<<First(pending)>>, c),
              Kind(First(pending)) \notin {"broken", "skipped"}
       PROVE  Ordered'
  <2>. DEFINE id == First(pending)
  <2>1. path \in Inputs /\ pending \subseteq Embeds(path) /\ pending # {}
    BY <1>10 DEF Extracts, Typed
  <2>2. id \in pending /\ \A b \in pending \ {id} : Before(id, b)
    BY <2>1, InputFacts, FirstOf DEF Typed
  <2>3. id \in AllOffers /\ id[1] = path
    BY <1>10, <2>1, <2>2, EmbedFacts DEF Typed
  <2>4. /\ UNCHANGED <<job, path, paths, phase>> /\ pending' = pending \ {id}
        /\ modules' = modules \o <<id>> /\ phase = "extract"
    BY <1>10 DEF Extracts, ExtractNext, GoesOn, input, cpg
  <2>5. \A m \in Loaded : Before(m, id)
    BY <2>2 DEF Ordered
  <2>. HIDE DEF id
  <2>. QED
    BY <1>10, <2>2, <2>3, <2>4, <2>5, DeliveryOrdered DEF id
<1>11. Classifies({}, TRUE) => Ordered'
  BY <1>2
<1>12. Classifies({p \in {job.real[Head(worklist)]} : IsInput(job.file[p])}, complained)
         => Ordered'
  BY <1>2, <1>3 DEF Classifies
<1>. QED
  BY <1>1, <1>5, <1>6, <1>7, <1>8, <1>9, <1>10, <1>11, <1>12, StepCases

----------------------------------------------------------------------------
(* The contexts are those of the modules that loaded, one each.            *)
Kept ==
  /\ RangeOf(contexts) = Loaded
  /\ \A i, j \in DOMAIN contexts : contexts[i] = contexts[j] => i = j

LEMMA KeptInit == Init => Kept
<1>. SUFFICES ASSUME Init PROVE Kept
  OBVIOUS
<1>1. modules = <<>> /\ contexts = <<>>
  BY DEF Init
<1>2. DOMAIN contexts = {} /\ Loaded = {} /\ RangeOf(contexts) = {}
  BY <1>1 DEF Loaded, RangeOf
<1>. QED
  BY <1>2 DEF Kept

LEMMA StayKept ==
  ASSUME Kept, UNCHANGED <<modules, contexts>>
  PROVE  Kept'
  BY DEF Kept, Loaded, RangeOf

LEMMA DeliveryKept ==
  ASSUME Typed, Kept, NEW id \in Ids, id # NoModule, id \notin Loaded,
         modules' = modules \o <<id>>, contexts' = contexts \o <<id>>
  PROVE  Kept'
<1>1. modules \in Seq(Ids \cup {NoModule}) /\ contexts \in Seq(Ids)
  BY DEF Typed
<1>2. RangeOf(modules \o <<id>>) = RangeOf(modules) \cup {id}
  BY <1>1, AppendRange
<1>3. RangeOf(contexts \o <<id>>) = RangeOf(contexts) \cup {id}
  BY <1>1, AppendRange
<1>4. RangeOf(modules)' = RangeOf(modules) \cup {id}
  BY <1>2 DEF RangeOf
<1>5. RangeOf(contexts)' = RangeOf(contexts) \cup {id}
  BY <1>3 DEF RangeOf
<1>6. RangeOf(contexts)' = Loaded'
  BY <1>4, <1>5 DEF Kept, Loaded
<1>. DEFINE new == contexts \o <<id>>
<1>7. /\ DOMAIN new = 1 .. Len(contexts) + 1 /\ Len(contexts) \in Nat
      /\ \A i \in 1 .. Len(contexts) : new[i] = contexts[i]
      /\ new[Len(contexts) + 1] = id
  BY <1>1, ConcatFacts, ShortFacts
<1>. HIDE DEF new
<1>8. \A i \in 1 .. Len(contexts) : contexts[i] # id /\ i \in DOMAIN contexts
  BY <1>1 DEF Kept, RangeOf
<1>9. \A i, j \in DOMAIN new : new[i] = new[j] => i = j
  BY <1>7, <1>8 DEF Kept
<1>10. contexts' = new
  BY DEF new
<1>. QED
  BY <1>6, <1>9, <1>10 DEF Kept

LEMMA KeptNext == Typed /\ Ordered /\ Kept /\ [Next]_vars => Kept'
<1>. SUFFICES ASSUME Typed, Ordered, Kept, [Next]_vars PROVE Kept'
  OBVIOUS
<1>1. CASE \/ UNCHANGED vars \/ Stopped \/ Crashes \/ Ends \/ Loses \/ Saves \/ SavesNothing
           \/ \E names \in Seq(NamesGiven), c \in {TRUE, complained} : Reads(names, c)
           \/ Enters("arguments", "classify") \/ Enters("classify", "load")
           \/ Enters("extract", "load")
           \/ Classifies({}, TRUE)
           \/ Classifies({p \in {job.real[Head(worklist)]} : IsInput(job.file[p])}, complained)
           \/ Takes("load", TRUE) \/ Takes(job.file[Lowest(paths)].type, complained)
           \/ \E found \in {{}, Embeds(path)}, c \in {TRUE, complained} : Opens(found, c)
           \/ \E c \in {TRUE, complained} : Adds(c)
           \/ Writes("end", TRUE) \/ Writes("save", complained)
  <2>1. UNCHANGED <<modules, contexts>>
    BY <1>1 DEF vars, input, loaded, cpg, Stopped, Crashes, Ends, Loses, Saves, SavesNothing,
                Reads, FirstArgument, Enters, Classifies, FirstName, Takes, TakePath, Opens,
                Extract, Adds, AddNext, Writes, GoOn, GoesOn
  <2>. QED
    BY <2>1, StayKept
<1>2. ASSUME NEW result \in {<<>>, <<NoModule>>}, FailsToLoad(result) PROVE Kept'
  <2>1. modules' = modules \o result /\ contexts' = contexts
    BY <1>2 DEF FailsToLoad, Deliver
  <2>2. modules \in Seq(Ids \cup {NoModule}) /\ NoModule \in Ids \cup {NoModule}
    BY DEF Typed
  <2>3. RangeOf(modules \o <<NoModule>>) = RangeOf(modules) \cup {NoModule}
    BY <2>2, AppendRange
  <2>4. modules \o <<>> = modules
    BY <2>2, SequenceFacts
  <2>5. RangeOf(modules)' = RangeOf(modules \o result)
    BY <2>1 DEF RangeOf
  <2>6. Loaded' = Loaded
    BY <1>2, <2>3, <2>4, <2>5 DEF Loaded
  <2>. QED
    BY <2>1, <2>6 DEF Kept, RangeOf
<1>3. CASE Loads(<< <<path, 1, 1>> >>)
  <2>. DEFINE id == <<path, 1, 1>>
  <2>1. path \in Inputs /\ job.file[path].type \in {"bitcode", "ir"} /\ phase \in Loading
    BY <1>3 DEF Loads, Typed, Loading
  <2>2. id \in Ids /\ id # NoModule /\ id[1] = path /\ path \in Nat
    BY <2>1, OneOffer, IdFacts, InputFacts DEF Typed
  <2>3. id \notin Loaded
    BY <2>1, <2>2 DEF Ordered
  <2>4. modules' = modules \o <<id>> /\ contexts' = contexts \o <<id>>
    BY <1>3 DEF Loads, Deliver
  <2>. HIDE DEF id
  <2>. QED
    BY <2>2, <2>3, <2>4, DeliveryKept
<1>4. ASSUME NEW c, Extracts(<<>>, c) PROVE Kept'
  <2>1. modules \o <<>> = modules /\ contexts \o <<>> = contexts
    BY SequenceFacts DEF Typed
  <2>. QED
    BY <1>4, <2>1, StayKept DEF Extracts, ExtractNext
<1>5. ASSUME NEW c, Extracts(<<First(pending)>>, c) PROVE Kept'
  <2>. DEFINE id == First(pending)
  <2>1. path \in Inputs /\ pending \subseteq Embeds(path) /\ pending # {}
    BY <1>5 DEF Extracts, Typed
  <2>2. id \in pending
    BY <2>1, InputFacts, FirstOf DEF Typed
  <2>3. id \in Ids /\ id # NoModule /\ id[1] \in Nat /\ id[2] \in Nat /\ id[3] \in Nat
    BY <2>1, <2>2, EmbedFacts DEF Typed
  <2>4. \A m \in Loaded : Before(m, id)
    BY <2>2 DEF Ordered
  <2>5. ~Before(id, id)
    BY <2>3 DEF Before
  <2>6. modules' = modules \o <<id>> /\ contexts' = contexts \o <<id>>
    BY <1>5 DEF Extracts, ExtractNext
  <2>. HIDE DEF id
  <2>. QED
    BY <2>3, <2>4, <2>5, <2>6, DeliveryKept
<1>. QED
  BY <1>1, <1>2, <1>3, <1>4, <1>5, StepCases

----------------------------------------------------------------------------
(* As long as nothing was complained of nothing was left out: the names    *)
(* given are on their way to the paths, and of the files that are inputs   *)
(* each is a path, being read, or has had all it offers taken or pending.  *)
NamesLeft ==
  \A n \in NamesGiven :
    n \in RangeOf(worklist) \/ \E a \in RangeOf(arguments) : n \in RangeOf(a.names)

NamesSorted ==
  \A n \in NamesGiven :
    n \in RangeOf(worklist) \/ job.real[n] \notin Inputs \/ job.real[n] \in paths

Settled(f) ==
  \/ f \in paths
  \/ f = path /\ phase \in Loading
  \/ Offers(f) \subseteq RangeOf(modules) \cup pending

Silent ==
  /\ job.strict /\ status # "exit_1" => complained = FALSE
  /\ complained = FALSE =>
       /\ phase = "arguments" => NamesLeft
       /\ phase = "classify" => NamesSorted
       /\ phase \notin {"arguments", "classify"} => \A f \in Inputs : Settled(f)
       /\ phase = "end" => output.written

LEMMA SilentInit == Init => Silent
<1>. SUFFICES ASSUME Init PROVE Silent
  OBVIOUS
<1>1. arguments = job.arguments
  BY DEF Init
<1>2. NamesLeft
  BY <1>1 DEF NamesLeft, NamesGiven
<1>. QED
  BY <1>2 DEF Init, Silent

LEMMA LoudSilent ==
  ASSUME Silent, GoesOn(TRUE)
  PROVE  Silent'
  BY DEF Silent, GoesOn, Running

(* A step that takes nothing away leaves settled what is settled.          *)
LEMMA StaySettled ==
  ASSUME job' = job, \A f \in Inputs : Settled(f), paths' = paths, pending' = pending,
         modules' = modules, path' = path, phase' \in Loading \/ phase \notin Loading
  PROVE  \A f \in Inputs' : Settled(f)'
<1>1. RangeOf(modules)' = RangeOf(modules)
  BY DEF RangeOf
<1>. QED
  BY <1>1, SameJob DEF Settled

LEMMA SilentNext == Typed /\ Silent /\ [Next]_vars => Silent'
<1>. SUFFICES ASSUME Typed, Silent, [Next]_vars PROVE Silent'
  OBVIOUS
<1>1. CASE UNCHANGED vars \/ Crashes \/ Ends \/ Loses
  <2>1. /\ UNCHANGED <<job, worklist, arguments, paths, path, phase, pending, modules,
                        complained, output>>
        /\ status' = "exit_1" \/ status # "exit_1" \/ status' = status
    BY <1>1 DEF vars, input, loaded, cpg, Crashes, Ends, Loses, Running
  <2>2. NamesLeft' = NamesLeft /\ NamesSorted' = NamesSorted
    BY <2>1, SameJob DEF NamesLeft, NamesSorted, RangeOf
  <2>3. (\A f \in Inputs : Settled(f)) => (\A f \in Inputs' : Settled(f)')
    <3>1. RangeOf(modules)' = RangeOf(modules)
      BY <2>1 DEF RangeOf
    <3>. QED
      BY <2>1, <3>1, SameJob DEF Settled
  <2>. QED
    BY <2>1, <2>2, <2>3 DEF Silent
<1>2. CASE Stopped
  BY <1>2 DEF Silent, Stopped
<1>3. CASE GoesOn(TRUE)
  BY <1>3, LoudSilent
<1>4. ASSUME GoesOn(complained), complained = FALSE,
             /\ phase' = "arguments" => NamesLeft'
             /\ phase' = "classify" => NamesSorted'
             /\ phase' \notin {"arguments", "classify"} => \A f \in Inputs' : Settled(f)'
             /\ phase' = "end" => output'.written
      PROVE  Silent'
  BY <1>4 DEF Silent, GoesOn
<1>5. ASSUME Saves, complained = FALSE PROVE Silent'
  <2>1. /\ UNCHANGED <<job, paths, pending, modules, path>> /\ phase = "save"
        /\ phase' = "end" /\ output'.written
    BY <1>5 DEF Saves, GoesOn, input, loaded
  <2>2. \A f \in Inputs' : Settled(f)'
    BY <1>5, <2>1, StaySettled DEF Silent, Loading
  <2>. QED
    BY <1>4, <1>5, <2>1, <2>2 DEF Saves
<1>6. ASSUME Reads(Head(arguments).names, complained), complained = FALSE PROVE Silent'
  <2>1. /\ arguments # <<>> /\ arguments' = Tail(arguments) /\ phase = "arguments"
        /\ worklist' = worklist \o Head(arguments).names /\ UNCHANGED <<job, phase>>
    BY <1>6 DEF Reads, FirstArgument, GoesOn
  <2>2. Head(arguments) \in RangeOf(job.arguments)
        /\ RangeOf(arguments) = {Head(arguments)} \cup RangeOf(Tail(arguments))
    BY <2>1, HeadFacts DEF Typed
  <2>3. Head(arguments).names \in Seq(NamesGiven) /\ worklist \in Seq(NamesGiven)
    BY <2>2, JobFacts DEF Typed
  <2>4. RangeOf(worklist \o Head(arguments).names)
          = RangeOf(worklist) \cup RangeOf(Head(arguments).names)
    BY <2>3, ConcatFacts
  <2>5. RangeOf(worklist)' = RangeOf(worklist) \cup RangeOf(Head(arguments).names)
    BY <2>1, <2>4 DEF RangeOf
  <2>6. RangeOf(arguments) = {Head(arguments)} \cup RangeOf(arguments)'
    BY <2>1, <2>2 DEF RangeOf
  <2>7. \A a : RangeOf(a.names)' = RangeOf(a.names)
    BY DEF RangeOf
  <2>8. NamesLeft
    BY <1>6, <2>1 DEF Silent
  <2>9. NamesLeft'
    BY <2>1, <2>5, <2>6, <2>7, <2>8, SameJob DEF NamesLeft
  <2>. QED
    BY <1>4, <1>6, <2>1, <2>9 DEF Reads
<1>7. ASSUME Enters("arguments", "classify"), arguments = <<>>, complained = FALSE
      PROVE  Silent'
  <2>1. UNCHANGED <<job, worklist, paths>> /\ phase = "arguments" /\ phase' = "classify"
    BY <1>7 DEF Enters, GoesOn, input
  <2>2. RangeOf(arguments) = {} /\ NamesLeft
    BY <1>7, <2>1 DEF Silent, RangeOf
  <2>3. \A n \in NamesGiven : n \in RangeOf(worklist)
    BY <2>2 DEF NamesLeft
  <2>4. NamesSorted'
    BY <2>1, <2>3, SameJob DEF NamesSorted, RangeOf
  <2>. QED
    BY <1>4, <1>7, <2>1, <2>4 DEF Enters
<1>8. ASSUME Classifies({p \in {job.real[Head(worklist)]} : IsInput(job.file[p])}, complained),
             complained = FALSE
      PROVE  Silent'
  <2>. DEFINE found == {p \in {job.real[Head(worklist)]} : IsInput(job.file[p])}
  <2>1. /\ worklist # <<>> /\ worklist' = Tail(worklist) /\ paths' = paths \cup found
        /\ phase = "classify" /\ UNCHANGED <<job, phase>>
    BY <1>8 DEF Classifies, FirstName, GoesOn
  <2>2. RangeOf(worklist) = {Head(worklist)} \cup RangeOf(Tail(worklist))
    BY <2>1, HeadFacts DEF Typed
  <2>3. RangeOf(worklist)' = RangeOf(Tail(worklist))
    BY <2>1 DEF RangeOf
  <2>4. job.real[Head(worklist)] \in Inputs => job.real[Head(worklist)] \in found
    BY DEF Inputs
  <2>5. NamesSorted
    BY <1>8, <2>1 DEF Silent
  <2>. HIDE DEF found
  <2>6. NamesSorted'
    BY <2>1, <2>2, <2>3, <2>4, <2>5, SameJob DEF NamesSorted
  <2>. QED
    BY <1>4, <1>8, <2>1, <2>6 DEF Classifies
<1>9. ASSUME Enters("classify", "load"), worklist = <<>>, complained = FALSE PROVE Silent'
  <2>1. UNCHANGED <<job, paths>> /\ phase = "classify" /\ phase' = "load"
    BY <1>9 DEF Enters, GoesOn, input
  <2>2. RangeOf(worklist) = {} /\ NamesSorted
    BY <1>9, <2>1 DEF Silent, RangeOf
  <2>3. \A f \in Inputs : f \in paths
    BY <2>2 DEF NamesSorted, Inputs, FilesGiven
  <2>4. \A f \in Inputs' : Settled(f)'
    BY <2>1, <2>3, SameJob DEF Settled
  <2>. QED
    BY <1>4, <1>9, <2>1, <2>4 DEF Enters
<1>10. ASSUME Takes(job.file[Lowest(paths)].type, complained), complained = FALSE
       PROVE  Silent'
  <2>1. /\ path' = Lowest(paths) /\ paths' = paths \ {path'} /\ phase = "load" /\ paths # {}
        /\ phase' = job.file[Lowest(paths)].type /\ UNCHANGED <<job, pending, modules>>
    BY <1>10 DEF Takes, TakePath, GoesOn, loaded
  <2>2. Lowest(paths) \in Inputs
    BY <2>1, LowestOf, InputFacts DEF Typed
  <2>3. phase' \in Loading
    BY <2>1, <2>2, InputFacts DEF Typed
  <2>4. \A f \in Inputs : f \in paths \/ Offers(f) \subseteq RangeOf(modules) \cup pending
    BY <1>10, <2>1 DEF Silent, Settled, Loading
  <2>5. RangeOf(modules)' = RangeOf(modules)
    BY <2>1 DEF RangeOf
  <2>6. \A f \in Inputs' : Settled(f)'
    BY <2>1, <2>3, <2>4, <2>5, SameJob DEF Settled
  <2>. QED
    BY <1>4, <1>10, <2>3, <2>6 DEF Takes, Loading
<1>11. ASSUME Loads(<< <<path, 1, 1>> >>), complained = FALSE PROVE Silent'
  <2>1. path \in Inputs /\ job.file[path].type \in {"bitcode", "ir"}
    BY <1>11 DEF Loads, Typed, Loading
  <2>2. Offers(path) = {<<path, 1, 1>>} /\ <<path, 1, 1>> \in Ids
    BY <2>1, OneOffer, IdFacts, InputFacts DEF Typed
  <2>3. /\ modules' = modules \o << <<path, 1, 1>> >> /\ phase' = "load"
        /\ phase \in {"bitcode", "ir"} /\ UNCHANGED <<job, path, paths, pending>>
    BY <1>11 DEF Loads, Deliver, GoesOn, input
  <2>4. RangeOf(modules \o << <<path, 1, 1>> >>) = RangeOf(modules) \cup {<<path, 1, 1>>}
    <3>1. modules \in Seq(Ids \cup {NoModule}) /\ <<path, 1, 1>> \in Ids \cup {NoModule}
      BY <2>2 DEF Typed
    <3>. QED
      BY <3>1, AppendRange
  <2>5. RangeOf(modules)' = RangeOf(modules) \cup {<<path, 1, 1>>}
    BY <2>3, <2>4 DEF RangeOf
  <2>6. \A f \in Inputs : f = path \/ f \in paths
                           \/ Offers(f) \subseteq RangeOf(modules) \cup pending
    BY <1>11, <2>3 DEF Silent, Settled
  <2>7. \A f \in Inputs : f \in paths \/ Offers(f) \subseteq RangeOf(modules)' \cup pending
    BY <2>2, <2>5, <2>6
  <2>8. \A f \in Inputs' : Settled(f)'
    BY <2>3, <2>7, SameJob DEF Settled
  <2>. QED
    BY <1>4, <1>11, <2>3, <2>8 DEF Loads
<1>12. ASSUME Opens(Embeds(path), complained), complained = FALSE PROVE Silent'
  <2>1. /\ pending' = Embeds(path) /\ phase = "binary" /\ phase' = "extract"
        /\ UNCHANGED <<job, path, paths, modules>>
    BY <1>12 DEF Opens, Extract, GoesOn, input
  <2>2. path \in Inputs /\ pending = {}
    BY <2>1 DEF Typed, Loading
  <2>3. Offers(path) \subseteq Embeds(path)
    BY <2>2, OffersOf
  <2>4. \A f \in Inputs : f = path \/ f \in paths \/ Offers(f) \subseteq RangeOf(modules)
    BY <1>12, <2>1, <2>2 DEF Silent, Settled
  <2>5. RangeOf(modules)' = RangeOf(modules)
    BY <2>1 DEF RangeOf
  <2>6. \A f \in Inputs' : Settled(f)'
    BY <2>1, <2>3, <2>4, <2>5, SameJob DEF Settled
  <2>. QED
    BY <1>4, <1>12, <2>1, <2>6 DEF Opens
<1>13. ASSUME Extracts(<<>>, complained), Kind(First(pending)) = "skipped", complained = FALSE
       PROVE  Silent'
  <2>. DEFINE id == First(pending)
  <2>1. /\ pending' = pending \ {id} /\ modules' = modules \o <<>> /\ phase = "extract"
        /\ UNCHANGED <<job, path, paths, phase>>
    BY <1>13 DEF Extracts, ExtractNext, GoesOn, input
  <2>2. modules' = modules
    BY <2>1, SequenceFacts DEF Typed
  <2>3. \A f \in Inputs : f \in paths \/ Offers(f) \subseteq RangeOf(modules) \cup pending
    BY <1>13, <2>1 DEF Silent, Settled, Loading
  <2>4. \A f \in Inputs : id \notin Offers(f)
    BY <1>13, OffersOf
  <2>5. RangeOf(modules)' = RangeOf(modules)
    BY <2>2 DEF RangeOf
  <2>6. \A f \in Inputs' : Settled(f)'
    BY <2>1, <2>3, <2>4, <2>5, SameJob DEF Settled
  <2>. QED
    BY <1>4, <1>13, <2>1, <2>6 DEF Extracts
<1>14. ASSUME Extracts(<<First(pending)>>, complained), complained = FALSE PROVE Silent'
  <2>. DEFINE id == First(pending)
  <2>1. /\ pending' = pending \ {id} /\ modules' = modules \o <<id>> /\ phase = "extract"
        /\ pending # {} /\ UNCHANGED <<job, path, paths, phase>>
    BY <1>14 DEF Extracts, ExtractNext, GoesOn, input
  <2>2. path \in Inputs /\ pending \subseteq Embeds(path)
    BY <2>1 DEF Typed
  <2>3. id \in Ids
    BY <2>1, <2>2, InputFacts, FirstOf, EmbedFacts DEF Typed
  <2>4. RangeOf(modules \o <<id>>) = RangeOf(modules) \cup {id}
    <3>1. modules \in Seq(Ids \cup {NoModule}) /\ id \in Ids \cup {NoModule}
      BY <2>3 DEF Typed
    <3>. QED
      BY <3>1, AppendRange
  <2>5. RangeOf(modules)' = RangeOf(modules) \cup {id}
    BY <2>1, <2>4 DEF RangeOf
  <2>6. \A f \in Inputs : f \in paths \/ Offers(f) \subseteq RangeOf(modules) \cup pending
    BY <1>14, <2>1 DEF Silent, Settled, Loading
  <2>7. \A f \in Inputs' : Settled(f)'
    BY <2>1, <2>5, <2>6, SameJob DEF Settled
  <2>. QED
    BY <1>4, <1>14, <2>1, <2>7 DEF Extracts
<1>15. ASSUME \/ Enters("extract", "load") \/ Adds(complained) \/ Writes("save", complained),
              complained = FALSE
       PROVE  Silent'
  <2>1. /\ UNCHANGED <<job, paths, pending, modules, path>>
        /\ phase \in {"extract", "load"} /\ phase' \in {"load", "save"} /\ GoesOn(complained)
    BY <1>15 DEF Enters, Adds, AddNext, Writes, GoOn, GoesOn, input, loaded
  <2>2. \A f \in Inputs' : Settled(f)'
    <3>1. \A f \in Inputs : Settled(f)
      BY <1>15, <2>1 DEF Silent
    <3>2. RangeOf(modules)' = RangeOf(modules)
      BY <2>1 DEF RangeOf
    <3>. QED
      BY <2>1, <3>1, <3>2, SameJob DEF Settled, Loading
  <2>. QED
    BY <1>4, <1>15, <2>1, <2>2
<1>16. CASE complained = FALSE
  <2>1. ASSUME NEW names \in Seq(NamesGiven), NEW c \in {TRUE, complained}, Reads(names, c),
               c = FALSE => names = Head(arguments).names
        PROVE  Silent'
    <3>1. c = TRUE \/ (c = complained /\ names = Head(arguments).names)
      BY <1>16, <2>1
    <3>. QED
      BY <1>3, <1>6, <1>16, <2>1, <3>1 DEF Reads
  <2>2. ASSUME NEW found \in {{}, Embeds(path)}, NEW c \in {TRUE, complained}, Opens(found, c),
               c = FALSE => found = Embeds(path)
        PROVE  Silent'
    <3>1. c = TRUE \/ (c = complained /\ found = Embeds(path))
      BY <1>16, <2>2
    <3>. QED
      BY <1>3, <1>12, <1>16, <2>2, <3>1 DEF Opens
  <2>3. ASSUME NEW c \in {TRUE, complained}, Adds(c) PROVE Silent'
    BY <1>3, <1>15, <1>16, <2>3 DEF Adds
  <2>4. \/ SavesNothing \/ Classifies({}, TRUE) \/ Takes("load", TRUE) \/ Extracts(<<>>, TRUE)
        \/ Writes("end", TRUE) \/ \E result \in {<<>>, <<NoModule>>} : FailsToLoad(result)
        => GoesOn(TRUE)
    BY DEF SavesNothing, Classifies, Takes, FailsToLoad, Extracts, Writes
  <2>. QED
    BY <1>1, <1>2, <1>3, <1>5, <1>7, <1>8, <1>9, <1>10, <1>11, <1>13, <1>14, <1>15,
       <1>16, <2>1, <2>2, <2>3, <2>4, StepCases
<1>17. CASE complained = TRUE
  BY <1>1, <1>2, <1>3, <1>17, StepCases
  DEF Saves, SavesNothing, Reads, Enters, Classifies, Takes, FailsToLoad, Loads,
                Opens, Extracts, Adds, Writes
<1>. QED
  BY <1>16, <1>17 DEF Typed

----------------------------------------------------------------------------
(* The inductive invariant.                                                *)
DriverInv == Typed /\ Archived /\ Ordered /\ Kept /\ Silent

LEMMA DriverInvariant == Spec => []DriverInv
<1>1. Init => DriverInv
  BY TypedInit, ArchivedInit, OrderedInit, KeptInit, SilentInit DEF DriverInv
<1>2. DriverInv /\ [Next]_vars => DriverInv'
  BY TypedNext, ArchivedNext, OrderedNext, KeptNext, SilentNext DEF DriverInv
<1>. QED
  BY <1>1, <1>2, PTL DEF Spec

(* No module is loaded twice.                                              *)
LEMMA OrderIsStrict ==
  ASSUME Typed, Ordered, NEW i \in DOMAIN modules, NEW j \in DOMAIN modules,
         modules[i] = modules[j], modules[i] # NoModule
  PROVE  i = j
<1>1. DOMAIN modules = 1 .. Len(modules)
  BY DEF Typed
<1>2. modules[i] \in AllOffers
  BY DEF Ordered, Loaded, RangeOf
<1>3. ~Before(modules[i], modules[j])  /\ ~Before(modules[j], modules[i])
  BY <1>2, OfferFacts DEF Typed, Before
<1>4. ~(i < j) /\ ~(j < i)
  BY <1>3 DEF Ordered, Chain
<1>. QED
  BY <1>1, <1>4

(* The contexts the loader keeps are those of the modules it handed over:  *)
(* of a module that did not parse the context goes, of a module that did   *)
(* it stays, and no two modules share one, however often the same file was *)
(* given and whatever of it vanished.                                      *)
THEOREM ContextsMatch == Spec => []ContextsOfModules
<1>1. DriverInv => ContextsOfModules
  BY OrderIsStrict DEF DriverInv, Kept, Loaded, ContextsOfModules
<1>. QED
  BY <1>1, DriverInvariant, PTL

LEMMA ArchiveMeans ==
  ASSUME DriverInv
  PROVE  ArchiveIsWhole
<1>1. ASSUME output.written
      PROVE  /\ output.files = modules
             /\ \A i, j \in DOMAIN modules : i < j => Before(modules[i], modules[j])
             /\ RangeOf(modules) \subseteq {id \in AllOffers : Kind(id) # "broken"}
  <2>1. /\ output.files = files /\ added = Len(modules) /\ Len(files) = added
        /\ \A k \in 1 .. added : files[k] = modules[k] /\ modules[k] # NoModule
    BY <1>1 DEF DriverInv, Archived
  <2>2. files \in Seq(Ids) /\ modules \in Seq(Ids \cup {NoModule})
    BY DEF DriverInv, Typed
  <2>3. /\ DOMAIN files = 1 .. Len(files) /\ DOMAIN modules = 1 .. Len(modules)
        /\ files = [k \in 1 .. Len(files) |-> files[k]]
        /\ modules = [k \in 1 .. Len(modules) |-> modules[k]]
    BY <2>2
  <2>4. files = modules
    BY <2>1, <2>3
  <2>5. \A i \in DOMAIN modules : modules[i] # NoModule
    BY <2>1, <2>3
  <2>6. \A i, j \in DOMAIN modules : i < j => Before(modules[i], modules[j])
    BY <2>5 DEF DriverInv, Ordered, Chain
  <2>7. RangeOf(modules) \subseteq {id \in AllOffers : Kind(id) # "broken"}
    BY <2>5 DEF DriverInv, Ordered, Loaded, RangeOf
  <2>. QED
    BY <2>1, <2>4, <2>6, <2>7
<1>2. status \in {"exit_1", "crash"} => output = Previous
  BY DEF DriverInv, Archived
<1>. QED
  BY <1>1, <1>2 DEF ArchiveIsWhole

(* The archive is the previous one or a whole one: at the moment it is     *)
(* replaced every module that loaded is in it, in order, and none is null; *)
(* a run that exits with 1 or crashes has not touched it.                  *)
THEOREM ArchiveWhole == Spec => []ArchiveIsWhole
<1>1. DriverInv => ArchiveIsWhole
  BY ArchiveMeans
<1>. QED
  BY <1>1, DriverInvariant, PTL

(* A run that ends well without a warning has written an archive of all    *)
(* that was given, and in strict mode there is no other way to end well.   *)
THEOREM Silence == Spec => []SilenceMeansSuccess
<1>1. DriverInv => SilenceMeansSuccess
  <2>. SUFFICES ASSUME DriverInv, status = "exit_0"
                PROVE  /\ job.strict => ~complained
                       /\ ~complained => output.written /\ RangeOf(output.files) = AllOffers
    BY DEF SilenceMeansSuccess
  <2>1. phase = "end"
    BY DEF DriverInv, Archived
  <2>2. job.strict => ~complained
    BY DEF DriverInv, Silent
  <2>3. ASSUME complained = FALSE
        PROVE  output.written /\ RangeOf(output.files) = AllOffers
    <3>1. output.written /\ \A f \in Inputs : Settled(f)
      BY <2>1, <2>3 DEF DriverInv, Silent
    <3>2. paths = {} /\ pending = {} /\ phase \notin Loading
      BY <2>1 DEF DriverInv, Archived, Typed, Loading
    <3>3. \A f \in Inputs : Offers(f) \subseteq RangeOf(modules)
      BY <3>1, <3>2 DEF Settled
    <3>4. \A f \in FilesGiven \ Inputs : Offers(f) = {}
      BY NoOffers
    <3>5. AllOffers \subseteq RangeOf(modules)
      BY <3>3, <3>4 DEF AllOffers
    <3>6. ArchiveIsWhole
      BY ArchiveMeans
    <3>7. output.files = modules /\ RangeOf(modules) \subseteq AllOffers
      BY <3>1, <3>6 DEF ArchiveIsWhole
    <3>. QED
      BY <3>1, <3>5, <3>7
  <2>. QED
    BY <2>2, <2>3 DEF DriverInv, Typed
<1>. QED
  BY <1>1, DriverInvariant, PTL

=============================================================================
