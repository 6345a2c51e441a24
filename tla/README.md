# A verification model of llvm2cpg

llvm2cpg turns LLVM bitcode into a code property graph (CPG): a protobuf graph
in a zip archive. It is one sequential C++ program. What is hard about it is not
threads but *order*: an analysis in one pass justifies marks that another pass
trusts long after; nodes are built under conventions nothing enforces; iteration
over hash tables and unspecified evaluation orders must not show; every step may
fail, and then what is half done must not show either.

The modules here model that logic in TLA+, TLC checks them on bounded instances,
and TLAPS proves what matters most for every instance. Line numbers refer to
`src/`; `PROJECT.json` maps every definition to the lines it stands for.

## Inventory

| Component | State it keeps | Operations | Interacts with | Hard, and what makes it correct |
|---|---|---|---|---|
| **Driver** `tools/llvm2cpg` | input paths, modules | scan, identify, load, add, write | everything, in sequence | files vanish or do not parse; strict mode exits from anywhere. Archive old or whole; silence means success |
| **Bitcode loader** `lib/CPG/BitcodeLoader.cpp` | a stack of LLVM contexts | loadBitcode, loadIR, extractBitcode | Driver; external `ebc`, LLVM | a context lives exactly as long as its module |
| **CPG, CPGFile, CPGMethod** `lib/CPG` | files, their methods and locals | addBitcode, validateBitcode | transforms first, locals after | locals collected must be those the emitter needs |
| **Transforms** `lib/Transforms/Transforms.cpp` | the module, in place | pass pipeline, ObjC type hints, opaque renaming, string inlining | LLVM passes; marks read by the emitter | a literal stands at the operand that refers to it; a type is named after its own description |
| **Instruction visitor** `lib/CPG/CPGInstVisitor.cpp` | names, arguments, variables | one visit per instruction, then the formal arguments | marks; LLVM debug information | the locals are the values without an expression; latest name wins; all arguments are named or none |
| **Load inlining** `lib/Transforms/CustomPasses.cpp` | marks on instructions, per-block tables | one scan and one decision loop per block | marks read by CPGInstVisitor and CPGEmitter | transitively: no load is read past a write that may spoil it |
| **CPG builder** `CPGProtoBuilder`, `CPGProtoNode` | nodes, edges, entries | newNode, connect, setEntry | the emitters | expressions are trees; their control flow is a line |
| **Method emitter** `CPGEmitter.cpp` | locals, current block, entry and exit points | emitMethod and a visitor for each instruction | builder, type emitter, marks | the graph denotes the function and flows as it flows |
| **Type emitter** `CPGTypeEmitter.cpp` | canonical names, member names, type declarations | deduplication, struct members, ObjC types and bindings | TypeEquality, ObjC hierarchy, all modules at once | equal types share a name, others do not; names not stale across modules |
| **Type equality** `lib/LLVMExt` | hash cache, numbers of opaque structs | constructTypeVector, typesEqual | type emitter | equality is isomorphism, recursion included |
| **ObjC traversal, hierarchy** | sub- and metaclass maps, methods | constructHierarchy, propagateSubclassMethods | type emitter | bindings of a class are what dispatch finds |
| **Writer, adapter** | the graph, the archive | writeCpg, saveToArchive | Driver | five calls that may fail |
| **Logger** | strict mode | uiWarning, uiFatal | all | strict: nothing happens after a warning |
| Demangler, operator names, version, bitcode-transformer, objc-typegen | none of interest | | | string functions and developer tools; not modelled |

The hazards, each at its line and with the properties that guard it, are in
`PROJECT.json`.

## The modules

**`InlineTrees`** holds what an LLVM function is to the inlining pass (blocks,
kinds, operands, and `mods`: which write may modify what which load reads) and
the operators over inlined trees. `Up(f, m, i)` is the set the recursion of
`usedUntil` reaches through marked users, `Down` the one `validUntil` reaches
through marked operands; both are written as least closed sets, so that they can
be proved about. `Clean(f, m)` is the goal: every marked load is read, wherever
its tree is used, before the first write that may spoil it.

**`InlineSpec`** is the abstract promise of the pass: mark the addresses, then one
load at a time, each time ending in a clean marking.

**`LoadInline`** is `LoadInlinePass::run`. Actions and code: `MarkAddresses`
(103-124), `EnterBlock` (134-141, the tables cleared), `ScanInstruction`
(142-169, one instruction: numbering, candidate, spoilers), `EndScan` (170-191,
what was never spoilt, and the sort), `DecideLoad` (193-216), `LeaveBlock`,
`Finish`. `phase` is the program counter; `marked` is the metadata. The set
`toInline` stands for the sorted vector: `Lowest` takes the next.

**`CPGBuilder`** abstracts `CPGProtoBuilder` and `resolveConnections`: nodes with
an entry, AST edges and CFG edges. `Declare` creates a call whose arguments are
still to come, `NewNode` a finished node, `Resolve` joins children under a
parent. `MayJoin` is the discipline the emitter follows and the code never
states: children finished, distinct, parentless, and the parent not joined before.

**`MethodEmitter`** is `emitMethod` with its visitors. The recursion of the visitor
over an operand tree becomes a stack of things to do (`work`), its return values a
stack of nodes (`vals`). The unspecified evaluation order of
`emitAssignCall(type, lhs, rhs)` is a choice in `Assignment`. Line
numbers, types and code strings are left out. It uses `CPGBuilder!Join`, so it
*composes* with the builder; `LocalsAgree` and `BuildsExpressions` are stated here.
`BuildsExpressions` is the refinement: every step of the emitter is a step of
`CPGBuilder` under `MayJoin`, or none. **`MethodFlow`** states the control flow of
the finished method against the LLVM function's (`FlowIsLLVMFlow`), without recursion,
so that it can be proved. **`MethodMeaning`** extends it with what the expressions must
say: a meaning is `<<name, of, k>>`, `Parts` are the meanings of its arguments, and the
recursive function `Meaning` gives a node of the finished graph its meaning by its place
(`StatementsDenoteInstructions`). `Above` climbs from a node to its statement, and
`Before` is the order in which the control flow meets two nodes: by the ORDER of their
statements, inside one a child before its parent and the earlier argument first. With
it `ReadsSeeSameWrites` says that the CPG reads memory where LLVM does, when the marks
are clean (`MarksAreClean`, which is what `InlinedReadsUnspoilt` promises of `LoadInline`).

**`ValueNames`** is `CPGInstVisitor`: one action per argument, per instruction
(skipped because it is inlined, a variable, nothing, or a debug intrinsic), per
retained variable and per formal argument. `Recorded` and `Renamed` are the two
things `visitDbgVariableIntrinsic` may do, with its early returns. A name is a
text and a suffix (`.arg`, `.addr`, `.derived`); the `value.1` LLVM makes of a name
that is taken is left out.

**`StringInline`** is `inlineGlobalStrings` (`Collect` or `Abort`, `Resolve`,
`MarkUsers`, `Attach`) together with the emitter that reads its marks (`Emit`), because what can
go wrong lies between them: the marks are entries matched with operands by
position. A global is reduced to what its initializer is or leads to, an
instruction to its operands. **`OpaqueTypes`** is `renameOpaqueObjCTypes`: methods
first, then variables, with the walk over debug types whose `visitedTypes` is
shared by all structs. **`Transforms`** composes the two in the order of
`transformBitcode` (`INSTANCE OpaqueTypes WITH phase <- typePhase, ...`).
`LeadsTo` is written as a least closed set, so that it can be proved about.

**`TypeDedup`** is `recordCanonicalStructNames` with `constructTypeVector`.
`TakeCluster` takes clusters in any order (an `unordered_map`), `Partition` leaves
both parts in any arrangement (`std::partition`). Hashes are taken to be perfect.

**`StructMembers`** is `emitStructMembers` over all modules, with the breadth-first
walk of `recordStructInformation` (`SkipType`, `VisitType`), the recording of names
(`RecordNames`) and its sanity check, the declaration of the members (`EmitStruct`)
and, after the last module, the accesses of `emitGEP` (`EmitAccess`), which read a
table the modules have been overwriting since the members were declared.

**`ObjCHierarchy`** is the whole of `ObjCTypeHierarchy` and its traversal, and
`emitObjCTypes` and `emitObjCMethodBindings`. `AddClass` and `AddCategory` take one
definition; the two recursions over subclasses (`emitObjCType`, `fillInMethods`)
are a list of calls not yet made, in any order a hash may give (`Orders`).
`methodMapping` is a set of triples and `Insert` the set insertion that keeps the
first of a name. The abstract specification is message passing itself
(`Responders`): climb from the class until one has the selector.

**`Driver`** is a run: `getInputFilePaths`, the loading loop of `main`,
`BitcodeLoader`, `CPG::addBitcode`, `CPGProtoWriter` and `saveToArchive`.
`Complain` is `uiWarning`/`uiFatal`: in strict mode it ends the run in place of the
rest of the step. `Vanish` is the environment, which may remove a file between any
two steps: a path is resolved, identified twice and opened. External are the file
system, `ebc` (an unreadable binary has no bitcode) and libzip (the archive is
replaced in `zip_close`).

How they meet: `Driver` loads modules and adds them; adding runs `Transforms`, then
`LoadInline`; `ValueNames` and `MethodEmitter` read the marks `LoadInline` leaves
(`MCMethodEmitter` gives the emitter the markings that are `InlineTrees!Clean`, and
no others, so that what is proved of the one is what the other assumes; both use
the same rule for which instruction is a local); `StringInline` contains both ends
of its marks; `MethodEmitter` builds under `CPGBuilder`'s discipline. `TypeDedup`
gives structs their canonical names before `StructMembers` declares their members,
both before any method is emitted; `ObjCHierarchy` declares classes before the
methods and binds methods after.

## The runs

No run uses a state constraint or symmetry; all systems end in states without
successors (the program stops), hence `CHECK_DEADLOCK FALSE`. That a run does not
stop early is said by properties: `ClassesAreDeclared` (the `.at` that would throw),
`Terminates`, `ReachesMethods`, `OperandsHaveNodes`.

| Run | Instance | What it shows |
|---|---|---|
| `load_inline` | all functions of five instructions in one or two blocks out of a family with every kind, operand shape and aliasing that matters (30,768 of them) | `InlinedReadsUnspoilt`, its inductive strengthening `PassInvariant`, `NoMissedLoad` (a load left alone really had a spoiler before a use), `Reproducible` (one set of marks alone has each load decided by those before it, and the pass ends in it, as the comment at 180-186 has it), `ImplementsInlineSpec` |
| `cpg_builder` | 5 nodes, 3 children | `AstIsForest` (one parent, no cycle), `FlowIsLinear` (each node of an expression is left and entered at most once) |
| `method_emitter` | seven functions, with every clean marking and both evaluation orders | `StatementsDenoteInstructions`, `FlowIsLLVMFlow`, `ReadsSeeSameWrites`, `LocalsAgree`, `BuildsExpressions` |
| `value_names` | functions of one to three arguments and four instructions, two of them annotations of a local, of parameters with and without a name, of an inlined function's parameters, at every kind of value; with a subprogram or without | `VariablesAreTheLocals`, `LatestNameWins`, `AllParametersOrNone` |
| `transforms` | modules with C strings, Objective-C strings, selectors and casts, of a number too, in two orders and every load, store and call over them; modules with four structs, two methods and three variables | `LiteralsAreStrings`, `OperandsHaveNodes`, `TypesGetTheirNames` |
| `type_dedup` | sets of three and four structs, recursive, shared, opaque | `NamesFollowEquality`, `EqualIsIsomorphic` |
| `struct_members` | two modules that have `Foo`, another struct called `Foo`, an opaque one or none, and describe it fully and recursively, through typedefs or a function, as a declaration, as another struct or not at all | `WalkIsComplete`, `ListsFit`, `StructsAreDeclaredOnce`, `FieldsAreMembersWhenAgreed`, `ReachesMethods` (liveness) |
| `objc_hierarchy` | three classes and a category over two modules in every placement, below a class of a framework or not | `ClassesAreDeclared`, `InheritanceIsRecorded`, `MethodMappingIsSound`, `BindingsAreDispatch`, `MethodsBelongToTheirDefinition`, `Terminates` (liveness) |
| `driver` | two files and a link to the first, twelve contents each, three command lines, strict or not, every set of files present at the start | `ArchiveIsWhole`, `SilenceMeansSuccess`, `ContextsOfModules` |
| `method_emitter_shown` | as `method_emitter` | violated: a load inlined into a `switch` is nowhere in the CPG |
| `type_dedup_names` | as `type_dedup` | violated: `Foo_1` the class and `Foo_1` the program's struct |
| `driver_null` | as `driver` | violated: a bitcode file that does not parse reaches `assert(bitcode)` as a null pointer |

Why the bounds are enough to be interesting. Five instructions hold two loads, one
under an address of the other, a write and a use behind it: the example of the
comment in the pass, and every way two inlined loads get into each other's way in
a block; two blocks hold uses outside the block and stale tables. Five nodes hold a
parent, a grandparent and siblings. The functions of `method_emitter` are chosen
for one difficulty each: a chain of loads, calls of each kind with arguments, a
switch that lists a successor twice, a loop, an instruction of every other kind, a
load used twice, an invoke. Two annotations are the least with a latest one; three
arguments let a parameter's number be in range for one function and not for
another. Two modules are the least that can disagree, and the second is also the
one that comes too late. Three classes hold an override in the middle of a chain
and a fork; a framework's class makes a root that is declared in two modules.
`WalkBound` bounds the walk of one comparison; `BoundAssumption` says what it has to be,
and `EqualIsIsomorphic` checks that every walk ended. `EmitAccess` asks for the first four members. The recursion in
the load inlining over unreachable blocks, where LLVM allows an instruction to use
itself, is outside of `WellFormed`.

Each property has a mutant in `PROJECT.json`: a plausible slip in one definition
(named in the modules next to the right one) that TLC then catches with it.

### Fairness

Two runs have liveness properties, `Terminates` and `ReachesMethods`, under
`FairSpec == Spec /\ WF_vars(Next)`. The program has one thread and these loops wait
for nothing: as long as a step is possible, one is made, which is what weak
fairness of `Next` says. It does not decide which step is made, so the order of the
hash tables stays open. What makes them hold is in the code: the set of visited
debug types. In the input, superclasses form no cycle (`SuperclassesEnd`, an
assumption: the compiler rejects such classes).
For the other modules, which are straight sequences of loops over finite inputs, no
fairness is assumed and no liveness claimed.

## What is proved

TLAPS checks these for all values of the constants, from named assumptions on the
inputs: `FunctionsAssumption` (LLVM functions are `WellFormed`), `BoundsAssumption`
and `TypeDedup`'s `BoundAssumption` (`WalkBound` is large enough for every context), and
in `TypeDedup` (`TypeContextsAssumption`), `ObjCHierarchy`, `StructMembers`, `ValueNames`
and `Driver` an assumption on the contexts or jobs, which TLC evaluates on every instance.
`ModulesAssumption` is what LLVM's types and clang make sure of in a module
(`HasStrings`, `HasTypes`).
`MethodEmitter`'s `FunctionsAssumption` says that a function is blocks laid out one
after the other, each with a terminator, and instructions with at least the operands
their kind needs, which are values (`WellFormed`); `ObjCHierarchy`'s `ContextsAssumption` that the compiler and the
Objective-C runtime have accepted the classes (`SuperclassesEnd`, `OneSuperclass`,
`OneDefinition`).

* `PassesProofs`, about the two modules of passes. Of `LoadInline`: `TypeCorrect`, `PassInvariantHolds`, `Safety`, `NothingMissed`
  (`NoMissedLoad`), `IsReproducible` (`Reproducible`), `Implements`.
  It begins with lemmas about `Up`, `Down` and `Uses`: membership, closure, how they
  change when one load is marked, and that more marks only lengthen them.
  `InlinedReadsUnspoilt` is not inductive: nothing in it says that the tables describe
  the block. `PassInvariant` adds where the scan is (`ScanPosition`), what can be
  marked so far (`MarkedSoFar`), that no inlined load's tree leaves its block
  (`NoEscape`), that recorded spoilers are the first ones (`SpoilersAreFirst`) and
  that every inlined load's uses come before its spoilers (`UsedBeforeSpoilt`). One
  step per action; the heart is `DecideLoad`, where marking a load lengthens the
  trees of others on both sides. `NothingMissed` adds `MissedSoFar`, that a load
  passed and not marked cannot be marked next to the marked ones before it, which later
  marks do not change because they only lengthen trees; `DecidedInOrder`, that only loads
  before it are marked when a load is decided about; and `SpoilersSpoil`, that what
  `firstSpoiler` records spoils or is the end of the block. `IsReproducible` follows:
  two sets of marks decided that way would differ at a first load, about which both
  decided alike. `Implements` maps `MarkAddresses` and the marking
  `DecideLoad` to the steps of `InlineSpec`, all else to stuttering.
  Of `Transforms`: `NamesAreOwn` (`TypesGetTheirNames`), `LiteralsRight`
  (`LiteralsAreStrings`), `NodesForOperands` (`OperandsHaveNodes`), for modules of any
  size, from `ModulesAssumption`. `StringInvariant` follows a string from table to
  operand: `inlines` has exactly the globals met so far that are or lead to a string,
  each with its own (`Collected`, `InlinesAre`); the triples are exactly the references
  of loads, stores and calls (`MarksAreReferences`), the metadata those triples, operand
  by operand (`MetadataIsMarks`), and what has been shown is the metadata
  (`ShownRight`). `TypeInvariant` has the worklist (`NamelessAreCollected`: every
  nameless opaque struct of a variable, and none that is the self of a method), the walk
  (`OneWalk`: one debug type at a time to go, to which the pair's leads) and the visited
  types (`VisitsAreComplete`: closed under bases but for what is to go, and a composite
  visited has given its name to a struct it describes). `NamelessWhenShared` follows at
  the end: what describes a struct without a name has been visited for another.
* `CPGBuilderProofs`: `BuilderTypeCorrect`, `ExpressionsAreTrees`, `FlowIsALine`.
  The strengthening is `EntryIsFinished`, that the entry of a root is inside its
  finished tree and has no flow into it, without which the flow does not stay a line
  in a join. `NoCycle` is stated without reachability (every set of nodes has
  one without a parent in it), so that no induction over paths is needed. The lemmas
  `DeclaresStep` and `CreatesStep` do without the bound `MaxNodes`, for the emitter.
* `MethodEmitterProofs`: `TypeCorrect`, `LocalsAgreeing` (`LocalsAgree`), `Implements`
  (`BuildsExpressions`), and with it for every function `MethodsAreForests`,
  `MethodsFlowInLines`: what `CPGBuilder` promises holds of each emitted method.
  `EmitterInvariant` ties the stack of things to do to the stack of nodes: the tasks on
  `work` run from the shape of `vals` (how many nodes, which of them still without an
  entry) to one finished root (`WorkFits`), so that each task finds what it joins. With
  it go the graph so far, in which a node that has children has its entry (`Graph`);
  that what is on the stack is distinct and has no parent (`Loose`); the nodes of the
  locals (`Declared`) and the finished roots that the blocks begin and end with
  (`Statements`, `Control`). That what a visitor pushes does run so is proved for every
  kind of instruction and operand list; inductions over a list of tasks take the least
  number for which the claim would fail.
  `FlowIsFaithful` (`FlowIsLLVMFlow`) has an invariant of its own, `FlowInvariant`:
  the ORDERs of arguments give exactly the edges inside expressions (`Evaluated`); the
  statements laid out so far are numbered without a gap (`Placed`); locals take no part
  in expressions, and what is on the stack is no statement yet (`Apart`); and of each
  block laid out or connected so far, the first and the last statement are where the
  number of instructions shown before them says, and the edges are those of its
  statements and its terminator (`Progress`, with `EndOf`).
* `MethodMeaningProofs` continues them. `StatementsAreRight`
  (`StatementsDenoteInstructions`) is that statement number `k` says what the `k`-th
  instruction does, and that what is no statement is an argument. `MeaningInvariant` gives every node a meaning as it is
  made (`Meant`) and keeps the meanings of what is on the stack beside `vals` (`Stacked`);
  the work left leads from them to the meaning of the instruction being shown
  (`WillMean`, `Leads`). That these meanings are the ones `Meaning` reads from the
  finished graph is proved from `NoCycle`: two ways to give meanings by place agree on
  the statements, and so everywhere.
  `ReadsAreUnspoilt` (`ReadsSeeSameWrites`) joins the two ends of load inlining. That
  every node has one statement above it is an induction down the trees (`DownTheTrees`):
  by `NoCycle` the nodes for which a claim fails have one among them whose parent is not;
  with `RootsFree`, that statements have no parent, it would be a statement. What a node
  says is an instruction of its own statement, or one inlined into it (`Carries`), and
  then that statement is among the uses `InlineTrees` knows of (`TreesKnow`). A write is never inlined, so its node is in its own statement and says
  so at one place (`WriteIs`). Clean marks put every use of a load before the first write
  that may spoil it, and the statements have the order of the instructions
  (`NumbersInOrder`).
* `ObjCHierarchyProofs`: `TypeCorrect`, `OverridesSurvive` (`MethodMappingIsSound`),
  `MethodsOnlyAdded`, `EveryClassIsDeclared`, `InheritanceIsComplete`,
  `MethodsAreInPlace` (`MethodsBelongToTheirDefinition`), `BindingsDispatch`
  (`BindingsAreDispatch`).
  `MethodsInvariant` adds that while the modules are read the mapping is what they
  list and that afterwards a class never loses a selector; `RecordsInvariant`, which
  edges and roots the definitions read so far have given; `DeclaredInvariant`, that
  what the walk has declared is closed under the edges it has left behind. That every
  class is then declared uses `SuperclassesEnd` once: of the classes not declared one
  would have no superclass among them, and so be a root. `ParentsInvariant` says
  which definitions have been attached: their methods stay below them. With
  `DispatchInvariant` the order of the walk does not matter: of the classes visited so
  far, a subclass either is still to be called for (in `work`) or has been visited and
  has every selector its superclass has (`WalkedTo`, `Covered`). When nothing is left to
  do, a class has exactly the selectors found above it. That `Responders`, which climbs
  as often as there are names, has then arrived is proved from `SuperclassesEnd`: every
  class has a height less than the number of names (`HeightsExist`).
* `TypeEmitterProofs`, about the two modules of names. Of `TypeDedup`: `DedupTypeCorrect`,
  `NamesAreFaithful` (`NamesFollowEquality`). Only that equality is an equivalence is
  used. `Partitioned`: the classes taken off a
  cluster are whole; `Located`: every struct of the cluster is either in a finished
  class or still in the list; `NamingInvariant`: classes have different numbers.
  `ComparisonIsFaithful` (`EqualIsIsomorphic`) is about the comparison itself: vectors
  are equal exactly for isomorphic structs. A walk ends before `WalkBound` because each
  step lowers `Left`: a struct is unfolded once, and a pointer gives way to a struct.
  What a walk has written it does not take back (`ResultsExtend`), so walks with one
  vector write the same symbol at every step (`Alike`); followed side by side they keep
  `Agreeing`: two elements in one place of structs with one number are matched, or
  still wait at one height of the stacks. When the stacks are empty the numbers are an
  isomorphism. The other way, what one walk visits and has on its stack stays the image
  of the other's (`Image`).
  Of `StructMembers`: `TypeCorrect`, `WalkCompletes` (`WalkIsComplete`),
  `ListsAreFitting` (`ListsFit`), `DeclaredOnceInOrder` (`StructsAreDeclaredOnce`),
  `AccessesNameMembers` (`FieldsAreMembersWhenAgreed`), for debug information of any
  shape. `Walking` is the usual invariant of a search: what a type met refers to has
  been met or is in the queue, and both lie in every set closed under references;
  "reachable" is the least such set, so that no induction over paths is needed.
  `AliasInvariant`: every typedef met is in the table of aliases, which only grows.
  `NamesInvariant` follows one struct the modules agree on through a table every
  module writes: whoever has the struct leaves the same list behind (`Kept`), and the
  sanity check drops it always or never; modules without it leave it alone.
  `EmissionInvariant`: the members of a name are one block of the list, with the
  names that were kept.
* `ValueNamesProofs`: `LocalsAreRight`, `LatestNames`, `ParametersAgree`.
  `LocalsInvariant` and `NamesInvariant` say of the instructions visited so far what
  the properties say of all; `FormalsInvariant`, that the formal arguments are the
  parameters met so far; `ArgumentsInvariant`, that nobody but the last loop gives a
  name with `.arg`, and which of them it has given.
* `DriverProofs`: `TypeCorrect`, `ContextsMatch`, `ArchiveWhole`, `Silence`, the whole
  of what `driver` checks, for any number of files and any contents. Each action is
  first reduced to what it does (`StepCases`), with strict mode as one case (`Stopped`).
  `DriverInv` has `Archived` (the files are the modules added so far, and what is
  written are the files), `Ordered` (modules are loaded in the order of the paths and
  of the binary, so that none is loaded twice), `Kept` (the contexts) and `Silent`: as
  long as nothing was complained of, every name given is on its way to the paths, and
  every input is a path, being read, or has all it offers loaded or pending.

Every invariant and action property that a passing run checks is proved. Only
model-checked is the liveness of `Terminates` and `ReachesMethods`, which is out of the
prover's reach, as are ENABLED, induction over data and RECURSIVE operators, of which the
modules have none: recursion is a recursive function or a least closed set.

## Findings

Checked by a run each:

1. A load inlined into an instruction that is visited to nothing disappears from the
   CPG (`CPGEmitter.cpp:106`, 364), where `docs/design_considerations.md:386` has a
   tree for each instruction.
2. The numbered name of a second layout may be another struct's own name
   (`CPGTypeEmitter.cpp:289`), against the comment at 305-308.
3. `main` passes a null module on when a bitcode file does not parse
   (`llvm2cpgTool.cpp:139`), against the assertion at `CPG.cpp:49`; the branch for
   textual IR checks.

### Where the code and its documentation part ways

Met while modelling; the passing properties state what the code does, with the
condition or exception named in each:

* A category with an instance and a class method of one selector loses the second:
  both go into one set of the category's name (`ObjCTypeHierarchy.cpp:119-126`;
  `docs/design_considerations.md:699` has every method under its category).
  `MethodsBelongToTheirDefinition` excludes selectors that are shared.
* A category that overrides a method of its own class is bound only if its module
  comes before the class's: the first of a name stays (`ObjCTypeHierarchy.cpp:120`).
  `BindingsAreDispatch` accepts either.
* Debug information of a later module overwrites the names of members that have been
  declared (`CPGTypeEmitter.cpp:469`): a field access then names no member
  (`struct-members.scala:14-16,35-38` test one module). Hence the condition in
  `FieldsAreMembersWhenAgreed`.
* A typedef that only a later module knows of is never declared
  (`CPGTypeEmitter.cpp:369-378`, `struct-members.scala:24-25`). See
  `StructsAreDeclaredOnce`.
* A store whose pointer, but not its value, is the start of a string is marked and
  fails the assertion at `CPGEmitter.cpp:215`. See `OperandsHaveNodes`.
* A mutable `char buf[] = "..."` is inlined like a constant (`Transforms.cpp:415-418`;
  the comment at 337 speaks of constants).
* A global initialized with the cast of an integer (`char *p = (char *)4`) ends the
  run: the code asks of every cast initializer what its operand points to
  (`Transforms.cpp:424-426`), Objective-C or not, where LLVM asserts that the operand
  is a pointer and without assertions reads a type that is not there. The comment at
  334 leaves all but four cases alone. This is `Abort` of `StringInline`: nothing has
  been shown by then, and `LiteralsAreStrings` and `OperandsHaveNodes` say no more
  than that of such a module.
* Of two opaque types with one description the second stays without a name, because
  `visitedTypes` outlives the walk (`Transforms.cpp:172`, comment 136-137). See
  `TypesGetTheirNames`.
* A parameter of a function that was inlined counts as one of the function it was
  inlined into: it may rename an argument or keep all of them from being named
  (`CPGInstVisitor.cpp:89`, comment 24-25). Hence the condition on scopes in
  `AllParametersOrNone`.
* An annotation at a global renames it (`CPGInstVisitor.cpp:85-94`; the comment at 19
  speaks of locals and arguments), and one of an unnamed parameter takes a value's
  name away. See `LatestNameWins` and `VariablesAreTheLocals`.

Looked at and found right: the transitive validity of inlining, entries through
nested calls, deduplication under any arrangement, the context stack, the archive
under any failure, overrides under any order of the walks, the declaration of
classes scattered over modules, the walk over cyclic debug types, strings reached
through later globals.

## Plan

Done: all modules planned, in this order: `InlineTrees`, `InlineSpec`, `LoadInline`,
`CPGBuilder`, `MethodEmitter`, `MethodFlow`, `MethodMeaning`, `TypeDedup`, `Driver`,
`ObjCHierarchy`, `StructMembers`, `StringInline`, `OpaqueTypes`, `Transforms`,
`ValueNames`, and their proofs.

Left: `recordType` and `emitRecordedTypes` as a module.

## Not modelled, and why

* LLVM's own passes, alias analysis and parser, `ebc`, libzip and protobuf enter as
  assumptions.
* Code strings, line numbers, types of nodes, the demangler and the operator names
  are data no property here depends on.
* The pass pipeline (`Transforms.cpp:27-44`) is LLVM's to carry out; the option that
  turns string inlining off makes `StringInline` vacuous. `markObjCTypeHints` copies a
  class name from a global to its users and decides nothing else.
* `StripOptNonePass` and `DemotePhiPass` only call LLVM utilities.
* `recordType`, `emitRecordedTypes`: a set of strings, emitted once each.
* In `ObjCHierarchy`: classes of libarclite's `glue_class_t` (the code ignores
  them); the second construction of the same hierarchy; `emittedMethods.at`, whose
  methods the CPG files have all emitted; inheritance edges as a multiset.
* In `StringInline`: `getelementptr` with one index, whose third operand the code
  would read (`Transforms.cpp:403`); metadata of an invoke that `LowerInvoke` turns
  into a call; constant expressions more than one level deep; what the LLVM passes
  and `LoadInline` do between the marking and the emission, which here follow each
  other on the same instructions.
* The end of a run at a cast of an integer (`Abort` of `StringInline`) and the failed
  assertions of other modules are not ends of a run in `Driver`, where adding a module
  that has been parsed succeeds.
* `BindingsAreDispatch` follows the chain of classes and that of metaclasses. That the
  Objective-C runtime goes on from the root metaclass to the root class is not in the
  code, and no document claims it.
* In `OpaqueTypes`: a derived type without a base (`void`), which is no pointer to a
  struct (`Transforms.cpp:191`).
* Hash collisions in `TypesComparator` are excluded, not refuted.
* The suffixes LLVM adds to keep names apart.
* The exponential size of shared inlined trees (`CustomPasses.cpp:125`) is a cost, not
  a matter of correctness.
* `bitcode-transformer`, `objc-typegen` and the test scripts are developer tools.
