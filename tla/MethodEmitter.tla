---------------------------- MODULE MethodEmitter ----------------------------
(***************************************************************************)
(* CPGEmitter::emitMethod (lib/ProtoWriter/CPGEmitter.cpp): one LLVM       *)
(* function becomes METHOD, METHOD_RETURN, BLOCK, parameters and locals,   *)
(* a statement for every instruction that is neither inlined nor without a *)
(* CPG node, and the control flow within and between the statements.       *)
(*                                                                         *)
(* A function f is a record                                                *)
(*   n       the number of its instructions, 1 .. n in layout order        *)
(*   params  the number of its parameters                                  *)
(*   kind    what each instruction is: see Kinds                           *)
(*   args    the sequence of its operands: an instruction (> 0), Constant, *)
(*           Parameter, Global, Extern, or Field (an index into a named    *)
(*           struct)                                                       *)
(*   block   the basic block it is in, 1 .. nblocks; block 1 is the entry  *)
(*   succ    the successors of each block, as its terminator lists them    *)
(*   inlined the instructions that carry "shiftleft.inline"                *)
(*   mods    <<w, l>>: w may write what the load l reads                   *)
(*                                                                         *)
(* The recursion of the visitor over an expression is the stack work of    *)
(* things left to do, and the nodes it has returned so far are on vals.    *)
(***************************************************************************)
EXTENDS Integers, Sequences, FiniteSets

CONSTANT Functions

(* Operands that are not instructions. Global stands for a global variable *)
(* with an initializer, whose address is taken, Extern for one without:    *)
(* there is no declaration an IDENTIFIER could refer to.                   *)
Constant  == 0
Parameter == -1
Global    == -2
Field     == -3
Extern    == -4

(* "op" is any instruction whose operands are emitted left to right and    *)
(* joined under one call: binary, compare, select, unary, atomics, vector  *)
(* and insertvalue. "gep" and "extract" are chains of accesses. "vcall" is *)
(* a call that returns nothing, "icall" an indirect or Objective-C call,   *)
(* "invoke" a call that is a terminator,                                   *)
(* "unhandled" and "fence" what falls to visitInstruction with and without *)
(* a value.                                                                *)
Terminators == {"br", "switch", "ret", "unreachable", "resume", "invoke"}
HaveValue ==
  {"load", "cast", "gep", "extract", "op", "call", "icall", "invoke", "unhandled"}
Kinds == HaveValue \cup Terminators \cup {"alloca", "dbg", "store", "vcall", "fence"}

VARIABLES
  fn,
  phase,
  blk,            \* the current block
  cur,            \* the instruction being visited
  work,           \* what is left to do for its expression
  vals,           \* nodes waiting for their parent
  node,           \* id -> [type, name, of]
  order,          \* id -> ORDER, the position among the siblings
  entry, ast, cfg,\* expressions: see CPGBuilder
  ref,            \* IDENTIFIER -> the LOCAL or parameter it refers to
  receiver,       \* RECEIVER edges
  members,        \* AST edges of METHOD and BLOCK
  flow,           \* CFG edges between statements, in the order they are added
  locals,         \* value -> its node
  nodes,          \* the statements of the current block
  topLevelOrder,
  entryPoints,    \* block -> its first statement
  exitPoints      \* block -> its last statement

graph == <<entry, ast, cfg>>
blockState == <<nodes, topLevelOrder, entryPoints, exitPoints>>
vars == <<fn, phase, blk, cur, work, vals, node, order, entry, ast, cfg, ref, receiver,
          members, flow, locals, nodes, topLevelOrder, entryPoints, exitPoints>>

NBlocks == Len(fn.succ)
InBlock(b) == {i \in 1 .. fn.n : fn.block[i] = b}
Terminator(b) == CHOOSE i \in InBlock(b) : fn.kind[i] \in Terminators

(* The graph has one node more than before: the new one.                   *)
New == Len(node) + 1

Elements(s) == {s[i] : i \in DOMAIN s}

Builder == INSTANCE CPGBuilder WITH MaxNodes <- 100, MaxChildren <- 4

----------------------------------------------------------------------------
(***************************************************************************)
(* What there is to do. Node creates a node whose entry is itself, Begin   *)
(* one without an entry; Value stands for emitRefOrConstant(v).            *)
(***************************************************************************)
Node(type, name, of)  == <<[do |-> "node", type |-> type, name |-> name, of |-> of]>>
Begin(type, name, of) == <<[do |-> "begin", type |-> type, name |-> name, of |-> of]>>
Value(v)              == <<[do |-> "value", of |-> v]>>
Op(name, of)          == Node("CALL", name, of)
(* resolveConnections of the last n nodes: under the node created after    *)
(* them, or under the one created before them.                             *)
Resolve(n)            == <<[do |-> "resolve", n |-> n]>>
Close(n)              == <<[do |-> "close", n |-> n]>>
Swap                  == <<[do |-> "swap"]>>
Receive               == <<[do |-> "receiver"]>>

Values(args) ==
  LET upTo[k \in 0 .. Len(args)] ==
        IF k = 0 THEN <<>> ELSE upTo[k - 1] \o Value(args[k])
  IN upTo[Len(args)]

(* emitGEP and emitExtractValue: every index wraps what the indices before *)
(* it have built. A struct member is named by a FIELD_IDENTIFIER.          *)
Index(v) == IF v = Field THEN Node("FIELD_IDENTIFIER", "field", v) ELSE Value(v)

Accesses(i, first) ==
  LET args == fn.args[i]
      upTo[k \in first .. Len(args)] ==
        IF k = first THEN Value(args[1])
                            \o (IF first = 2 THEN Value(args[2]) \o Op("pointerShift", i)
                                                   \o Resolve(2) ELSE <<>>)
        ELSE upTo[k - 1] \o Index(args[k]) \o Op("access", i) \o Resolve(2)
  IN upTo[Len(args)]

(* The expression that computes i.                                         *)
Expression(i) ==
  LET args == fn.args[i]
      kind == fn.kind[i]
  IN CASE kind = "load"    -> Value(args[1]) \o Op("indirection", i) \o Resolve(1)
       [] kind = "cast"    -> Node("UNKNOWN", "type", i) \o Value(args[1])
                                \o Op("cast", i) \o Resolve(2)
       [] kind = "gep"     -> Accesses(i, 2)
       [] kind = "extract" -> Accesses(i, 1)
       [] kind = "op"      -> Values(args) \o Op("op", i) \o Resolve(Len(args))
       [] kind \in {"call", "vcall", "invoke"} ->
            Begin("CALL", "call", i) \o Values(args) \o Close(Len(args))
       [] kind = "icall"   -> Begin("CALL", "call", i) \o Value(args[1]) \o Receive
                                \o Values(Tail(args)) \o Close(Len(args))
       [] kind \in {"unhandled", "fence", "resume"} -> Op("op", i) \o Resolve(0)

(* Ways to get inlining wrong: to leave addresses out, or to substitute    *)
(* loads that are not marked.                                              *)
OnlyLoads(v) == v > 0 /\ v \in fn.inlined /\ fn.kind[v] = "load"

SubstituteEvery(v) ==
  IF v > 0 /\ (v \in fn.inlined \/ fn.kind[v] = "load") THEN Expression(v)
  ELSE Node("IDENTIFIER", "leaf", v)

(* emitRefOrConstant. Only GEPs, casts and loads are ever inlined.         *)
IsInlined(v) == v > 0 /\ v \in fn.inlined

RefOrConstant(v) ==
  IF IsInlined(v) THEN Expression(v)
  ELSE IF v = Global
       THEN Node("LITERAL", "leaf", v) \o Op("addressOf", v) \o Resolve(1)
  ELSE IF v \in DOMAIN locals \cup {Extern} THEN Node("IDENTIFIER", "leaf", v)
  ELSE Node("LITERAL", "leaf", v)

(* The sides of the assignment in whatever order they were evaluated.      *)
AssignmentUnordered(i) ==
  LET assign == Op("assignment", i) \o Resolve(2)
  IN {Value(i) \o Expression(i) \o assign, Expression(i) \o Value(i) \o assign}

(* The statement of i: one of a set, because C++ leaves it open which      *)
(* argument of emitAssignCall(type, lhs, rhs) is evaluated first.          *)
Assignment(i) ==
  LET lhs == Value(i)
      rhs == Expression(i)
      assign == Op("assignment", i) \o Resolve(2)
  IN {lhs \o rhs \o assign, rhs \o lhs \o Swap \o assign}

Statement(i) ==
  LET args == fn.args[i]
      kind == fn.kind[i]
  IN CASE kind \in HaveValue -> Assignment(i)
       [] kind = "store" ->
            {Value(args[1]) \o Value(args[2]) \o Op("indirection", i) \o Resolve(1)
               \o Swap \o Op("assignment", i) \o Resolve(2)}
       [] kind = "ret" ->
            {Begin("RETURN", "return", i) \o Values(args) \o Close(Len(args))}
       [] kind = "unreachable" -> {Node("UNKNOWN", "unreachable", i)}
       [] OTHER -> {Expression(i)}

(* visit returns nullptr.                                                  *)
NoNode == {"alloca", "dbg", "br", "switch"}

----------------------------------------------------------------------------
(* What LLVM gives: blocks laid out one after the other, each with its     *)
(* terminator, operands that are values, and as many as the kind needs.    *)
(* Only GEPs, casts and loads are marked to be inlined.                    *)
Arity(kind) ==
  CASE kind \in {"gep", "store"} -> 2
    [] kind \in {"load", "cast", "extract", "icall"} -> 1
    [] OTHER -> 0

IsOperand(f, i, k) ==
  LET v == f.args[i][k]
  IN /\ v \in Extern .. f.n
     /\ v > 0 => f.kind[v] \in HaveValue \cup {"alloca"}
     /\ v = Parameter => f.params > 0
     /\ v = Field => (f.kind[i] = "gep" /\ k > 2) \/ (f.kind[i] = "extract" /\ k > 1)

WellFormed(f) ==
  /\ f.n \in Nat /\ f.params \in Nat
  /\ f.kind \in [1 .. f.n -> Kinds]
  /\ f.args \in [1 .. f.n -> Seq(Extern .. f.n)]
  /\ \A i \in 1 .. f.n :
       /\ Len(f.args[i]) >= Arity(f.kind[i])
       /\ \A k \in DOMAIN f.args[i] : IsOperand(f, i, k)
  /\ f.succ \in Seq(Seq(1 .. Len(f.succ)))
  /\ (f.n = 0 <=> f.succ = <<>>)
  /\ f.block \in [1 .. f.n -> 1 .. Len(f.succ)]
  /\ \A i, j \in 1 .. f.n : i < j => f.block[i] <= f.block[j]
  /\ \A b \in 1 .. Len(f.succ) :
       \E i \in 1 .. f.n : f.block[i] = b /\ f.kind[i] \in Terminators
  /\ f.inlined \subseteq {i \in 1 .. f.n : f.kind[i] \in {"gep", "cast", "load"}}

ASSUME FunctionsAssumption == \A f \in Functions : WellFormed(f)

Init ==
  /\ fn \in Functions
  /\ phase = "prologue" /\ blk = 1 /\ cur = 1
  /\ work = <<>> /\ vals = <<>>
  /\ node = <<>> /\ order = <<>> /\ entry = <<>>
  /\ ast = {} /\ cfg = {} /\ ref = {} /\ receiver = {} /\ members = {} /\ flow = <<>>
  /\ locals = [v \in {} |-> 0]
  /\ nodes = <<>> /\ topLevelOrder = 1 /\ entryPoints = <<>> /\ exitPoints = <<>>

(* METHOD, METHOD_RETURN and BLOCK come first, whatever the function.      *)
METHOD == 1
METHOD_RETURN == 2
BLOCK == 3

(* CPGMethod::getLocalVariables: every alloca and every instruction that   *)
(* has a value and is not inlined.                                         *)
LocalVariables ==
  {i \in 1 .. fn.n : fn.kind[i] \in HaveValue \cup {"alloca"} /\ i \notin fn.inlined}

Position(i, S) == Cardinality({j \in S : j < i})

(* The head of emitMethod. A declaration gets no locals and no statements. *)
EmitPrologue ==
  /\ phase = "prologue"
  /\ LET param(i) == 3 + i
         local(i) == 3 + fn.params + 1 + Position(i, LocalVariables)
         size == 3 + fn.params + Cardinality(LocalVariables)
         variable == [k \in {local(i) : i \in LocalVariables} |->
                        CHOOSE i \in LocalVariables : local(i) = k]
         type(k) == CASE k = METHOD -> "METHOD"
                      [] k = METHOD_RETURN -> "METHOD_RETURN"
                      [] k = BLOCK -> "BLOCK"
                      [] k \in DOMAIN variable -> "LOCAL"
                      [] OTHER -> "METHOD_PARAMETER_IN"
     IN /\ node' = [k \in 1 .. size |->
                      [type |-> type(k), name |-> "declaration",
                       of |-> CASE k \in DOMAIN variable -> variable[k]
                                [] k > 3 /\ k <= 3 + fn.params -> Parameter
                                [] OTHER -> 0]]
        /\ order' = [k \in 1 .. size |->
                       CASE k \in DOMAIN variable -> Position(variable[k], LocalVariables)
                         [] k > 3 /\ k <= 3 + fn.params -> k - 3
                         [] OTHER -> 0]
        /\ entry' = [k \in 1 .. size |-> 0]
        /\ members' = ({METHOD} \X {k \in 1 .. 3 + fn.params : k # METHOD})
                        \cup ({BLOCK} \X DOMAIN variable)
        /\ locals' = [v \in LocalVariables \cup {Parameter : i \in 1 .. fn.params} |->
                        IF v = Parameter THEN 3 + 1 ELSE local(v)]
  /\ phase' = IF fn.n = 0 THEN "done" ELSE "visit"
  /\ UNCHANGED <<fn, blk, cur, work, vals, ast, cfg, ref, receiver, flow>>
  /\ UNCHANGED blockState

(* The next instruction of the block: one with a node starts its statement.*)
VisitInstruction ==
  /\ phase = "visit"
  /\ cur \in InBlock(blk)
  /\ IF IsInlined(cur) \/ fn.kind[cur] \in NoNode
     THEN cur' = cur + 1 /\ UNCHANGED <<phase, work>>
     ELSE phase' = "expression" /\ work' \in Statement(cur) /\ UNCHANGED cur
  /\ UNCHANGED <<fn, blk, vals, node, order, graph, ref, receiver, members, flow, locals>>
  /\ UNCHANGED blockState

Todo(what) == phase = "expression" /\ work # <<>> /\ Head(work).do = what

Create(task, e) ==
  /\ node' = Append(node, [type |-> task.type, name |-> task.name, of |-> task.of])
  /\ order' = Append(order, 0)
  /\ entry' = Append(entry, e)
  /\ vals' = Append(vals, New)
  /\ ref' = ref \cup {<<New, locals[v]>> : v \in DOMAIN locals \cap
                                {task.of : t \in {task.type} \cap {"IDENTIFIER"}}}
  /\ UNCHANGED <<ast, cfg>>

EmitNode ==
  /\ Todo("node")
  /\ Create(Head(work), New)
  /\ work' = Tail(work)
  /\ UNCHANGED <<fn, phase, blk, cur, receiver, members, flow, locals>>
  /\ UNCHANGED blockState

BeginCall ==
  /\ Todo("begin")
  /\ Create(Head(work), 0)
  /\ work' = Tail(work)
  /\ UNCHANGED <<fn, phase, blk, cur, receiver, members, flow, locals>>
  /\ UNCHANGED blockState

EmitValue ==
  /\ Todo("value")
  /\ work' = RefOrConstant(Head(work).of) \o Tail(work)
  /\ UNCHANGED <<fn, phase, blk, cur, vals, node, order, graph, ref, receiver, members,
                 flow, locals>>
  /\ UNCHANGED blockState

(* The first argument to be evaluated is the second child.                 *)
SwapOperands ==
  /\ Todo("swap")
  /\ vals' = SubSeq(vals, 1, Len(vals) - 2) \o <<vals[Len(vals)], vals[Len(vals) - 1]>>
  /\ work' = Tail(work)
  /\ UNCHANGED <<fn, phase, blk, cur, node, order, graph, ref, receiver, members, flow, locals>>
  /\ UNCHANGED blockState

ConnectReceiver ==
  /\ Todo("receiver")
  /\ receiver' = receiver \cup {<<vals[Len(vals) - 1], vals[Len(vals)]>>}
  /\ work' = Tail(work)
  /\ UNCHANGED <<fn, phase, blk, cur, vals, node, order, graph, ref, members, flow, locals>>
  /\ UNCHANGED blockState

(* The same with one node for operands that denote the same value.         *)
ResolveShared(parent, kids) ==
  LET same(i) == {j \in DOMAIN kids : node[kids[j]].of = node[kids[i]].of}
      shared == [i \in DOMAIN kids |-> kids[CHOOSE j \in same(i) : \A k \in same(i) : j <= k]]
  IN Builder!Join(parent, shared) /\ order' = order

(* resolveConnections(parent, kids).                                       *)
ResolveConnections(parent, kids) ==
  /\ Builder!Join(parent, kids)
  /\ order' = [k \in DOMAIN order |->
                 IF k \in Elements(kids) THEN CHOOSE i \in DOMAIN kids : kids[i] = k
                 ELSE order[k]]

ResolveUnderLast ==
  /\ Todo("resolve")
  /\ LET n == Head(work).n
         first == Len(vals) - n
     IN /\ ResolveConnections(vals[Len(vals)], SubSeq(vals, first, Len(vals) - 1))
        /\ vals' = Append(SubSeq(vals, 1, first - 1), vals[Len(vals)])
  /\ work' = Tail(work)
  /\ UNCHANGED <<fn, phase, blk, cur, node, ref, receiver, members, flow, locals>>
  /\ UNCHANGED blockState

ResolveUnderFirst ==
  /\ Todo("close")
  /\ LET parent == Len(vals) - Head(work).n
     IN /\ ResolveConnections(vals[parent], SubSeq(vals, parent + 1, Len(vals)))
        /\ vals' = SubSeq(vals, 1, parent)
  /\ work' = Tail(work)
  /\ UNCHANGED <<fn, phase, blk, cur, node, ref, receiver, members, flow, locals>>
  /\ UNCHANGED blockState

(* The visitor has returned the root of the statement.                     *)
EndStatement ==
  /\ phase = "expression"
  /\ work = <<>>
  /\ order' = [order EXCEPT ![vals[1]] = topLevelOrder]
  /\ topLevelOrder' = topLevelOrder + 1
  /\ nodes' = nodes \o vals
  /\ vals' = <<>>
  /\ phase' = "visit"
  /\ cur' = cur + 1
  /\ UNCHANGED <<fn, blk, work, node, graph, ref, receiver, members, flow, locals>>
  /\ UNCHANGED <<entryPoints, exitPoints>>

(* A block without statements gets a noop.                                 *)
EmitNoop ==
  /\ phase = "visit"
  /\ cur \notin InBlock(blk)
  /\ nodes = <<>>
  /\ node' = Append(node, [type |-> "UNKNOWN", name |-> "noop", of |-> 0])
  /\ order' = Append(order, topLevelOrder)
  /\ entry' = Append(entry, New)
  /\ topLevelOrder' = topLevelOrder + 1
  /\ nodes' = <<New>>
  /\ UNCHANGED <<fn, phase, blk, cur, work, vals, ast, cfg, ref, receiver, members, flow,
                 locals, entryPoints, exitPoints>>

EndBlock ==
  /\ phase = "visit"
  /\ cur \notin InBlock(blk)
  /\ nodes # <<>>
  /\ entryPoints' = Append(entryPoints, nodes[1])
  /\ exitPoints' = Append(exitPoints, nodes[Len(nodes)])
  /\ members' = members \cup {<<BLOCK, k>> : k \in Elements(nodes)}
  /\ flow' = flow \o [i \in 1 .. Len(nodes) - 1 |-> <<nodes[i], entry[nodes[i + 1]]>>]
  /\ nodes' = <<>>
  /\ IF blk = NBlocks THEN phase' = "method" /\ UNCHANGED blk
     ELSE blk' = blk + 1 /\ UNCHANGED phase
  /\ UNCHANGED <<fn, cur, work, vals, node, order, graph, ref, receiver, locals,
                 topLevelOrder>>

ConnectMethod ==
  /\ phase = "method"
  /\ flow' = Append(flow, <<METHOD, entry[entryPoints[1]]>>)
  /\ phase' = "terminators"
  /\ blk' = 1
  /\ UNCHANGED <<fn, cur, work, vals, node, order, graph, ref, receiver, members, locals>>
  /\ UNCHANGED blockState

(* The second pass, over the terminators. A successor that is listed twice *)
(* is connected twice.                                                     *)
ConnectTerminator ==
  /\ phase = "terminators"
  /\ LET targets == IF fn.kind[Terminator(blk)] = "ret" THEN <<METHOD_RETURN>>
                    ELSE [j \in DOMAIN fn.succ[blk] |-> entry[entryPoints[fn.succ[blk][j]]]]
     IN flow' = flow \o [j \in DOMAIN targets |-> <<exitPoints[blk], targets[j]>>]
  /\ IF blk = NBlocks THEN phase' = "done" /\ UNCHANGED blk
     ELSE blk' = blk + 1 /\ UNCHANGED phase
  /\ UNCHANGED <<fn, cur, work, vals, node, order, graph, ref, receiver, members, locals>>
  /\ UNCHANGED blockState

Next ==
  \/ EmitPrologue \/ VisitInstruction \/ EmitNode \/ BeginCall \/ EmitValue
  \/ SwapOperands \/ ConnectReceiver \/ ResolveUnderLast \/ ResolveUnderFirst
  \/ EndStatement \/ EmitNoop \/ EndBlock \/ ConnectMethod \/ ConnectTerminator

Spec == Init /\ [][Next]_vars

----------------------------------------------------------------------------
Names == {"declaration", "noop", "type", "leaf", "field", "indirection", "addressOf",
          "cast", "pointerShift", "access", "op", "call", "return", "unreachable",
          "assignment"}

(* Every id on the way to an edge is the id of a node, and every node has  *)
(* its order and its entry: the assertions of CPGProtoBuilder::connect and *)
(* CPGProtoNode::getEntry.                                                 *)
TypeOK ==
  LET ids == DOMAIN node
  IN /\ phase \in {"prologue", "visit", "expression", "method", "terminators", "done"}
     /\ blk \in 1 .. NBlocks + 1
     /\ cur \in 1 .. fn.n + 1
     /\ \A i \in DOMAIN work :
          work[i].do \in {"node", "begin", "value", "resolve", "close", "swap", "receiver"}
     /\ vals \in Seq(ids)
     /\ node \in Seq([type : {"METHOD", "METHOD_RETURN", "BLOCK", "METHOD_PARAMETER_IN",
                              "LOCAL", "CALL", "RETURN", "IDENTIFIER", "LITERAL",
                              "FIELD_IDENTIFIER", "UNKNOWN"},
                     name : Names, of : Extern .. fn.n])
     /\ order \in [ids -> Nat]
     /\ entry \in [ids -> {0} \cup ids]
     /\ ast \cup cfg \cup ref \cup receiver \cup members \cup Elements(flow) \subseteq ids \X ids
     /\ locals \in [DOMAIN locals -> ids]
     /\ nodes \in Seq(ids) /\ entryPoints \in Seq(ids) /\ exitPoints \in Seq(ids)
     /\ topLevelOrder \in Nat

----------------------------------------------------------------------------
(* The locals CPGInstVisitor collected are the ones the emitter refers to: *)
(* every IDENTIFIER refers to the declaration of its value, if it has one, *)
(* and no instruction is taken for a constant.                             *)
LocalsAgree ==
  /\ \A k \in DOMAIN node : node[k].type = "IDENTIFIER" =>
       /\ node[k].of # Extern => \E d \in DOMAIN node : <<k, d>> \in ref
       /\ \A d \in DOMAIN node : <<k, d>> \in ref =>
            /\ node[d].type \in {"LOCAL", "METHOD_PARAMETER_IN"}
            /\ node[d].of = node[k].of
  /\ \A k \in DOMAIN node : node[k].type = "LITERAL" => node[k].of \in {Constant, Global}

(* Every step builds expressions the way CPGBuilder promises. (The nodes   *)
(* it joins are on vals; naming them saves TLC from looking for them.)     *)
OnVals == {SubSeq(vals, i, j) : i \in 1 .. Len(vals) + 1, j \in 0 .. Len(vals)}

BuilderStep ==
  \/ Len(entry') > Len(entry) /\ Builder!Declares(Len(entry') - Len(entry))
  \/ \E e \in {0, New} : Builder!Creates(e)
  \/ \E p \in Elements(vals), kids \in OnVals :
       Builder!MayJoin(p, kids) /\ Builder!Join(p, kids)

BuildsExpressions == Builder!Init /\ [][BuilderStep]_graph

=============================================================================
