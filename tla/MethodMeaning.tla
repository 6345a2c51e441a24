---------------------------- MODULE MethodMeaning -----------------------------
(***************************************************************************)
(* What the expressions that MethodEmitter leaves behind say, against the  *)
(* instructions of the LLVM function. MethodEmitterProofs proves it for    *)
(* every function.                                                         *)
(***************************************************************************)
EXTENDS MethodFlow

(***************************************************************************)
(* What LLVM says. A meaning is <<name, of, k>>: what is said, and of      *)
(* which instruction or operand; k tells the accesses of one instruction   *)
(* apart, by how many of its operands they are for.                        *)
(***************************************************************************)
Access(i, k) ==
  IF fn.kind[i] = "gep" /\ k = 2 THEN <<"pointerShift", i, 0>> ELSE <<"access", i, k>>

(* What the instruction i computes.                                        *)
Computed(i) ==
  LET kind == fn.kind[i]
  IN CASE kind = "load" -> <<"indirection", i, 0>>
       [] kind = "cast" -> <<"cast", i, 0>>
       [] kind \in {"gep", "extract"} -> Access(i, Len(fn.args[i]))
       [] kind \in {"call", "vcall", "icall", "invoke"} -> <<"call", i, 0>>
       [] kind = "ret" -> <<"return", i, 0>>
       [] kind = "unreachable" -> <<"unreachable", i, 0>>
       [] OTHER -> <<"op", i, 0>>

(* What stands for the operand v: an inlined instruction is substituted.   *)
Operand(v) ==
  IF v \in fn.inlined THEN Computed(v)
  ELSE IF v = Global THEN <<"addressOf", v, 0>>
  ELSE <<IF v = Field THEN "field" ELSE "leaf", v, 0>>

AllOperands(i) == [j \in 1 .. Len(fn.args[i]) |-> Operand(fn.args[i][j])]

(* The aggregate before the first index of an extractvalue is itself.      *)
Path(i, k) ==
  IF fn.kind[i] = "extract" /\ k = 1 THEN Operand(fn.args[i][1]) ELSE Access(i, k)

Result(i) == IF fn.kind[i] = "extract" THEN Path(i, Len(fn.args[i])) ELSE Computed(i)

(* What a meaning is made of, in the order of the arguments.               *)
Parts(m) ==
  LET i == m[2]
      operand(j) == Operand(fn.args[i][j])
  IN CASE m[1] = "assignment" ->
            IF fn.kind[i] = "store" THEN <<<<"indirection", i, 0>>, operand(1)>>
            ELSE <<<<"leaf", i, 0>>, Result(i)>>
       [] m[1] = "indirection" -> <<operand(IF fn.kind[i] = "store" THEN 2 ELSE 1)>>
       [] m[1] = "addressOf" -> <<<<"leaf", i, 0>>>>
       [] m[1] = "cast" -> <<<<"type", i, 0>>, operand(1)>>
       [] m[1] = "pointerShift" -> <<operand(1), operand(2)>>
       [] m[1] = "access" -> <<Path(i, m[3] - 1), operand(m[3])>>
       [] m[1] \in {"call", "return"} -> AllOperands(i)
       [] m[1] = "op" -> IF fn.kind[i] = "op" THEN AllOperands(i) ELSE <<>>
       [] OTHER -> <<>>

Says(i) ==
  IF fn.kind[i] \in HaveValue \cup {"store"} THEN <<"assignment", i, 0>> ELSE Computed(i)

(* The instruction that the statement of ORDER o is for; a block that has  *)
(* none has the noop.                                                      *)
StatementNumber(i) ==
  EndOf(fn.block[i] - 1) + Cardinality({j \in InBlock(fn.block[i]) : j <= i /\ HasStatement(j)})

Stated(o) == {i \in 1 .. fn.n : HasStatement(i) /\ StatementNumber(i) = o}

StatementSays(o) ==
  IF Stated(o) = {} THEN <<"noop", 0, 0>> ELSE Says(CHOOSE i \in Stated(o) : TRUE)

----------------------------------------------------------------------------
(* What the CPG says: a node means what its place in its expression means. *)
Expressions == {k \in DOMAIN node : node[k].name # "declaration"}

Part(m, j) == IF j \in 1 .. Len(Parts(m)) THEN Parts(m)[j] ELSE <<"nothing", 0, 0>>

ParentOf(k) == CHOOSE p \in Expressions : k \in Arguments(p)

Meaning[k \in Expressions] ==
  IF k \in StatementNodes THEN StatementSays(order[k]) ELSE Part(Meaning[ParentOf(k)], order[k])

(* The statements of the BLOCK, in their ORDER and block after block, are  *)
(* the instructions of the function with the inlined ones substituted,     *)
(* whichever argument of emitAssignCall the compiler evaluates first: each *)
(* node says what it has to at its place, has as many arguments as that    *)
(* takes, each with its part, and what is no argument is a statement.      *)
StatementsDenoteInstructions ==
  Done /\ HasBody =>
    /\ Numbered(StatementNodes) /\ Cardinality(StatementNodes) = EndOf(NBlocks)
    /\ \A k \in Expressions : k \in StatementNodes <=> ~ \E p \in Expressions : k \in Arguments(p)
    /\ \A k \in Expressions :
         /\ node[k].name = Meaning[k][1] /\ node[k].of = Meaning[k][2]
         /\ Numbered(Arguments(k)) /\ Cardinality(Arguments(k)) = Len(Parts(Meaning[k]))
         /\ \A c \in Arguments(k) : Meaning[c] = Part(Meaning[k], order[c])

----------------------------------------------------------------------------
(* The order in which the CFG leads through the expressions: statements by *)
(* their ORDER; of two nodes of one statement the one below the other, or  *)
(* in the earlier one of two arguments (see ArgumentFlow).                 *)
Above[k \in Expressions] ==
  IF k \in StatementNodes THEN {k} ELSE {k} \cup Above[ParentOf(k)]

RootOf(k) == CHOOSE r \in Above[k] : r \in StatementNodes

Before(x, y) ==
  \/ order[RootOf(x)] < order[RootOf(y)]
  \/ RootOf(x) = RootOf(y) /\ x # y /\ y \in Above[x]
  \/ RootOf(x) = RootOf(y) /\
       \E p \in Expressions :
         \E a \in Arguments(p) \cap Above[x], b \in Arguments(p) \cap Above[y] : order[a] < order[b]

(* The nodes of the statements of block b.                                 *)
NodesOf(b) ==
  {k \in Expressions : EndOf(b - 1) < order[RootOf(k)] /\ order[RootOf(k)] <= EndOf(b)}

Writes(k, w) == node[k].name \in {"assignment", "call", "op"} /\ node[k].of = w

(* The instructions and their marks as load inlining knows them.           *)
Trees == INSTANCE InlineTrees

InlineKind(kind) ==
  CASE kind \in {"gep", "cast"} -> "address"
    [] kind = "load" -> "load"
    [] kind = "dbg"  -> "dbg"
    [] kind \in {"store", "call", "vcall", "icall", "invoke", "fence"} -> "write"
    [] OTHER -> "other"

Inlinable(f) ==
  [n |-> f.n, block |-> f.block, mods |-> f.mods,
   kind |-> [i \in 1 .. f.n |-> InlineKind(f.kind[i])],
   args |-> [i \in 1 .. f.n |-> {v \in Elements(f.args[i]) : v > 0}]]

MarksAreClean ==
  Trees!WellFormed(Inlinable(fn)) /\ Trees!Clean(Inlinable(fn), fn.inlined)

(***************************************************************************)
(* The CPG reads memory where LLVM does: wherever the node of a load ends  *)
(* up, the writes the CPG executes before it in the block are, as far as   *)
(* they may touch what it reads, those LLVM executes before the load, if   *)
(* the marks are such as LoadInline leaves them.                           *)
(***************************************************************************)
ReadsSeeSameWrites ==
  Done /\ HasBody /\ MarksAreClean =>
    \A b \in 1 .. NBlocks : \A r \in NodesOf(b) :
      LET l == node[r].of
      IN node[r].name = "indirection" /\ fn.kind[l] = "load" =>
           \A w \in InBlock(b) : <<w, l>> \in fn.mods =>
             (w < l <=> \E k \in NodesOf(b) : Writes(k, w) /\ Before(k, r))

----------------------------------------------------------------------------
(* docs/design_considerations.md:386: each instruction is converted into a *)
(* tree. Read generously: each load has a place in some tree.              *)
EveryLoadShown ==
  Done => \A l \in 1 .. fn.n : fn.kind[l] = "load" =>
            \E k \in DOMAIN node : node[k].of = l /\ node[k].name = "indirection"

=============================================================================
