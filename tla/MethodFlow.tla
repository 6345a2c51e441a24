------------------------------ MODULE MethodFlow ------------------------------
(***************************************************************************)
(* The control flow that MethodEmitter leaves behind, against that of the  *)
(* LLVM function. MethodEmitterProofs proves it for every function.        *)
(***************************************************************************)
EXTENDS MethodEmitter

Done == phase = "done"
HasBody == fn.n > 0

Arguments(p) == {k \in DOMAIN node : <<p, k>> \in ast}
StatementNodes == {k \in DOMAIN node : <<BLOCK, k>> \in members /\ node[k].type # "LOCAL"}

(* ORDER counts the nodes of S from 1.                                     *)
Numbered(S) == {order[k] : k \in S} = 1 .. Cardinality(S)

----------------------------------------------------------------------------
(* What LLVM says: the statements of the blocks one after the other. A     *)
(* block none of whose instructions is shown has one statement, the noop.  *)
HasStatement(i) == i \notin fn.inlined /\ fn.kind[i] \notin NoNode
IsEmpty(b) == \A i \in InBlock(b) : ~HasStatement(i)

(* The ORDER of the last statement of block b.                             *)
EndOf(b) ==
  Cardinality({i \in 1 .. fn.n : HasStatement(i) /\ fn.block[i] <= b})
    + Cardinality({c \in 1 .. b : IsEmpty(c)})

StatementAt(o) == CHOOSE k \in StatementNodes : order[k] = o
FirstOf(b) == StatementAt(EndOf(b - 1) + 1)
LastOf(b) == StatementAt(EndOf(b))

(* The arguments of a node from first to last, then the node ...           *)
Adjacent ==
  {kl \in (DOMAIN node) \X (DOMAIN node) :
     /\ order[kl[2]] = order[kl[1]] + 1
     /\ \E p \in DOMAIN node : kl[1] \in Arguments(p) /\ kl[2] \in Arguments(p)}
Last == {pk \in ast : \A l \in Arguments(pk[1]) : order[l] <= order[pk[2]]}
ArgumentFlow ==
  {<<kl[1], entry[kl[2]]>> : kl \in Adjacent} \cup {<<pk[2], pk[1]>> : pk \in Last}

(* ... the statements of a block from first to last ...                    *)
StatementFlow(b) ==
  {<<StatementAt(o), entry[StatementAt(o + 1)]>> : o \in EndOf(b - 1) + 1 .. EndOf(b) - 1}

(* ... then the blocks that LLVM may execute next, or the return.          *)
BlockFlow(b) ==
  IF fn.kind[Terminator(b)] = "ret" THEN {<<LastOf(b), METHOD_RETURN>>}
  ELSE {<<LastOf(b), entry[FirstOf(c)]>> : c \in Elements(fn.succ[b])}

(* An expression starts where its first argument starts, and the CFG edges *)
(* are exactly these: METHOD to the first block, through each block in the *)
(* order of evaluation, and from the end of a block to the start of each   *)
(* of its LLVM successors, or to METHOD_RETURN.                            *)
FlowIsLLVMFlow ==
  Done /\ HasBody =>
    /\ Numbered(StatementNodes) /\ Cardinality(StatementNodes) = EndOf(NBlocks)
    /\ \A p \in DOMAIN node : Numbered(Arguments(p))
    /\ \A p \in DOMAIN node : entry[p] # 0 =>
         IF Arguments(p) = {} THEN entry[p] = p
         ELSE \A k \in Arguments(p) : order[k] = 1 => entry[p] = entry[k]
    /\ \A k \in StatementNodes : entry[k] # 0
    /\ cfg = ArgumentFlow
    /\ Elements(flow) = {<<METHOD, entry[FirstOf(1)]>>}
                          \cup UNION {StatementFlow(b) \cup BlockFlow(b) : b \in 1 .. NBlocks}

=============================================================================
