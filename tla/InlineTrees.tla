---------------------------- MODULE InlineTrees ----------------------------
(***************************************************************************)
(* The instructions of one LLVM function, and the expression trees that    *)
(* the metadata "shiftleft.inline" builds out of them.                     *)
(*                                                                         *)
(* A function f is a record                                                *)
(*   n      the number of its instructions, numbered 1 .. n in layout      *)
(*          order, which is taken to be a dominance order                  *)
(*   block  the basic block of each instruction                            *)
(*   kind   what the pass tells apart: see Kinds                           *)
(*   args   the instructions each instruction has as operands              *)
(*   mods   the pairs <<w, l>> for which alias analysis says that w may    *)
(*          write the location that the load l reads                       *)
(*                                                                         *)
(* The code numbers instructions from the start of their block; numbers    *)
(* are only ever compared within one block, so the model counts from the   *)
(* start of the function.                                                  *)
(***************************************************************************)
EXTENDS Integers

(***************************************************************************)
(* "address" stands for the instructions that are always inlined (a GEP,   *)
(* an addrspacecast, a pointer-to-pointer bitcast), "load" for a load that *)
(* may not write, "volatile" for one that may, "write" for any other       *)
(* instruction that may write, "dbg" for a debug intrinsic, and "other"    *)
(* for the rest, the other bitcasts and the int/pointer casts included.    *)
(***************************************************************************)
Kinds == {"address", "load", "volatile", "write", "dbg", "other"}

Insts(f) == 1 .. f.n

Loads(f) == {i \in Insts(f) : f.kind[i] = "load"}

Forced(f) == {i \in Insts(f) : f.kind[i] = "address"}

Writers(f) == {i \in Insts(f) : f.kind[i] \in {"write", "volatile"}}

Users(f, i) == {u \in Insts(f) : i \in f.args[u] /\ f.kind[u] # "dbg"}

(* What LLVM's verifier and the alias analysis guarantee of f.             *)
WellFormed(f) ==
  /\ f.n \in Nat
  /\ f.block \in [Insts(f) -> Nat]
  /\ \A i, j \in Insts(f) : i < j => f.block[i] <= f.block[j]
  /\ f.kind \in [Insts(f) -> Kinds]
  /\ f.args \in [Insts(f) -> SUBSET Insts(f)]
  /\ \A i \in Insts(f) : \A j \in f.args[i] : j < i
  /\ f.mods \subseteq Writers(f) \X Loads(f)

----------------------------------------------------------------------------
(***************************************************************************)
(* The recursive walks of the pass visit what is reachable through marked  *)
(* instructions. Each is the least set closed under its step.              *)
(***************************************************************************)
ClosedUp(f, m, S) == \A k \in S : Users(f, k) \cap m \subseteq S

ClosedDown(f, m, S) == \A k \in S : f.args[k] \cap m \subseteq S

(* i, and the inlined instructions whose expressions contain i.            *)
Up(f, m, i) ==
  {k \in Insts(f) :
     \A S \in SUBSET Insts(f) : i \in S /\ ClosedUp(f, m, S) => k \in S}

(* i, and the inlined instructions that the expression of i contains.      *)
Down(f, m, i) ==
  {k \in Insts(f) :
     \A S \in SUBSET Insts(f) : i \in S /\ ClosedDown(f, m, S) => k \in S}

(* The places where the expression of i is used, directly or as a part of  *)
(* another inlined expression.                                             *)
Uses(f, m, i) == UNION {Users(f, k) : k \in Up(f, m, i)}

(***************************************************************************)
(* Moving the load l down to its use u changes nothing: u is in the same   *)
(* block, and nothing that runs between them may write what l reads. (u    *)
(* itself may write it: it evaluates its operands before it writes.)       *)
(***************************************************************************)
UnspoiltAt(f, l, u) ==
  /\ f.block[u] = f.block[l]
  /\ \A w \in Insts(f) : l < w /\ w < u => <<w, l>> \notin f.mods

(* Every inlined load may be evaluated at each place its value is used.    *)
Clean(f, m) ==
  \A l \in m \cap Loads(f) : \A u \in Uses(f, m, l) : UnspoiltAt(f, l, u)

============================================================================
