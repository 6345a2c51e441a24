---------------------------- MODULE MCLoadInline ----------------------------
(***************************************************************************)
(* LoadInline on the functions of five instructions that have at least two *)
(* loads and an instruction that may write: every data flow between them,  *)
(* every may-alias relation, in one block and cut into two.                *)
(***************************************************************************)
EXTENDS LoadInline, FiniteSets

I == 1 .. 5

(* The kinds whose value another instruction can use.                      *)
HasValue == {"address", "load", "volatile", "other"}

(* A store has two operands that may be instructions; one is enough for    *)
(* the others.                                                             *)
MaxArgs(kind) == IF kind = "write" THEN 2 ELSE 1

ArgsOf(k, i) ==
  {A \in SUBSET {j \in 1 .. i - 1 : k[j] \in HasValue} :
     Cardinality(A) <= MaxArgs(k[i])}

Args(k) ==
  {{}} \X ArgsOf(k, 2) \X ArgsOf(k, 3) \X ArgsOf(k, 4) \X ArgsOf(k, 5)

Middle == {"address", "load", "volatile", "write"}

(* The last instruction is the terminator. A debug intrinsic takes the     *)
(* place of one instruction in one of the shapes.                          *)
KindsOf ==
  {k \in {"address", "load"} \X Middle \X Middle \X Middle \X {"other"} :
     /\ Cardinality({i \in I : k[i] = "load"}) >= 2
     /\ \E i \in 2 .. 4 : k[i] \in {"write", "volatile"}}
  \cup {<<"load", "load", "write", "dbg", "other">>}

Blocks == {<<1, 1, 1, 1, 1>>, <<1, 1, 1, 2, 2>>}

MayAlias(k, block) ==
  {p \in I \X I : /\ k[p[1]] \in {"write", "volatile"}
                  /\ k[p[2]] = "load"
                  /\ p[2] < p[1]
                  /\ block[p[1]] = block[p[2]]}

MCFunctions ==
  UNION {[n : {5}, block : {b}, kind : {k}, args : Args(k),
          mods : SUBSET MayAlias(k, b)] : k \in KindsOf, b \in Blocks}

=============================================================================
