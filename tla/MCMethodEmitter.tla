--------------------------- MODULE MCMethodEmitter ---------------------------
(***************************************************************************)
(* MethodEmitter on functions that between them have every kind of         *)
(* instruction, operand and terminator, with every set of marks that load  *)
(* inlining may leave behind.                                              *)
(***************************************************************************)
EXTENDS MethodMeaning

(* is is a sequence of instructions <<block, kind, args>>, m are the marks. *)
Function(is, succ, params, mods, m) ==
  [n |-> Len(is), params |-> params, succ |-> succ, inlined |-> m, mods |-> mods,
   block |-> [i \in DOMAIN is |-> is[i][1]],
   kind |-> [i \in DOMAIN is |-> is[i][2]],
   args |-> [i \in DOMAIN is |-> is[i][3]]]

MarksOf(is, mods) ==
  LET v == Inlinable(Function(is, <<>>, 0, mods, {}))
  IN {m \in SUBSET (Trees!Loads(v) \cup Trees!Forced(v)) :
        Trees!Forced(v) \subseteq m /\ Trees!Clean(v, m)}

(* Every may-alias relation between the writers and the loads before or    *)
(* after them in the same block.                                           *)
Aliasing(is) ==
  SUBSET {p \in (DOMAIN is) \X (DOMAIN is) :
            /\ is[p[1]][1] = is[p[2]][1]
            /\ InlineKind(is[p[1]][2]) = "write" /\ is[p[2]][2] = "load"}

AllOf(is, succ, params) ==
  UNION {{Function(is, succ, params, mods, m) : m \in MarksOf(is, mods)} :
           mods \in Aliasing(is)}

C == Constant
P == Parameter

(* x[2].f read through two loads, with a store that may alias them.        *)
Chain ==
  << <<1, "load", <<P>>>>, <<1, "gep", <<1, C, Field>>>>, <<1, "load", <<2>>>>,
     <<1, "store", <<C, P>>>>, <<1, "ret", <<3>>>> >>

(* A load that a call overwrites, used after it and by it.                 *)
Calls ==
  << <<1, "alloca", <<C>>>>, <<1, "load", <<1>>>>, <<1, "icall", <<P, 2>>>>,
     <<1, "vcall", <<1, Global>>>>, <<1, "op", <<2, 2>>>>, <<1, "unreachable", <<>>>> >>

(* A switch on a load, two of whose cases are the same block.              *)
Switch ==
  << <<1, "load", <<P>>>>, <<1, "switch", <<1>>>>,
     <<2, "call", <<C>>>>, <<2, "br", <<>>>>,
     <<3, "ret", <<>>>> >>

(* A loop whose header has no statement of its own.                        *)
Loop ==
  << <<1, "dbg", <<>>>>, <<1, "br", <<>>>>,
     <<2, "br", <<>>>>,
     <<3, "load", <<P>>>>, <<3, "cast", <<4>>>>, <<3, "store", <<5, P>>>>, <<3, "br", <<>>>>,
     <<4, "resume", <<>>>> >>

Rest ==
  << <<1, "extract", <<P, C, C>>>>, <<1, "unhandled", <<>>>>, <<1, "fence", <<>>>>,
     <<1, "ret", <<2>>>> >>

(* One load of an address and one through it, both needed twice and by the *)
(* stores that may overwrite what they read.                               *)
Twice ==
  << <<1, "load", <<P>>>>, <<1, "gep", <<1, C>>>>, <<1, "load", <<2>>>>,
     <<1, "store", <<3, 2>>>>, <<1, "op", <<3, 3, 2>>>>, <<1, "store", <<5, 1>>>>,
     <<1, "ret", <<3>>>> >>

(* A call that may throw, its result stored on the normal path only.       *)
Unwind ==
  << <<1, "load", <<Extern>>>>, <<1, "invoke", <<1, Global>>>>,
     <<2, "load", <<Extern>>>>, <<2, "store", <<2, 3>>>>, <<2, "ret", <<>>>>,
     <<3, "unhandled", <<>>>>, <<3, "resume", <<6>>>> >>

MCFunctions ==
  AllOf(Chain, << <<>> >>, 1) \cup AllOf(Calls, << <<>> >>, 1)
    \cup AllOf(Switch, << <<2, 2, 3>>, <<3>>, <<>> >>, 1)
    \cup AllOf(Loop, << <<2>>, <<3, 4>>, <<2>>, <<>> >>, 1)
    \cup AllOf(Rest, << <<>> >>, 1)
    \cup AllOf(Twice, << <<>> >>, 1)
    \cup AllOf(Unwind, << <<2, 3>>, <<>>, <<>> >>, 0)
    \cup {Function(<<>>, <<>>, 2, {}, {})}

=============================================================================
