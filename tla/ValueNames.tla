------------------------------ MODULE ValueNames ------------------------------
(***************************************************************************)
(* Names: CPGInstVisitor (lib/CPG/CPGInstVisitor.cpp), which goes through  *)
(* a function once, collects its arguments and local variables and names   *)
(* them, from the debug information where there is any.                    *)
(*                                                                         *)
(* A value is <<kind, number>>: "arg", "inst", "global", "function",       *)
(* "constant", or "null" for none. A name is <<text, suffix>>, NoName if   *)
(* there is none; what LLVM adds to keep names apart is left out. A        *)
(* context is a record                                                     *)
(*   own           what LLVM calls the values: value -> name               *)
(*   arguments     the number of the function's arguments                  *)
(*   instructions  the sequence of                                         *)
(*       [kind |-> "alloca" or "temp" or "void", inlined]                  *)
(*       [kind |-> "dbg", variable, ref, suffix], a DbgVariableIntrinsic   *)
(*       whose expression and kind give the suffix                         *)
(*   subprogram    whether the function has one, and                       *)
(*   retained      the variables among its retainedNodes                   *)
(* and a variable is [text, arg, scope], arg 0 for no parameter, scope the *)
(* function it is declared in: "this", or one that was inlined.            *)
(***************************************************************************)
EXTENDS Integers, Sequences

CONSTANTS Contexts

Elements(s) == {s[k] : k \in DOMAIN s}

Described(c) ==
  {i.variable : i \in {x \in Elements(c.instructions) : x.kind = "dbg"}}
    \cup Elements(c.retained)

(* What clang and LLVM make sure of: an annotation comes after the value   *)
(* it is about, ".arg" is no suffix of theirs, and the parameters of one   *)
(* function are numbered.                                                  *)
WellFormed(c) ==
  /\ c.arguments \in Nat /\ c.subprogram \in BOOLEAN
  /\ c.instructions \in Seq(Elements(c.instructions))
  /\ c.retained \in Seq(Elements(c.retained))
  /\ c.own = [v \in DOMAIN c.own |-> c.own[v]]
  /\ \A k \in 1 .. c.arguments :
       <<"arg", k>> \in DOMAIN c.own /\ c.own[<<"arg", k>>][2] # ".arg"
  /\ \A k \in DOMAIN c.instructions :
       LET i == c.instructions[k]
       IN \/ /\ i.kind \in {"alloca", "temp", "void"}
             /\ i.inlined \in BOOLEAN
             /\ i.kind # "void" => <<"inst", k>> \in DOMAIN c.own
          \/ /\ i.kind = "dbg"
             /\ i.ref[1] \in {"arg", "inst", "global"} => i.ref \in DOMAIN c.own
             /\ \A j \in DOMAIN c.instructions : i.ref = <<"inst", j>> => j < k
             /\ i.suffix # ".arg"
  /\ \A u \in Described(c) : u.arg \in Nat
  /\ \A u, v \in Described(c) : u.scope = v.scope /\ u.arg = v.arg /\ u.arg # 0 => u = v

ASSUME ContextsAssumption == \A c \in Contexts : WellFormed(c)

VARIABLES ctx, phase, position,
          name,               \* value -> name
          arguments, variables, formalArguments

vars == <<ctx, phase, position, name, arguments, variables, formalArguments>>

NoName == <<"", "">>

Init ==
  /\ ctx \in Contexts
  /\ phase = "arguments" /\ position = 1
  /\ name = ctx.own
  /\ arguments = <<>> /\ variables = <<>> /\ formalArguments = <<>>

(* setNameIfEmpty.                                                         *)
NameIfEmpty(value, text) ==
  IF name[value] = NoName THEN [name EXCEPT ![value] = <<text, "">>] ELSE name

AddArgument ==
  /\ phase = "arguments" /\ position <= ctx.arguments
  /\ name' = NameIfEmpty(<<"arg", position>>, "arg")
  /\ arguments' = Append(arguments, <<"arg", position>>)
  /\ position' = position + 1
  /\ UNCHANGED <<ctx, phase, variables, formalArguments>>

BeginBody ==
  /\ phase = "arguments" /\ position = ctx.arguments + 1
  /\ phase' = "body" /\ position' = 1
  /\ UNCHANGED <<ctx, name, arguments, variables, formalArguments>>

----------------------------------------------------------------------------
Current == ctx.instructions[position]
InBody == phase = "body" /\ position \in DOMAIN ctx.instructions
Step == position' = position + 1 /\ UNCHANGED <<ctx, phase, arguments>>

(* An inlined instruction is part of another's expression: no variable.    *)
(* EveryInstruction forgets that.                                          *)
EveryInstruction(i) == FALSE
Skipped(i) == i.kind # "dbg" /\ i.inlined

SkipInlined ==
  /\ InBody /\ Skipped(Current)
  /\ Step
  /\ UNCHANGED <<name, variables, formalArguments>>

(* visitInstruction and visitAllocaInst.                                   *)
AddVariable ==
  /\ InBody /\ ~Skipped(Current)
  /\ Current.kind \in {"alloca", "temp"}
  /\ LET value == <<"inst", position>>
     IN /\ name' = NameIfEmpty(value, IF Current.kind = "alloca" THEN "local" ELSE "tmp")
        /\ variables' = Append(variables, value)
  /\ Step
  /\ UNCHANGED formalArguments

AddNothing ==
  /\ InBody /\ ~Skipped(Current)
  /\ Current.kind = "void"
  /\ Step
  /\ UNCHANGED <<name, variables, formalArguments>>

(* visitDbgVariableIntrinsic. ReturnsFirst has the early return for an     *)
(* argument before the record of the parameter; KeepName does not          *)
(* overwrite an earlier name. A constant has no name to set.               *)
IsParameter(local) == local.arg # 0

ReturnsFirst(local, ref) == ref[1] \notin {"null", "function", "arg"} /\ IsParameter(local)
Recorded(local, ref) == ref[1] \notin {"null", "function"} /\ IsParameter(local)

Renamed(local, ref) ==
  ref[1] \in {"inst", "global"} \/ (ref[1] = "arg" /\ ~IsParameter(local))

KeepName(value, text, suffix) ==
  IF name[value] = NoName THEN [name EXCEPT ![value] = <<text, suffix>>] ELSE name

SetName(value, text, suffix) == [name EXCEPT ![value] = <<text, suffix>>]

DebugName ==
  /\ InBody
  /\ Current.kind = "dbg"
  /\ LET local == Current.variable
         ref == Current.ref
     IN /\ formalArguments' = IF Recorded(local, ref) THEN Append(formalArguments, local)
                              ELSE formalArguments
        /\ name' = IF Renamed(local, ref) THEN SetName(ref, local.text, Current.suffix)
                   ELSE name
  /\ Step
  /\ UNCHANGED variables

EndBody ==
  /\ phase = "body" /\ position = Len(ctx.instructions) + 1
  /\ phase' = IF ctx.subprogram THEN "retained" ELSE "done"
  /\ position' = 1
  /\ UNCHANGED <<ctx, name, arguments, variables, formalArguments>>

----------------------------------------------------------------------------
(* With a subprogram: its retained parameters are recorded as well, and if *)
(* the number of every formal argument is one of the function's, all of    *)
(* them are named.                                                         *)
Retain ==
  /\ phase = "retained" /\ position \in DOMAIN ctx.retained
  /\ LET local == ctx.retained[position]
     IN formalArguments' = IF IsParameter(local) THEN Append(formalArguments, local)
                           ELSE formalArguments
  /\ position' = position + 1
  /\ UNCHANGED <<ctx, phase, name, arguments, variables>>

Agreeing == \A v \in Elements(formalArguments) : v.arg \in DOMAIN arguments

EndRetained ==
  /\ phase = "retained" /\ position = Len(ctx.retained) + 1
  /\ phase' = IF Agreeing THEN "formals" ELSE "done"
  /\ position' = 1
  /\ UNCHANGED <<ctx, name, arguments, variables, formalArguments>>

NameFormal ==
  /\ phase = "formals" /\ position \in DOMAIN formalArguments
  /\ LET formal == formalArguments[position]
     IN name' = SetName(arguments[formal.arg], formal.text, ".arg")
  /\ position' = position + 1
  /\ UNCHANGED <<ctx, phase, arguments, variables, formalArguments>>

Finish ==
  /\ phase = "formals" /\ position = Len(formalArguments) + 1
  /\ phase' = "done"
  /\ UNCHANGED <<ctx, position, name, arguments, variables, formalArguments>>

Next ==
  \/ AddArgument \/ BeginBody \/ SkipInlined \/ AddVariable \/ AddNothing \/ DebugName
  \/ EndBody \/ Retain \/ EndRetained \/ NameFormal \/ Finish

Spec == Init /\ [][Next]_vars

----------------------------------------------------------------------------
Produced == {k \in DOMAIN ctx.instructions : ctx.instructions[k].kind \in {"alloca", "temp"}}

AnnotationsOf(v) ==
  {k \in DOMAIN ctx.instructions :
     ctx.instructions[k].kind = "dbg" /\ ctx.instructions[k].ref = v}

(* The emitter declares a local for each variable and finds every value    *)
(* that an expression refers to by its declaration (getLocal asserts it):  *)
(* the variables are the values that are not part of an expression, once   *)
(* each, and each has a name unless an annotation takes it away: that of a *)
(* parameter without a name, for one.                                      *)
VariablesAreTheLocals ==
  phase = "done" =>
    /\ Elements(variables) =
         {<<"inst", k>> : k \in {j \in Produced : ~ctx.instructions[j].inlined}}
    /\ \A j, k \in DOMAIN variables : variables[j] = variables[k] => j = k
    /\ \A v \in Elements(variables) \cup Elements(arguments) :
         name[v] # NoName \/ \E k \in AnnotationsOf(v) : ctx.instructions[k].variable.text = ""

(* CPGInstVisitor.cpp:22, "latest name wins": a variable, or a global, is  *)
(* called what the last annotation of it says, wherever that stands. What  *)
(* has none keeps the name it has or gets one, and no function is renamed. *)
OwnName(v) ==
  IF ctx.own[v] # NoName \/ v[1] # "inst" THEN ctx.own[v]
  ELSE <<IF ctx.instructions[v[2]].kind = "alloca" THEN "local" ELSE "tmp", "">>

LatestNameWins ==
  phase = "done" =>
    \A v \in Elements(variables) \cup {x \in DOMAIN name : x[1] \in {"global", "function"}} :
      IF v[1] = "function" \/ AnnotationsOf(v) = {} THEN name[v] = OwnName(v)
      ELSE \E k \in AnnotationsOf(v) :
             /\ \A j \in AnnotationsOf(v) : j <= k
             /\ name[v] = <<ctx.instructions[k].variable.text, ctx.instructions[k].suffix>>

(* The parameters the debug information knows of: those that are annotated *)
(* at some place, and the retained ones.                                   *)
Parameters ==
  {v \in Elements(ctx.retained) : v.arg # 0}
    \cup {i.variable : i \in {x \in Elements(ctx.instructions) :
            x.kind = "dbg" /\ x.variable.arg # 0 /\ x.ref[1] \notin {"null", "function"}}}

(* In a function nothing was inlined into, either every parameter gives    *)
(* its argument its name, or, where LLVM and the debug information do not  *)
(* agree on the number (CPGInstVisitor.cpp:51-61), none does.              *)
AllParametersOrNone ==
  phase = "done" /\ (\A v \in Parameters : v.scope = "this") =>
    IF ctx.subprogram /\ \A v \in Parameters : v.arg \in 1 .. ctx.arguments
    THEN \A v \in Parameters : name[<<"arg", v.arg>>] = <<v.text, ".arg">>
    ELSE \A k \in 1 .. ctx.arguments : name[<<"arg", k>>][2] # ".arg"

=============================================================================
