----------------------------- MODULE StringInline -----------------------------
(***************************************************************************)
(* String literals: Transforms::inlineGlobalStrings, which marks loads,    *)
(* stores and calls with the strings their operands refer to, and the      *)
(* emitter, which shows those strings in the operands' place.              *)
(*                                                                         *)
(* A value is <<kind, global, zero>>: "global" for the global itself,      *)
(* "cast" for a constant bitcast of it, "gep" for a constant getelementptr *)
(* of two indices into it, all zero or not, and Local for anything else.   *)
(* A context is a record                                                   *)
(*   globals       the names of the module's globals, in its order         *)
(*   init          of each global a record [kind, of]:                     *)
(*     "cstring", "data"  a constant array that is or is not a C string    *)
(*     "tag"       an NSConstantString_tag; of is its third member         *)
(*     "selector"  an OBJC_SELECTOR_REFERENCES_; of is the initializer     *)
(*     "cast"      initialized with the cast of a tag, the value of        *)
(*     "number"    initialized with the cast of an integer to a pointer    *)
(*     "none"      no initializer, or another one                          *)
(*   instructions  the sequence of [op, operands], op "load", "store",     *)
(*                 "call" or "other"; a store has its value, then its      *)
(*                 pointer, and a call its arguments                       *)
(***************************************************************************)
EXTENDS Integers, Sequences, FiniteSets

CONSTANTS Contexts, None

VARIABLES ctx, stage, position,
          inlines,             \* global -> the string (the global it is in)
          inlineableGlobals,
          inlineInstructions,  \* triples <<instruction, operand's value, string>>
          metadata,            \* instruction -> a string or None for each operand
          shown,               \* instruction -> what stands for each operand
          asserted             \* the instructions whose visitor's assert failed

stringVars == <<ctx, stage, position, inlines, inlineableGlobals, inlineInstructions,
                metadata, shown, asserted>>

Local == <<"local", None, FALSE>>
Elements(s) == {s[k] : k \in DOMAIN s}

UserInstructions == {"load", "store", "call"}

Casts(names) == {<<"cast", g, FALSE>> : g \in names}
Into(names) == {<<"gep", g, zero>> : g \in names, zero \in BOOLEAN}
ValuesOf(names) ==
  {Local} \cup {<<"global", g, FALSE>> : g \in names} \cup Casts(names) \cup Into(names)

(* What LLVM's types and clang make sure of: an NSString and a selector    *)
(* refer into an array (an i8* to anything else needs a cast), what is     *)
(* initialized with a cast has the cast of a global, and loads and stores  *)
(* have one operand and two.                                               *)
HasStrings(c) ==
  LET names == Elements(c.globals)
      arrays == {g \in names : c.init[g].kind \in {"cstring", "data"}}
  IN /\ c.globals \in Seq(names) /\ None \notin names
     /\ \A g \in names :
          \/ c.init[g].kind \in {"cstring", "data", "number", "none"}
          \/ c.init[g].kind = "tag" /\ c.init[g].of \in {Local} \cup Into(arrays)
          \/ c.init[g].kind = "selector" /\ c.init[g].of \in Into(arrays)
          \/ c.init[g].kind = "cast" /\ c.init[g].of \in Casts(names)
     /\ c.instructions \in Seq([op : UserInstructions \cup {"other"},
                                 operands : Seq(ValuesOf(names))])
     /\ \A k \in DOMAIN c.instructions :
          /\ c.instructions[k].op = "load" => Len(c.instructions[k].operands) = 1
          /\ c.instructions[k].op = "store" => Len(c.instructions[k].operands) = 2

Set(f, n, v) == [m \in DOMAIN f \cup {n} |-> IF m = n THEN v ELSE f[m]]
Empty == [n \in {} |-> None]

StringInit ==
  /\ ctx \in Contexts
  /\ stage = "collect" /\ position = 1
  /\ inlines = Empty /\ inlineableGlobals = <<>> /\ inlineInstructions = {}
  /\ metadata = Empty /\ shown = Empty /\ asserted = {}

----------------------------------------------------------------------------
(* The initializers that are or lead to a string.                          *)
IsCString(g) == ctx.init[g].kind = "cstring"
IsNumber(g) == ctx.init[g].kind = "number"

GEPPointer(value) == IF value[1] = "gep" /\ value[3] THEN value[2] ELSE None

StringRefFromTag(g) ==
  IF ctx.init[g].kind = "tag" THEN GEPPointer(ctx.init[g].of) ELSE None

(* A constant expression leads to the tag it casts; if none of these gives *)
(* a reference, the initializer itself may be one.                         *)
StringRef(g) ==
  LET init == ctx.init[g]
      ref == IF init.kind \in {"cast", "selector"} THEN StringRefFromTag(init.of[2])
             ELSE StringRefFromTag(g)
  IN IF ref # None THEN ref ELSE GEPPointer(init.of)

Collect ==
  /\ stage = "collect" /\ position <= Len(ctx.globals)
  /\ LET g == ctx.globals[position]
     IN /\ ~IsNumber(g)
        /\ inlines' = IF IsCString(g) THEN Set(inlines, g, g) ELSE inlines
        /\ inlineableGlobals' = IF ctx.init[g].kind \in {"tag", "selector", "cast"}
                                THEN Append(inlineableGlobals, g) ELSE inlineableGlobals
  /\ position' = position + 1
  /\ UNCHANGED <<ctx, stage, inlineInstructions, metadata, shown, asserted>>

(* Of whatever is cast the code asks what it points to: an integer points  *)
(* to nothing, and the run ends there.                                     *)
Abort ==
  /\ stage = "collect" /\ position <= Len(ctx.globals)
  /\ IsNumber(ctx.globals[position])
  /\ stage' = "aborted"
  /\ UNCHANGED <<ctx, position, inlines, inlineableGlobals, inlineInstructions, metadata,
                 shown, asserted>>

EndCollect ==
  /\ stage = "collect" /\ position = Len(ctx.globals) + 1
  /\ stage' = "resolve" /\ position' = 1
  /\ UNCHANGED <<ctx, inlines, inlineableGlobals, inlineInstructions, metadata, shown, asserted>>

Resolve ==
  /\ stage = "resolve" /\ position <= Len(inlineableGlobals)
  /\ LET g == inlineableGlobals[position]
     IN inlines' = IF StringRef(g) \in DOMAIN inlines
                   THEN Set(inlines, g, inlines[StringRef(g)]) ELSE inlines
  /\ position' = position + 1
  /\ UNCHANGED <<ctx, stage, inlineableGlobals, inlineInstructions, metadata, shown, asserted>>

(* The users of each inlined global, and the users of the constant         *)
(* expressions on it: only instructions of these kinds.                    *)
RefersTo(value, g) ==
  /\ value[2] = g
  /\ value[1] = "gep" => value[3]
  /\ value[1] \in {"gep", "cast", "global"}

MarkUsers ==
  /\ stage = "resolve" /\ position = Len(inlineableGlobals) + 1
  /\ inlineInstructions' =
       UNION {{<<k, value, inlines[g]>> :
                 value \in {v \in Elements(ctx.instructions[k].operands) : RefersTo(v, g)}} :
              g \in DOMAIN inlines,
              k \in {j \in DOMAIN ctx.instructions :
                       ctx.instructions[j].op \in UserInstructions}}
  /\ stage' = "attach" /\ position' = 1
  /\ UNCHANGED <<ctx, inlines, inlineableGlobals, metadata, shown, asserted>>

(* One entry for each operand, in the operands' order; PackedMetadata      *)
(* leaves out the null entries.                                            *)
StringAt(k, value) ==
  LET strings == {t[3] : t \in {u \in inlineInstructions : u[1] = k /\ u[2] = value}}
  IN IF strings = {} THEN None ELSE CHOOSE s \in strings : TRUE

PackedMetadata(k) ==
  LET operands == ctx.instructions[k].operands
      marked == SelectSeq(operands, LAMBDA v : StringAt(k, v) # None)
  IN [j \in DOMAIN operands |-> IF j \in DOMAIN marked THEN StringAt(k, marked[j]) ELSE None]

OperandMetadata(k) ==
  [j \in DOMAIN ctx.instructions[k].operands |-> StringAt(k, ctx.instructions[k].operands[j])]

Attach ==
  /\ stage = "attach"
  /\ metadata' = [k \in {t[1] : t \in inlineInstructions} |-> OperandMetadata(k)]
  /\ stage' = "emit"
  /\ UNCHANGED <<ctx, position, inlines, inlineableGlobals, inlineInstructions, shown, asserted>>

----------------------------------------------------------------------------
(* The emitter. Null stands for a null node, <<"string", s>> for a literal *)
(* and <<"value", v>> for what emitRefOrConstant makes of the operand; a   *)
(* global with metadata of its own is its string.                          *)
Null == <<"null", None>>

InlineString(k, j) == IF metadata[k][j] = None THEN Null ELSE <<"string", metadata[k][j]>>

RefOrConstant(value) ==
  IF value[1] = "global" /\ value[2] \in DOMAIN inlines
  THEN <<"string", inlines[value[2]]>> ELSE <<"value", value>>

OrElse(node, value) == IF node = Null THEN RefOrConstant(value) ELSE node

Marked(k) == k \in DOMAIN metadata

(* emitDereference returns what emitInlineString returns.                  *)
EmitLoad(k) ==
  /\ ctx.instructions[k].op = "load"
  /\ shown' = Set(shown, k, <<IF Marked(k) THEN InlineString(k, 1)
                              ELSE RefOrConstant(ctx.instructions[k].operands[1])>>)
  /\ UNCHANGED asserted

(* visitStoreInst: the assert at CPGEmitter.cpp:215 and the code after it. *)
ValueString(k) == InlineString(k, 1)

EmitStore(k) ==
  /\ ctx.instructions[k].op = "store"
  /\ LET operands == ctx.instructions[k].operands
         node == IF Marked(k) THEN ValueString(k) ELSE Null
     IN /\ asserted' = IF Marked(k) /\ node = Null THEN asserted \cup {k} ELSE asserted
        /\ shown' = Set(shown, k, <<OrElse(node, operands[1]), RefOrConstant(operands[2])>>)

(* emitFunctionCallArgument. NoFallback forgets the fallback.              *)
NoFallback(k, j) ==
  IF Marked(k) THEN InlineString(k, j) ELSE RefOrConstant(ctx.instructions[k].operands[j])

Argument(k, j) ==
  OrElse(IF Marked(k) THEN InlineString(k, j) ELSE Null, ctx.instructions[k].operands[j])

EmitCall(k) ==
  /\ ctx.instructions[k].op = "call"
  /\ shown' = Set(shown, k, [j \in DOMAIN ctx.instructions[k].operands |-> Argument(k, j)])
  /\ UNCHANGED asserted

EmitOther(k) ==
  /\ ctx.instructions[k].op = "other"
  /\ shown' = Set(shown, k, [j \in DOMAIN ctx.instructions[k].operands |->
                               RefOrConstant(ctx.instructions[k].operands[j])])
  /\ UNCHANGED asserted

Emit ==
  /\ stage = "emit" /\ position \in DOMAIN ctx.instructions
  /\ EmitLoad(position) \/ EmitStore(position) \/ EmitCall(position) \/ EmitOther(position)
  /\ position' = position + 1
  /\ UNCHANGED <<ctx, stage, inlines, inlineableGlobals, inlineInstructions, metadata>>

StringNext == Collect \/ Abort \/ EndCollect \/ Resolve \/ MarkUsers \/ Attach \/ Emit

StringSpec == StringInit /\ [][StringNext]_stringVars

----------------------------------------------------------------------------
Strings == {g \in Elements(ctx.globals) : ctx.init[g].kind = "cstring"}

(* The four cases of Transforms.cpp:334-360, as a relation.                *)
IsStringOf(g, s) ==
  LET init == ctx.init[g]
      start == <<"gep", s, TRUE>>
  IN /\ s \in Strings
     /\ \/ g = s
        \/ init.kind \in {"tag", "selector"} /\ init.of = start
        \/ /\ init.kind = "cast"
           /\ ctx.init[init.of[2]].kind = "tag" /\ ctx.init[init.of[2]].of = start

(* A load, a store's value and a call's arguments are shown as a string    *)
(* exactly where the program refers to the start of one: the right string  *)
(* at the right operand, whatever the order of the globals.                *)
RefersToString(value, s) ==
  \E g \in Elements(ctx.globals) :
    /\ value \in {<<"global", g, FALSE>>, <<"cast", g, FALSE>>, <<"gep", g, TRUE>>}
    /\ IsStringOf(g, s)

LiteralsAreStrings ==
  \A k \in DOMAIN shown : ctx.instructions[k].op \in UserInstructions =>
    \A j \in DOMAIN shown[k], s \in Elements(ctx.globals) :
      \/ ctx.instructions[k].op = "store" /\ j = 2
      \/ shown[k][j] = <<"string", s>> <=> RefersToString(ctx.instructions[k].operands[j], s)

(* No node is null where the caller joins it as a child: emitDereference   *)
(* and emitRefOrConstant do not look (CPGEmitter.cpp:479, :707). And       *)
(* visitStoreInst, which does, fails its assertion (:215) for the stores   *)
(* that are marked for their pointer and not for their value, and no other.*)
OperandsHaveNodes ==
  stage = "emit" =>
    \A k \in DOMAIN shown :
      /\ Null \notin Elements(shown[k])
      /\ k \in asserted <=>
           /\ ctx.instructions[k].op = "store"
           /\ \E s \in Strings : RefersToString(ctx.instructions[k].operands[2], s)
           /\ ~\E s \in Strings : RefersToString(ctx.instructions[k].operands[1], s)

=============================================================================
