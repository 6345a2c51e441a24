----------------------------- MODULE OpaqueTypes ------------------------------
(***************************************************************************)
(* Names for opaque types: Transforms::renameOpaqueObjCTypes. clang gives  *)
(* the LLVM types of Objective-C classes no names; a type is named after   *)
(* the class whose methods take it for self or, in a second round, after   *)
(* the composite type that the debug type of a variable leads to.          *)
(*                                                                         *)
(* Types are numbers; 0 stands for one that is no pointer to a struct. A   *)
(* context is a record                                                     *)
(*   own       the name of each struct, "" for none                        *)
(*   opaque    the structs that are opaque                                 *)
(*   methods   the methods of the classes the module defines, in order:    *)
(*             <<class, self>>                                             *)
(*   declares  the calls of dbg.declare, in order: <<struct, debug type>>  *)
(*   di        the debug types: [kind |-> "composite", name],              *)
(*             [kind |-> "derived", base] or [kind |-> "basic"]; the type  *)
(*             of a pointer to a struct does not derive from void          *)
(* What LLVM appends to a name that is taken is left out; getCanonicalName *)
(* takes it off again.                                                     *)
(***************************************************************************)
EXTENDS Integers, Sequences

CONSTANTS Contexts

VARIABLES ctx, phase, position,
          name,             \* struct -> name
          typeWorklist,     \* pairs <<struct, debug type>>
          structType,       \* the struct of the pair the walk is for
          diTypeWorklist, visitedTypes

vars == <<ctx, phase, position, name, typeWorklist, structType, diTypeWorklist, visitedTypes>>

Elements(s) == {s[k] : k \in DOMAIN s}

(* Contexts are as described above, and classes have names.                *)
HasTypes(c) ==
  /\ c.own \in [DOMAIN c.own -> STRING] /\ 0 \notin DOMAIN c.own
  /\ c.opaque \subseteq DOMAIN c.own
  /\ c.methods \in Seq((STRING \ {""}) \X (DOMAIN c.own \cup {0}))
  /\ c.declares \in Seq((DOMAIN c.own \cup {0}) \X DOMAIN c.di)
  /\ \A t \in DOMAIN c.di :
       \/ c.di[t].kind = "composite" /\ c.di[t].name \in STRING
       \/ c.di[t].kind = "derived" /\ c.di[t].base \in DOMAIN c.di
       \/ c.di[t].kind = "basic"

Init ==
  /\ ctx \in Contexts
  /\ phase = "methods" /\ position = 1
  /\ name = ctx.own
  /\ typeWorklist = <<>> /\ structType = 0 /\ diTypeWorklist = <<>> /\ visitedTypes = {}

(* A self type that is not opaque is left alone.                           *)
NameSelf ==
  /\ phase = "methods" /\ position \in DOMAIN ctx.methods
  /\ LET class == ctx.methods[position][1]
         self == ctx.methods[position][2]
     IN name' = IF self \in ctx.opaque THEN [name EXCEPT ![self] = class] ELSE name
  /\ position' = position + 1
  /\ UNCHANGED <<ctx, phase, typeWorklist, structType, diTypeWorklist, visitedTypes>>

EndMethods ==
  /\ phase = "methods" /\ position = Len(ctx.methods) + 1
  /\ phase' = "collect" /\ position' = 1
  /\ UNCHANGED <<ctx, name, typeWorklist, structType, diTypeWorklist, visitedTypes>>

(* AnyUnnamed takes in the literal structs, which have no name either.     *)
AnyUnnamed(s) == s # 0 /\ name[s] = ""
IsNameless(s) == s \in ctx.opaque /\ name[s] = ""

CollectVariable ==
  /\ phase = "collect" /\ position \in DOMAIN ctx.declares
  /\ typeWorklist' = IF IsNameless(ctx.declares[position][1])
                     THEN Append(typeWorklist, ctx.declares[position]) ELSE typeWorklist
  /\ position' = position + 1
  /\ UNCHANGED <<ctx, phase, name, structType, diTypeWorklist, visitedTypes>>

EndCollect ==
  /\ phase = "collect" /\ position = Len(ctx.declares) + 1
  /\ phase' = "name" /\ position' = 1
  /\ UNCHANGED <<ctx, name, typeWorklist, structType, diTypeWorklist, visitedTypes>>

(* A struct that an earlier pair has named is skipped.                     *)
TakePair ==
  /\ phase = "name" /\ position \in DOMAIN typeWorklist
  /\ structType' = typeWorklist[position][1]
  /\ IF name[structType'] # ""
     THEN UNCHANGED <<phase, diTypeWorklist>>
     ELSE diTypeWorklist' = <<typeWorklist[position][2]>> /\ phase' = "walk"
  /\ position' = position + 1
  /\ UNCHANGED <<ctx, name, typeWorklist, visitedTypes>>

Followed(type) == IF ctx.di[type].kind = "derived" THEN <<ctx.di[type].base>> ELSE <<>>

VisitType ==
  /\ phase = "walk" /\ diTypeWorklist # <<>>
  /\ LET type == Head(diTypeWorklist)
         seen == type \in visitedTypes
     IN /\ visitedTypes' = visitedTypes \cup {type}
        /\ diTypeWorklist' = Tail(diTypeWorklist) \o (IF seen THEN <<>> ELSE Followed(type))
        /\ name' = IF ~seen /\ ctx.di[type].kind = "composite"
                   THEN [name EXCEPT ![structType] = ctx.di[type].name] ELSE name
  /\ UNCHANGED <<ctx, phase, position, typeWorklist, structType>>

EndWalk ==
  /\ phase = "walk" /\ diTypeWorklist = <<>>
  /\ phase' = "name"
  /\ UNCHANGED <<ctx, position, name, typeWorklist, structType, diTypeWorklist, visitedTypes>>

Next ==
  \/ NameSelf \/ EndMethods \/ CollectVariable \/ EndCollect
  \/ TakePair \/ VisitType \/ EndWalk

Spec == Init /\ [][Next]_vars

----------------------------------------------------------------------------
Done == phase = "name" /\ position = Len(typeWorklist) + 1

IsNamed(composite, text) ==
  ctx.di[composite].kind = "composite" /\ ctx.di[composite].name = text

(* A debug type leads to what is in every set that has the type and the    *)
(* bases of its members.                                                   *)
LeadsTo(type, composite) ==
  \A S \in SUBSET DOMAIN ctx.di :
    type \in S /\ (\A t \in S : Elements(Followed(t)) \subseteq S) => composite \in S

Describes(composite, s) ==
  \E d \in Elements(ctx.declares) : d[1] = s /\ LeadsTo(d[2], composite)

(* A struct is called what it was, if it is not opaque, and otherwise what *)
(* it was, a class it is the self of, or the composite of a variable of    *)
(* its own - never what another struct of the worklist is.                 *)
NamedAfterItsOwn ==
  \A s \in DOMAIN name :
    \/ name[s] = ctx.own[s]
    \/ /\ s \in ctx.opaque
       /\ \/ <<name[s], s>> \in Elements(ctx.methods)
          \/ /\ \A m \in Elements(ctx.methods) : m[2] # s
             /\ \E c \in DOMAIN ctx.di : IsNamed(c, name[s]) /\ Describes(c, s)

(* A struct stays nameless only if no variable's debug type describes it   *)
(* with a name, or if the walk for another struct has met that type first. *)
NamelessWhenShared ==
  Done =>
    \A s \in ctx.opaque, c \in DOMAIN ctx.di :
      name[s] = "" /\ ctx.di[c].kind = "composite" /\ Describes(c, s) =>
        \/ IsNamed(c, "")
        \/ \E t \in ctx.opaque \ {s} : IsNamed(c, name[t]) /\ Describes(c, t)

=============================================================================
