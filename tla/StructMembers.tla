---------------------------- MODULE StructMembers ----------------------------
(***************************************************************************)
(* Member names: CPGTypeEmitter::emitStructMembers, which declares the     *)
(* members of every struct module by module, recordStructInformation,      *)
(* which takes their names from the debug information of the module, and   *)
(* the emission of member accesses, which asks for the names again when    *)
(* every module has been through.                                          *)
(*                                                                         *)
(* A module is a record                                                    *)
(*   types  its identified structs: [name, size, opaque], where name is    *)
(*          the canonical name ("" for none)                               *)
(*   di     its debug types by number, 1 .. n; 0 is the null pointer:      *)
(*          [kind |-> "composite", name, elements] (those that are types), *)
(*          [kind |-> "function", types], [kind |-> "basic"] or            *)
(*          [kind |-> "derived", tag, name, base]                          *)
(*   used   the types of the variables dbg.declare names and of the        *)
(*          functions' subprograms: where the walk starts                  *)
(* and a context is a sequence of modules.                                 *)
(***************************************************************************)
EXTENDS Integers, Sequences, FiniteSets
LOCAL INSTANCE TLC

CONSTANTS Contexts

VARIABLES ctx, phase, module,
          worklist, visitedTypes, compositeTypes, typeAliases,
          structMemberNames,
          position, emittedStructs,
          aliases,              \* pairs <<alias, struct>> of type declarations
          members,              \* the MEMBER nodes, in the order of emission
          fields                \* the FIELD_IDENTIFIERs: <<struct, index, name>>

walk == <<worklist, visitedTypes, compositeTypes, typeAliases>>
vars == <<ctx, phase, module, walk, structMemberNames, position, emittedStructs,
          aliases, members, fields>>

Elements(s) == {s[k] : k \in DOMAIN s}
Empty == [n \in {} |-> <<>>]
At(f, n) == IF n \in DOMAIN f THEN f[n] ELSE <<>>
Set(f, n, v) == [m \in DOMAIN f \cup {n} |-> IF m = n THEN v ELSE f[m]]

(* A debug type refers to others by their numbers; a base, a return type   *)
(* and the type of a variable may be null.                                 *)
DebugTypes(n) ==
  [kind : {"composite"}, name : STRING, elements : Seq(1 .. n)]
  \cup [kind : {"function"}, types : Seq(0 .. n)] \cup [kind : {"basic"}]
  \cup [kind : {"derived"}, tag : STRING, name : STRING, base : 0 .. n]

IsModule(m) ==
  /\ m.types \in Seq([name : STRING, size : Nat, opaque : BOOLEAN])
  /\ m.di \in Seq(DebugTypes(Len(m.di)))
  /\ m.used \in Seq(0 .. Len(m.di))

ASSUME ContextsAssumption ==
  \A c \in Contexts : c \in Seq(Elements(c)) /\ \A m \in Elements(c) : IsModule(m)

Init ==
  /\ ctx \in Contexts
  /\ phase = "start" /\ module = 1
  /\ worklist = <<>> /\ visitedTypes = {} /\ compositeTypes = <<>> /\ typeAliases = Empty
  /\ structMemberNames = Empty
  /\ position = 1 /\ emittedStructs = {}
  /\ aliases = {} /\ members = <<>> /\ fields = {}

----------------------------------------------------------------------------
(* recordStructInformation: a walk over the module's debug types, which    *)
(* may be cyclic, breadth first.                                           *)
StartModule ==
  /\ phase = "start" /\ module \in DOMAIN ctx
  /\ worklist' = ctx[module].used
  /\ visitedTypes' = {} /\ compositeTypes' = <<>>
  /\ phase' = "walk"
  /\ UNCHANGED <<ctx, module, typeAliases, structMemberNames, position, emittedStructs,
                 aliases, members, fields>>

(* Ways it could go wrong: a type that is skipped stays in front of the    *)
(* queue; the types of functions are not followed.                         *)
StillInFront == worklist
Rest == Tail(worklist)

Skipped(type) == type = 0 \/ type \in visitedTypes

MembersOnly(d) == IF d.kind = "composite" THEN d.elements
                  ELSE IF d.kind = "derived" THEN <<d.base>> ELSE <<>>

Below(d) == IF d.kind = "composite" THEN d.elements
            ELSE IF d.kind = "derived" THEN <<d.base>>
            ELSE IF d.kind = "function" THEN d.types ELSE <<>>

NameOf(m, type) ==
  IF type # 0 /\ m.di[type].kind \in {"composite", "derived"} THEN m.di[type].name ELSE ""

(* A struct may have several typedefs.                                     *)
PushBack(list, alias) == Append(list, alias)

RecordAlias(m, d) ==
  LET base == IF d.kind = "derived" THEN NameOf(m, d.base) ELSE ""
  IN typeAliases' =
       IF d.kind = "derived" /\ d.tag = "typedef" /\ base # "" /\ d.name # ""
       THEN Set(typeAliases, base, PushBack(At(typeAliases, base), d.name)) ELSE typeAliases

SkipType ==
  /\ phase = "walk" /\ worklist # <<>>
  /\ Skipped(Head(worklist))
  /\ worklist' = Rest
  /\ UNCHANGED <<ctx, phase, module, visitedTypes, compositeTypes, typeAliases,
                 structMemberNames, position, emittedStructs, aliases, members, fields>>

VisitType ==
  /\ phase = "walk" /\ worklist # <<>>
  /\ LET m == ctx[module]
         type == Head(worklist)
     IN /\ ~Skipped(type)
        /\ worklist' = Tail(worklist) \o Below(m.di[type])
        /\ visitedTypes' = visitedTypes \cup {type}
        /\ compositeTypes' = IF m.di[type].kind = "composite"
                             THEN Append(compositeTypes, type) ELSE compositeTypes
        /\ RecordAlias(m, m.di[type])
  /\ UNCHANGED <<ctx, phase, module, structMemberNames, position, emittedStructs,
                 aliases, members, fields>>

EndWalk ==
  /\ phase = "walk" /\ worklist = <<>>
  /\ phase' = "record" /\ position' = 1
  /\ UNCHANGED <<ctx, module, walk, structMemberNames, emittedStructs, aliases, members, fields>>

(* The names of a composite's elements; those that are no derived types,   *)
(* such as a nested struct, are left out. An older list is overwritten;    *)
(* NotReset appends to it.                                                 *)
MemberNames(m, type) ==
  LET named == SelectSeq(m.di[type].elements, LAMBDA e : m.di[e].kind = "derived")
  IN [k \in DOMAIN named |-> m.di[named[k]].name]

NotReset(m, type) == At(structMemberNames, m.di[type].name) \o MemberNames(m, type)
NewNames(m, type) == MemberNames(m, type)

RecordNames ==
  /\ phase = "record" /\ position <= Len(compositeTypes)
  /\ LET m == ctx[module]
         type == compositeTypes[position]
     IN structMemberNames' =
          IF m.di[type].name = "" THEN structMemberNames
          ELSE Set(structMemberNames, m.di[type].name, NewNames(m, type))
  /\ position' = position + 1
  /\ UNCHANGED <<ctx, phase, module, walk, emittedStructs, aliases, members, fields>>

(* The sanity check. TooLong erases only the lists that are too short.     *)
TooLong(t) == t.name \in DOMAIN structMemberNames /\ Len(structMemberNames[t.name]) < t.size

DoesNotFit(t) ==
  t.name \in DOMAIN structMemberNames /\ Len(structMemberNames[t.name]) # t.size

SanityCheck ==
  /\ phase = "record" /\ position = Len(compositeTypes) + 1
  /\ LET wrong == {t.name : t \in {u \in Elements(ctx[module].types) : DoesNotFit(u)}}
     IN structMemberNames' = [n \in DOMAIN structMemberNames \ wrong |-> structMemberNames[n]]
  /\ phase' = "emit" /\ position' = 1
  /\ UNCHANGED <<ctx, module, walk, emittedStructs, aliases, members, fields>>

----------------------------------------------------------------------------
(* FieldName, in emitStructMembers and in CPGEmitter::emitGEP: the number  *)
(* stands for a name that is not there.                                    *)
FieldName(list, i) == IF i < Len(list) THEN list[i + 1] ELSE ToString(i)

MembersOf(t) ==
  [k \in 1 .. t.size |->
     [struct |-> t.name, order |-> k - 1,
      name |-> FieldName(At(structMemberNames, t.name), k - 1)]]

(* EveryStruct declares the members of each struct of a name.              *)
EveryStruct(t) == ~t.opaque /\ t.name # ""
ToBeEmitted(t) == ~t.opaque /\ t.name # "" /\ t.name \notin emittedStructs

EmitStruct ==
  /\ phase = "emit" /\ position \in DOMAIN ctx[module].types
  /\ LET t == ctx[module].types[position]
     IN IF ToBeEmitted(t)
        THEN /\ emittedStructs' = emittedStructs \cup {t.name}
             /\ aliases' = aliases \cup {<<a, t.name>> : a \in Elements(At(typeAliases, t.name))}
             /\ members' = members \o MembersOf(t)
        ELSE UNCHANGED <<emittedStructs, aliases, members>>
  /\ position' = position + 1
  /\ UNCHANGED <<ctx, phase, module, walk, structMemberNames, fields>>

EndModule ==
  /\ phase = "emit" /\ position = Len(ctx[module].types) + 1
  /\ module' = module + 1 /\ phase' = "start"
  /\ UNCHANGED <<ctx, walk, structMemberNames, position, emittedStructs,
                 aliases, members, fields>>

(* CPGEmitter::emitGEP, when the methods are emitted: after every module.  *)
BeginMethods ==
  /\ phase = "start" /\ module = Len(ctx) + 1
  /\ phase' = "methods"
  /\ UNCHANGED <<ctx, module, walk, structMemberNames, position, emittedStructs,
                 aliases, members, fields>>

AllTypes(c) == UNION {Elements(c[k].types) : k \in DOMAIN c}

Structs(c) == {t \in AllTypes(c) : ~t.opaque /\ t.name # ""}

EmitAccess ==
  /\ phase = "methods"
  /\ \E t \in Structs(ctx), i \in 0 .. 3 :
       /\ i < t.size
       /\ \A f \in fields : <<f[1], f[2]>> # <<t.name, i>>
       /\ fields' = fields \cup {<<t.name, i, FieldName(At(structMemberNames, t.name), i)>>}
       /\ structMemberNames' =
            Set(structMemberNames, t.name, At(structMemberNames, t.name))
  /\ UNCHANGED <<ctx, phase, module, walk, position, emittedStructs, aliases, members>>

Next ==
  \/ StartModule \/ SkipType \/ VisitType \/ EndWalk \/ RecordNames \/ SanityCheck
  \/ EmitStruct \/ EndModule \/ BeginMethods \/ EmitAccess

Spec == Init /\ [][Next]_vars

(* One thread runs these loops: as long as a step is possible, one is made.*)
FairSpec == Spec /\ WF_vars(Next)

----------------------------------------------------------------------------
TypeOK ==
  /\ phase \in {"start", "walk", "record", "emit", "methods"}
  /\ module \in 1 .. Len(ctx) + 1
  /\ phase \in {"walk", "record", "emit"} => module \in DOMAIN ctx
  /\ phase = "walk" => Elements(worklist) \cup visitedTypes \subseteq 0 .. Len(ctx[module].di)
  /\ phase = "record" => position \in 1 .. Len(compositeTypes) + 1
  /\ emittedStructs \subseteq {t.name : t \in Structs(ctx)}

Refers(m, d) ==
  {e \in DOMAIN m.di :
     \/ m.di[d].kind = "composite" /\ e \in Elements(m.di[d].elements)
     \/ m.di[d].kind = "function" /\ e \in Elements(m.di[d].types)
     \/ m.di[d].kind = "derived" /\ e = m.di[d].base}

(* What has the used types and is closed under references; and what the    *)
(* used types lead to, which is in every such set.                         *)
Closed(m, S) == Elements(m.used) \ {0} \subseteq S /\ \A d \in S : Refers(m, d) \subseteq S

Reachable(m) ==
  LET closed == {S \in SUBSET DOMAIN m.di : Closed(m, S)}
  IN {d \in DOMAIN m.di : \A S \in closed : d \in S}

(* The walk meets every debug type of the module, each once, also where    *)
(* the types are recursive (a member that points to its own struct): what  *)
(* it visits is the least set that has the used types and is closed under  *)
(* references.                                                             *)
CompositesOnce(m) ==
  /\ Elements(compositeTypes) = {d \in visitedTypes : m.di[d].kind = "composite"}
  /\ \A j, k \in DOMAIN compositeTypes : compositeTypes[j] = compositeTypes[k] => j = k

WalkIsComplete ==
  phase = "record" /\ position = 1 =>
    LET m == ctx[module]
    IN /\ Closed(m, visitedTypes)
       /\ \A S \in SUBSET DOMAIN m.di : Closed(m, S) => visitedTypes \subseteq S
       /\ CompositesOnce(m)

(* While a module's structs are declared, a list of names is never one for *)
(* a struct with another number of elements (CPGTypeEmitter.cpp:478),      *)
(* whichever of the module's composites, or of an earlier module's, the    *)
(* list is left over from.                                                 *)
ListsFit ==
  phase = "emit" =>
    \A t \in Elements(ctx[module].types) :
      At(structMemberNames, t.name) = <<>> \/ Len(structMemberNames[t.name]) = t.size

(* A field access names a member of the struct. The modules must agree on  *)
(* the struct: those that have it describe it, all descriptions of the     *)
(* name are the same, and so are the numbers of elements.                  *)
Descriptions(m, name) ==
  {MemberNames(m, d) : d \in {e \in Reachable(m) :
     m.di[e].kind = "composite" /\ m.di[e].name = name}}

Has(m, name) == \E t \in Elements(m.types) : t.name = name

Agreed(c, name) ==
  /\ \A k \in DOMAIN c : Has(c[k], name) <=> Descriptions(c[k], name) # {}
  /\ LET all == UNION {Descriptions(c[k], name) : k \in DOMAIN c}
     IN \E d \in all : all = {d}
  /\ \A t, u \in AllTypes(c) : t.name = name /\ u.name = name => t.size = u.size

IsMember(f) ==
  \E k \in DOMAIN members :
    members[k] = [struct |-> f[1], order |-> f[2], name |-> f[3]]

FieldsAreMembersWhenAgreed == \A f \in fields : IsMember(f) \/ ~Agreed(ctx, f[1])

(* A canonical name has its members declared once, one for each element in *)
(* order of one of the structs that share it, however many they are, of    *)
(* however many modules; and the typedefs that the modules up to the first *)
(* that has the struct know of are aliases of its type declaration. One    *)
(* that only a later module has comes too late (CPGTypeEmitter.cpp:369).   *)
TypedefsOf(m, name) ==
  {m.di[d].name : d \in {e \in Reachable(m) :
     m.di[e].kind = "derived" /\ m.di[e].tag = "typedef" /\ NameOf(m, m.di[e].base) = name}}

Declares(m, name) == \E t \in Elements(m.types) : ~t.opaque /\ t.name = name

DeclaredOnce(t) ==
  \E u \in Structs(ctx), b \in 0 .. Len(members) :
    /\ u.name = t.name
    /\ {k \in DOMAIN members : members[k].struct = t.name} = b + 1 .. b + u.size
    /\ \A k \in b + 1 .. b + u.size : members[k].order = k - b - 1

StructsAreDeclaredOnce ==
  phase = "start" /\ module = Len(ctx) + 1 =>
    \A t \in Structs(ctx) :
      /\ DeclaredOnce(t)
      /\ \A k \in DOMAIN ctx :
           (\A j \in 1 .. k - 1 : ~Declares(ctx[j], t.name)) =>
             \A a \in TypedefsOf(ctx[k], t.name) \ {""} : <<a, t.name>> \in aliases

(* The walk ends on every debug information, and so do the loops around it.*)
ReachesMethods == <>(phase = "methods")

=============================================================================
