---------------------------- MODULE ObjCHierarchy ----------------------------
(***************************************************************************)
(* Objective-C classes: ObjCTypeHierarchy (lib/CPG/ObjCTypeHierarchy.cpp), *)
(* the traversal of a module's class lists it is built from, and the parts *)
(* of CPGTypeEmitter that use it: emitObjCTypes, emitObjCMethodBindings.   *)
(*                                                                         *)
(* A name is <<"Foo", "">> for a class, <<"Foo", "$">> for its metaclass   *)
(* and <<"Foo", "(Cat)">> for a category. A context is the sequence of the *)
(* modules; a module is the sequence of its definitions, the list          *)
(* OBJC_LABEL_CLASS_$ before the list OBJC_LABEL_CATEGORY_$:               *)
(*   [kind |-> "class", name, super, inst, cls]       super may be None    *)
(*   [kind |-> "category", name, of, inst, cls]                            *)
(* where inst and cls are the instance and the class methods, sets of      *)
(* <<selector, function>>. A type declaration stands for itself and for    *)
(* that of its pointer type ("Foo*"), which is bound to the same methods.  *)
(***************************************************************************)
EXTENDS Integers, Sequences, FiniteSets

CONSTANTS Contexts, None

VARIABLES ctx, phase,
          module, position,     \* the definition constructHierarchy is at
          rootClasses, objcClasses, objcCategories, definedClasses,
          metaclassMapping,     \* pairs <<class, metaclass>>
          subclassMapping,      \* pairs <<class, subclass>>
          methodMapping,        \* triples <<name, selector, function>>
          pending,              \* what the loop of this phase has yet to visit
          work,                 \* calls not yet made: pairs <<base, derived>>
          namedTypeDecls, inherits,
          astParent,            \* pairs <<function, name>>, the last one set
          bindings              \* triples <<name, selector, function>>

hierarchy == <<rootClasses, objcClasses, objcCategories, definedClasses,
               metaclassMapping, subclassMapping>>
output == <<namedTypeDecls, inherits, astParent, bindings>>
vars == <<ctx, phase, module, position, hierarchy, methodMapping, pending, work, output>>

IsClassName(n) == n = <<n[1], "">>
Meta(n) == <<n[1], "$">>

----------------------------------------------------------------------------
(* What the definitions say.                                               *)

Definitions(c) == UNION {{c[k][j] : j \in DOMAIN c[k]} : k \in DOMAIN c}

ClassesOf(c) == {d \in Definitions(c) : d.kind = "class"}

(* What the compiler writes: a selector is once in a list of methods, and  *)
(* only a category has a suffix of its own.                                *)
WellFormed(d) ==
  /\ d.kind \in {"class", "category"}
  /\ \A methods \in {d.inst, d.cls} : \A m, n \in methods : m[1] = n[1] => m[2] = n[2]
  /\ d.kind = "class" => IsClassName(d.name) /\ (d.super # None => IsClassName(d.super))
  /\ d.kind = "category" => IsClassName(d.of) /\ d.name[2] \notin {"", "$"}

(* No class is below itself: of any classes, one has no superclass among   *)
(* them.                                                                   *)
SuperclassesEnd(c) ==
  \A S \in SUBSET {d.name : d \in ClassesOf(c)} :
    S # {} => \E n \in S : \A d \in ClassesOf(c) : d.name = n => d.super \notin S \/ d.super = None

Target(d) == IF d.kind = "class" THEN d.name ELSE d.of

Subclasses(c) == {d \in ClassesOf(c) : d.super # None}

Names(c) ==
  LET named == {Target(d) : d \in Definitions(c)} \cup {d.name : d \in Definitions(c)}
                 \cup {d.super : d \in Subclasses(c)}
  IN named \cup {Meta(n) : n \in named}

(* A program has one class of a name, and clang one function for each      *)
(* method a definition implements.                                         *)
OneSuperclass(c) == \A d, e \in ClassesOf(c) : d.name = e.name => d.super = e.super

MethodsOf(d) == d.inst \cup d.cls

OneDefinition(c) ==
  \A d, e \in Definitions(c) :
    (\E m \in MethodsOf(d), n \in MethodsOf(e) : m[2] = n[2]) => d = e

ASSUME ContextsAssumption ==
  \A c \in Contexts :
    /\ c \in Seq(Seq(Definitions(c)))
    /\ \A d \in Definitions(c) : WellFormed(d)
    /\ None \notin Names(c)
    /\ SuperclassesEnd(c) /\ OneSuperclass(c) /\ OneDefinition(c)

(* ObjCClassDefinition::isExternal: the global has no initializer here.    *)
IsExternalIn(k, n) == \A j \in DOMAIN ctx[k] : ctx[k][j].kind = "class" => ctx[k][j].name # n

Entries(names, methods) == {<<n, m[1], m[2]>> : n \in names, m \in methods}
InCategory(d) == IF d.kind = "class" THEN {} ELSE {d.name}
InstanceEntries(d) == Entries({Target(d)} \cup InCategory(d), d.inst)
ClassEntries(d) == Entries({Meta(Target(d))} \cup InCategory(d), d.cls)

(* unordered_set::insert: ObjCMethods are equal when their names are, so   *)
(* the first of a name stays. LastStays is the assignment of a map.        *)
LastStays(mapping, new) ==
  new \cup {e \in mapping : \A f \in new : f[1] = e[1] => f[2] # e[2]}

Insert(mapping, new) ==
  mapping \cup {e \in new : \A f \in mapping : f[1] = e[1] => f[2] # e[2]}

----------------------------------------------------------------------------
Init ==
  /\ ctx \in Contexts
  /\ phase = "construct" /\ module = 1 /\ position = 1
  /\ rootClasses = {} /\ objcClasses = {} /\ objcCategories = {} /\ definedClasses = {}
  /\ metaclassMapping = {} /\ subclassMapping = {} /\ methodMapping = {}
  /\ pending = {} /\ work = <<>>
  /\ namedTypeDecls = {} /\ inherits = {} /\ astParent = {} /\ bindings = {}

(* The subclass relation a class adds, to both of the parallel hierarchies.*)
(* Ways it could go wrong: a superclass inserted under its own name, the   *)
(* metaclasses forgotten, the null superclass of a root taken for a class. *)
EdgeToItself(d) ==
  IF d.super = None THEN {} ELSE {<<d.super, d.super>>, <<Meta(d.super), Meta(d.super)>>}

ClassesOnly(d) == IF d.super = None THEN {} ELSE {<<d.super, d.name>>}

NullNotChecked(d) == {<<d.super, d.name>>, <<Meta(d.super), Meta(d.name)>>}

SubclassEdges(d) ==
  IF d.super = None THEN {}
  ELSE {<<d.super, d.name>>, <<Meta(d.super), Meta(d.name)>>}

(* Where the walks start: a class without a superclass, and a superclass   *)
(* that this module only declares. DefinedRoots leaves the second out.     *)
DefinedRoots(d) == IF d.super = None THEN {d.name, Meta(d.name)} ELSE {}

RootsOf(d) ==
  IF d.super = None THEN {d.name, Meta(d.name)}
  ELSE IF IsExternalIn(module, d.super) THEN {d.super, Meta(d.super)} ELSE {}

AddMethods(d) ==
  methodMapping' = Insert(Insert(methodMapping, InstanceEntries(d)), ClassEntries(d))

AddClass ==
  /\ phase = "construct"
  /\ module \in DOMAIN ctx /\ position \in DOMAIN ctx[module]
  /\ LET d == ctx[module][position]
         named == {d.name} \cup ({d.super} \ {None})
     IN /\ d.kind = "class"
        /\ metaclassMapping' = metaclassMapping \cup {<<n, Meta(n)>> : n \in named}
        /\ subclassMapping' = subclassMapping \cup SubclassEdges(d)
        /\ rootClasses' = rootClasses \cup RootsOf(d)
        /\ definedClasses' = definedClasses \cup {d.name, Meta(d.name)}
        /\ objcClasses' = objcClasses \cup named
        /\ AddMethods(d)
  /\ position' = position + 1
  /\ UNCHANGED <<ctx, phase, module, objcCategories, pending, work, output>>

AddCategory ==
  /\ phase = "construct"
  /\ module \in DOMAIN ctx /\ position \in DOMAIN ctx[module]
  /\ LET d == ctx[module][position]
         external == IsExternalIn(module, d.of)
     IN /\ d.kind = "category"
        /\ objcClasses' = objcClasses \cup {d.of}
        /\ rootClasses' = rootClasses \cup (IF external THEN {d.of, Meta(d.of)} ELSE {})
        /\ metaclassMapping' =
             metaclassMapping \cup (IF external THEN {<<d.of, Meta(d.of)>>} ELSE {})
        /\ objcCategories' = objcCategories \cup {d.name}
        /\ AddMethods(d)
  /\ position' = position + 1
  /\ UNCHANGED <<ctx, phase, module, definedClasses, subclassMapping, pending, work, output>>

NextModule ==
  /\ phase = "construct"
  /\ module \in DOMAIN ctx /\ position = Len(ctx[module]) + 1
  /\ module' = module + 1 /\ position' = 1
  /\ UNCHANGED <<ctx, phase, hierarchy, methodMapping, pending, work, output>>

----------------------------------------------------------------------------
(* emitObjCTypes. The categories are declared first; emitObjCType declares *)
(* a class and calls itself for the subclasses, in the order of a hash.    *)
BeginTypes ==
  /\ phase = "construct" /\ module = Len(ctx) + 1
  /\ namedTypeDecls' = objcCategories
  /\ pending' = rootClasses
  /\ phase' = "types"
  /\ UNCHANGED <<ctx, module, position, hierarchy, methodMapping, work,
                 inherits, astParent, bindings>>

Orders(S) ==
  {s \in [1 .. Cardinality(S) -> S] : \A x \in S : \E i \in DOMAIN s : s[i] = x}

Calls(n) == Orders({e \in subclassMapping : e[1] = n})

(* A new phase's loop starts when the last call has returned.              *)
Idle == work = <<>>

EmitRoot ==
  /\ phase = "types" /\ Idle
  /\ \E base \in pending :
       /\ pending' = pending \ {base}
       /\ namedTypeDecls' = namedTypeDecls \cup {base}
       /\ work' \in Calls(base)
  /\ UNCHANGED <<ctx, phase, module, position, hierarchy, methodMapping,
                 inherits, astParent, bindings>>

EmitSubclass ==
  /\ phase = "types" /\ ~Idle
  /\ LET base == Head(work)[1]
         subclass == Head(work)[2]
     IN /\ namedTypeDecls' = namedTypeDecls \cup {subclass}
        /\ inherits' = inherits \cup {<<subclass, base>>}
        /\ \E calls \in Calls(subclass) : work' = calls \o Tail(work)
  /\ UNCHANGED <<ctx, phase, module, position, hierarchy, methodMapping, pending,
                 astParent, bindings>>

----------------------------------------------------------------------------
(* emitObjCMethodBindings, after every method has been emitted. (The second*)
(* hierarchy it constructs from the same modules is the first one again.)  *)
BeginAttach ==
  /\ phase = "types" /\ Idle /\ pending = {}
  /\ pending' = objcClasses \cap definedClasses
  /\ phase' = "attach"
  /\ UNCHANGED <<ctx, module, position, hierarchy, methodMapping, work, output>>

FunctionsOf(n) == {e[3] : e \in {x \in methodMapping : x[1] = n}}

FirstParentStays(functions, parent) ==
  astParent' = astParent
    \cup {<<f, parent>> : f \in {g \in functions : \A a \in astParent : a[1] # g}}

SetParent(functions, parent) ==
  astParent' = {a \in astParent : a[1] \notin functions} \cup {<<f, parent>> : f \in functions}

AttachClass ==
  /\ phase = "attach"
  /\ \E class \in pending :
       /\ pending' = pending \ {class}
       /\ SetParent(FunctionsOf(class) \cup FunctionsOf(Meta(class)), class)
  /\ UNCHANGED <<ctx, phase, module, position, hierarchy, methodMapping, work,
                 namedTypeDecls, inherits, bindings>>

BeginCategories ==
  /\ phase = "attach" /\ pending = {}
  /\ pending' = objcCategories
  /\ phase' = "categories"
  /\ UNCHANGED <<ctx, module, position, hierarchy, methodMapping, work, output>>

AttachCategory ==
  /\ phase = "categories"
  /\ \E category \in pending :
       /\ pending' = pending \ {category}
       /\ SetParent(FunctionsOf(category), category)
  /\ UNCHANGED <<ctx, phase, module, position, hierarchy, methodMapping, work,
                 namedTypeDecls, inherits, bindings>>

----------------------------------------------------------------------------
(* propagateSubclassMethods: fillInMethods gives derived the methods of    *)
(* base it has no method of its own name for, and goes on with its         *)
(* subclasses. BaseWins fills in the two sets in the other order;          *)
(* OneLevel does not go on: the ways it could go wrong.                    *)
BeginPropagate ==
  /\ phase = "categories" /\ pending = {}
  /\ pending' = rootClasses
  /\ phase' = "propagate"
  /\ UNCHANGED <<ctx, module, position, hierarchy, methodMapping, work, output>>

PropagateRoot ==
  /\ phase = "propagate" /\ Idle
  /\ \E base \in pending :
       /\ pending' = pending \ {base}
       /\ work' \in Calls(base)
  /\ UNCHANGED <<ctx, phase, module, position, hierarchy, methodMapping, output>>

FromBase(base, derived) == {<<derived, e[2], e[3]>> : e \in {x \in methodMapping : x[1] = base}}

BaseWins(base, derived) == LastStays(methodMapping, FromBase(base, derived))

Filled(base, derived) == Insert(methodMapping, FromBase(base, derived))

OneLevel(derived) == {<<>>}
Deeper(derived) == Calls(derived)

FillInMethods ==
  /\ phase = "propagate" /\ ~Idle
  /\ LET base == Head(work)[1]
         derived == Head(work)[2]
     IN /\ methodMapping' = Filled(base, derived)
        /\ \E calls \in Deeper(derived) : work' = calls \o Tail(work)
  /\ UNCHANGED <<ctx, phase, module, position, hierarchy, pending, output>>

BeginBind ==
  /\ phase = "propagate" /\ Idle /\ pending = {}
  /\ pending' = objcClasses
  /\ phase' = "bind"
  /\ UNCHANGED <<ctx, module, position, hierarchy, methodMapping, work, output>>

(* namedTypeDecl is an unordered_map::at, and the metaclass of the class   *)
(* must be known (assert(!metaclassName.empty())).                         *)
CanBind(class) ==
  class \in namedTypeDecls /\ <<class, Meta(class)>> \in metaclassMapping
    /\ Meta(class) \in namedTypeDecls

BindClass ==
  /\ phase = "bind"
  /\ \E class \in pending :
       /\ CanBind(class)
       /\ pending' = pending \ {class}
       /\ bindings' = bindings \cup {e \in methodMapping : e[1] \in {class, Meta(class)}}
  /\ UNCHANGED <<ctx, phase, module, position, hierarchy, methodMapping, work,
                 namedTypeDecls, inherits, astParent>>

Finish ==
  /\ phase = "bind" /\ pending = {}
  /\ phase' = "done"
  /\ UNCHANGED <<ctx, module, position, hierarchy, methodMapping, pending, work, output>>

Next ==
  \/ AddClass \/ AddCategory \/ NextModule
  \/ BeginTypes \/ EmitRoot \/ EmitSubclass
  \/ BeginAttach \/ AttachClass \/ BeginCategories \/ AttachCategory
  \/ BeginPropagate \/ PropagateRoot \/ FillInMethods
  \/ BeginBind \/ BindClass \/ Finish

Spec == Init /\ [][Next]_vars

(* One thread runs these loops: as long as a step is possible, one is made.*)
FairSpec == Spec /\ WF_vars(Next)

----------------------------------------------------------------------------
Phases == {"construct", "types", "attach", "categories", "propagate", "bind", "done"}

TypeOK ==
  /\ phase \in Phases
  /\ module \in 1 .. Len(ctx) + 1
  /\ position \in Nat \ {0}
  /\ subclassMapping \subseteq Names(ctx) \X Names(ctx)
  /\ work \in Seq(subclassMapping)
  /\ pending \subseteq rootClasses \cup objcClasses \cup objcCategories

(* Every .at of the bindings succeeds: whatever module a class, its        *)
(* superclass or its category is in, the walk from the roots has declared  *)
(* the class and its metaclass (CPGTypeEmitter.cpp:489, :236).             *)
ClassesAreDeclared ==
  phase \in {"attach", "categories", "propagate", "bind", "done"} =>
    \A class \in objcClasses : CanBind(class)

(* A type declaration inherits from the superclass, and from nothing else, *)
(* on both levels (CPGTypeEmitter.cpp:277).                                *)
InheritanceIsRecorded ==
  phase \in {"attach", "done"} =>
    inherits = {<<d.name, d.super>> : d \in Subclasses(ctx)}
                 \cup {<<Meta(d.name), Meta(d.super)>> : d \in Subclasses(ctx)}

(* methodMapping never has two functions for one selector of a class, and  *)
(* a walk never takes back or replaces one: that is why the order of the   *)
(* roots and of the subclasses, a hash's, does not show.                   *)
OneImplementation ==
  \A e, f \in methodMapping : e[1] = f[1] /\ e[2] = f[2] => e = f

OnlyAddsMethods == [][methodMapping \subseteq methodMapping']_vars

Listed(c) == UNION {InstanceEntries(d) \cup ClassEntries(d) : d \in Definitions(c)}

(* What a class responds to is its own or, for a selector it has no method *)
(* of its own for, its superclass's: an override is never lost.            *)
OwnOrInherited ==
  phase \in {"propagate", "bind", "done"} =>
    \A e \in methodMapping :
      \/ e \in Listed(ctx)
      \/ /\ \A f \in Listed(ctx) : f[1] = e[1] => f[2] # e[2]
         /\ \E edge \in subclassMapping :
              edge[2] = e[1] /\ <<edge[1], e[2], e[3]>> \in methodMapping

(* What the bindings are taken from is sound at every step of the walks.   *)
MethodMappingIsSound == OneImplementation /\ OwnOrInherited

----------------------------------------------------------------------------
(* Message passing (docs/design_considerations.md:197): the object's class *)
(* responds, or passes the message up to its superclass.                   *)
Candidates(n, s) == {e[3] : e \in {x \in Listed(ctx) : x[1] = n /\ x[2] = s}}

Superclass(n) ==
  LET up == {d.super : d \in {x \in ClassesOf(ctx) : x.name = n}}
              \cup {Meta(d.super) : d \in {x \in Subclasses(ctx) : Meta(x.name) = n}}
  IN IF up = {} THEN None ELSE CHOOSE u \in up : TRUE

Responders(n, s) ==
  LET top == Cardinality(Names(ctx))
      climb[k \in 0 .. top] ==
        IF k = 0 THEN [m \in Names(ctx) |-> Candidates(m, s)]
        ELSE [m \in Names(ctx) |->
                IF Candidates(m, s) # {} \/ Superclass(m) = None THEN Candidates(m, s)
                ELSE climb[k - 1][Superclass(m)]]
  IN climb[top][n]

Bound(n, s) == {b[3] : b \in {x \in bindings : x[1] = n /\ x[2] = s}}

(* The bindings of a class are what it responds to: each selector once,    *)
(* with the nearest implementation, in whatever order the walks are made.  *)
BindingsAreDispatch ==
  phase = "done" =>
    \A class \in objcClasses : \A n \in {class, Meta(class)}, s \in {e[2] : e \in Listed(ctx)} :
      /\ Bound(n, s) \subseteq Responders(n, s)
      /\ Cardinality(Bound(n, s)) = IF Responders(n, s) = {} THEN 0 ELSE 1

(* A method is the child of the class or category that defines it          *)
(* (docs/design_considerations.md:661, :699), for the methods that share   *)
(* their selector with no other of the same name.                          *)
Shared(f) ==
  \E x, y \in Listed(ctx) : x[3] = f /\ y[3] # f /\ x[1] = y[1] /\ x[2] = y[2]

MethodsBelongToTheirDefinition ==
  phase = "done" =>
    \A d \in Definitions(ctx), m \in UNION {MethodsOf(e) : e \in Definitions(ctx)} :
      m \in MethodsOf(d) /\ ~Shared(m[2]) => <<m[2], d.name>> \in astParent

(* The walks end: the recursion over the subclasses keeps no record of     *)
(* where it has been.                                                      *)
Terminates == <>(phase = "done")

=============================================================================
