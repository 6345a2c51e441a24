------------------------- MODULE ObjCHierarchyProofs -------------------------
(***************************************************************************)
(* For every set of well-formed modules: the types of ObjCHierarchy, that  *)
(* a name has one implementation of a selector, which no walk takes back,  *)
(* that overrides survive, that the bindings find every declaration and    *)
(* are what a class responds to, and that a method is in its class.        *)
(***************************************************************************)
EXTENDS ObjCHierarchy, FiniteSetTheorems, SequenceTheorems, WellFoundedInduction, TLAPS

LEMMA ContextFacts ==
  ASSUME ctx \in Contexts
  PROVE  /\ Len(ctx) \in Nat /\ DOMAIN ctx = 1 .. Len(ctx)
         /\ \A k \in DOMAIN ctx :
              /\ Len(ctx[k]) \in Nat /\ DOMAIN ctx[k] = 1 .. Len(ctx[k])
              /\ \A j \in DOMAIN ctx[k] : ctx[k][j] \in Definitions(ctx)
         /\ \A d \in Definitions(ctx) : WellFormed(d)
<1>. DEFINE D == Definitions(ctx)
<1>1. ctx \in Seq(Seq(D)) /\ \A d \in D : WellFormed(d)
  BY ContextsAssumption
<1>2. \A k \in DOMAIN ctx : ctx[k] \in Seq(D)
  <2>. HIDE DEF D
  <2>. QED
    BY <1>1
<1>. HIDE DEF D
<1>3. \A k \in DOMAIN ctx : \A j \in DOMAIN ctx[k] : ctx[k][j] \in D
  BY <1>2
<1>. QED
  BY <1>1, <1>2, <1>3 DEF D

(* The names a definition of the context gives are in Names.               *)
LEMMA NamesOf ==
  ASSUME NEW c, NEW d \in Definitions(c)
  PROVE  /\ {Target(d), Meta(Target(d)), d.name} \subseteq Names(c)
         /\ d.kind = "class" /\ d.super # None => {d.super, Meta(d.super)} \subseteq Names(c)
         /\ d.kind = "class" => SubclassEdges(d) \subseteq Names(c) \X Names(c)
<1>1. d.kind = "class" /\ d.super # None => d \in Subclasses(c)
  BY DEF Subclasses, ClassesOf
<1>2. d.kind = "class" => Target(d) = d.name
  BY DEF Target
<1>3. {Target(d), Meta(Target(d)), d.name} \subseteq Names(c)
  BY DEF Names
<1>4. d.kind = "class" /\ d.super # None => {d.super, Meta(d.super)} \subseteq Names(c)
  BY <1>1 DEF Names
<1>. QED
  BY <1>2, <1>3, <1>4 DEF SubclassEdges

In(e, s) == \E i \in DOMAIN s : s[i] = e

(* An order of a finite set lists it.                                      *)
LEMMA OrdersList ==
  ASSUME NEW S, IsFiniteSet(S), NEW s \in Orders(S)
  PROVE  s \in Seq(S) /\ \A x \in S : In(x, s)
<1>1. Cardinality(S) \in Nat
  BY FS_CardinalityType
<1>. QED
  BY <1>1 DEF Orders, In

LEMMA CallsList ==
  ASSUME IsFiniteSet(subclassMapping), NEW n, NEW calls \in Calls(n)
  PROVE  /\ calls \in Seq(subclassMapping)
         /\ \A e \in subclassMapping : e[1] = n => In(e, calls)
<1>. DEFINE S == {e \in subclassMapping : e[1] = n}
<1>1. IsFiniteSet(S)
  BY FS_Subset
<1>2. calls \in Seq(S) /\ \A x \in S : In(x, calls)
  BY <1>1, OrdersList DEF Calls
<1>3. Seq(S) \subseteq Seq(subclassMapping)
  OBVIOUS
<1>. QED
  BY <1>2, <1>3

(* A call is replaced by the calls it makes.                               *)
LEMMA Replaced ==
  ASSUME NEW E, NEW w \in Seq(E), w # <<>>, NEW calls \in Seq(E)
  PROVE  /\ Head(w) \in E
         /\ calls \o Tail(w) \in Seq(E)
         /\ \A e : In(e, w) => e = Head(w) \/ In(e, calls \o Tail(w))
         /\ \A e : In(e, calls) => In(e, calls \o Tail(w))
<1>. DEFINE t == Tail(w)
<1>1. /\ Len(t) = Len(w) - 1 /\ Head(w) = w[1] /\ Len(w) \in Nat \ {0}
      /\ \A i \in 1 .. Len(t) : t[i] = w[i + 1]
  OBVIOUS
<1>t. t \in Seq(E)
  OBVIOUS
<1>. HIDE DEF t
<1>2. /\ calls \o t \in Seq(E) /\ Len(calls \o t) = Len(calls) + Len(t)
      /\ \A i \in 1 .. Len(calls) : (calls \o t)[i] = calls[i]
      /\ \A i \in 1 .. Len(t) : (calls \o t)[Len(calls) + i] = t[i]
  BY <1>t
<1>3. ASSUME NEW e, In(e, calls) PROVE In(e, calls \o t)
  BY <1>2, <1>3 DEF In
<1>4. ASSUME NEW e, In(e, w), e # Head(w) PROVE In(e, calls \o t)
  <2>1. PICK i \in 1 .. Len(w) : w[i] = e
    BY <1>4 DEF In
  <2>2. i - 1 \in 1 .. Len(t) /\ t[i - 1] = e
    BY <1>1, <1>4, <2>1
  <2>3. (calls \o t)[Len(calls) + (i - 1)] = e /\ Len(calls) + (i - 1) \in 1 .. Len(calls \o t)
    BY <1>1, <1>t, <1>2, <2>2
  <2>. QED
    BY <1>2, <2>2, <2>3, LenProperties DEF In
<1>5. Head(w) \in E
  BY <1>1
<1>. QED
  BY <1>2, <1>3, <1>4, <1>5 DEF t

----------------------------------------------------------------------------
(***************************************************************************)
(* Types. The subclass relation stays finite, so the calls a class makes   *)
(* have an order.                                                          *)
(***************************************************************************)
Typed == ctx \in Contexts /\ TypeOK /\ IsFiniteSet(subclassMapping)

LEMMA CurrentDefinition ==
  ASSUME ctx \in Contexts, module \in DOMAIN ctx, position \in DOMAIN ctx[module]
  PROVE  ctx[module][position] \in Definitions(ctx) /\ WellFormed(ctx[module][position])
BY ContextFacts

LEMMA EdgesFinite ==
  ASSUME NEW d
  PROVE  IsFiniteSet(SubclassEdges(d))
<1>1. \A x, y : IsFiniteSet({x, y})
  <2>. SUFFICES ASSUME NEW x, NEW y PROVE IsFiniteSet({x, y})
    OBVIOUS
  <2>1. IsFiniteSet({x} \cup {y})
    BY FS_Singleton, FS_AddElement
  <2>2. {x, y} = {x} \cup {y}
    OBVIOUS
  <2>. QED
    BY <2>1, <2>2
<1>. QED
  BY <1>1, FS_EmptySet DEF SubclassEdges

LEMMA TypedInit == Init => Typed
<1>. SUFFICES ASSUME Init PROVE Typed
  OBVIOUS
<1>1. Len(ctx) \in Nat
  BY ContextFacts DEF Init
<1>. QED
  BY <1>1, FS_EmptySet DEF Init, Typed, TypeOK, Phases

LEMMA TypedNext == Typed /\ [Next]_vars => Typed'
<1>. SUFFICES ASSUME Typed, [Next]_vars PROVE Typed'
  OBVIOUS
<1>. USE DEF Typed
<1>1. CASE AddClass
  <2>. DEFINE d == ctx[module][position]
  <2>1. d \in Definitions(ctx) /\ d.kind = "class"
    BY <1>1, CurrentDefinition DEF AddClass
  <2>2. /\ subclassMapping' = subclassMapping \cup SubclassEdges(d)
        /\ rootClasses \subseteq rootClasses' /\ objcClasses \subseteq objcClasses'
        /\ UNCHANGED <<ctx, phase, module, objcCategories, pending, work>>
        /\ position' = position + 1
    BY <1>1 DEF AddClass
  <2>3. SubclassEdges(d) \subseteq Names(ctx) \X Names(ctx) /\ IsFiniteSet(SubclassEdges(d))
    BY <2>1, NamesOf, EdgesFinite
  <2>. HIDE DEF d
  <2>4. IsFiniteSet(subclassMapping')
    BY <2>2, <2>3, FS_Union
  <2>5. work' \in Seq(subclassMapping')
    <3>1. subclassMapping \subseteq subclassMapping'
      BY <2>2
    <3>. QED
      BY <2>2, <3>1 DEF TypeOK
  <2>. QED
    BY <2>2, <2>3, <2>4, <2>5 DEF TypeOK
<1>2. CASE AddCategory
  BY <1>2 DEF AddCategory, TypeOK
<1>3. CASE NextModule
  <2>1. module + 1 \in 1 .. Len(ctx) + 1
    BY <1>3, ContextFacts DEF NextModule
  <2>. QED
    BY <1>3, <2>1 DEF NextModule, TypeOK, hierarchy
<1>4. CASE BeginTypes
  BY <1>4 DEF BeginTypes, TypeOK, hierarchy, Phases
<1>5. CASE EmitRoot
  <2>1. PICK base \in pending : work' \in Calls(base) /\ pending' = pending \ {base}
    BY <1>5 DEF EmitRoot
  <2>2. work' \in Seq(subclassMapping)
    BY <2>1, CallsList
  <2>. QED
    BY <1>5, <2>1, <2>2 DEF EmitRoot, TypeOK, hierarchy
<1>6. CASE EmitSubclass
  <2>1. PICK calls \in Calls(Head(work)[2]) : work' = calls \o Tail(work)
    BY <1>6 DEF EmitSubclass
  <2>2. work' \in Seq(subclassMapping)
    BY <1>6, <2>1, CallsList, Replaced DEF EmitSubclass, TypeOK, Idle
  <2>. QED
    BY <1>6, <2>2 DEF EmitSubclass, TypeOK, hierarchy
<1>7. CASE BeginAttach
  BY <1>7 DEF BeginAttach, TypeOK, hierarchy, Phases
<1>8. CASE AttachClass
  BY <1>8 DEF AttachClass, TypeOK, hierarchy
<1>9. CASE BeginCategories
  BY <1>9 DEF BeginCategories, TypeOK, hierarchy, Phases
<1>10. CASE AttachCategory
  BY <1>10 DEF AttachCategory, TypeOK, hierarchy
<1>11. CASE BeginPropagate
  BY <1>11 DEF BeginPropagate, TypeOK, hierarchy, Phases
<1>12. CASE PropagateRoot
  <2>1. PICK base \in pending : work' \in Calls(base) /\ pending' = pending \ {base}
    BY <1>12 DEF PropagateRoot
  <2>2. work' \in Seq(subclassMapping)
    BY <2>1, CallsList
  <2>. QED
    BY <1>12, <2>1, <2>2 DEF PropagateRoot, TypeOK, hierarchy
<1>13. CASE FillInMethods
  <2>1. PICK calls \in Calls(Head(work)[2]) : work' = calls \o Tail(work)
    BY <1>13 DEF FillInMethods, Deeper
  <2>2. work' \in Seq(subclassMapping)
    BY <1>13, <2>1, CallsList, Replaced DEF FillInMethods, TypeOK, Idle
  <2>. QED
    BY <1>13, <2>2 DEF FillInMethods, TypeOK, hierarchy
<1>14. CASE BeginBind
  BY <1>14 DEF BeginBind, TypeOK, hierarchy, Phases
<1>15. CASE BindClass
  BY <1>15 DEF BindClass, TypeOK, hierarchy
<1>16. CASE Finish
  BY <1>16 DEF Finish, TypeOK, hierarchy, Phases
<1>17. CASE UNCHANGED vars
  BY <1>17 DEF vars, TypeOK, hierarchy
<1>. QED
  BY <1>1, <1>2, <1>3, <1>4, <1>5, <1>6, <1>7, <1>8, <1>9, <1>10, <1>11, <1>12,
     <1>13, <1>14, <1>15, <1>16, <1>17 DEF Next

(* Type correctness of every reachable state.                              *)
THEOREM TypeCorrect == Spec => []TypeOK
<1>1. Typed => TypeOK
  BY DEF Typed
<1>. QED
  BY <1>1, TypedInit, TypedNext, PTL DEF Spec

----------------------------------------------------------------------------
(***************************************************************************)
(* Methods. A definition the construction has visited keeps its selectors  *)
(* in the mapping, whichever function they have; so what a walk adds is    *)
(* never in place of a method that some definition lists.                  *)
(***************************************************************************)
Own(d) == InstanceEntries(d) \cup ClassEntries(d)

Agree(m) == \A e, f \in m : e[1] = f[1] /\ e[2] = f[2] => e = f

Has(m, f) == \E e \in m : e[1] = f[1] /\ e[2] = f[2]

Triples(m) == \A e \in m : e = <<e[1], e[2], e[3]>>

Visited(k, j) == phase # "construct" \/ k < module \/ (k = module /\ j < position)

SelectorsKept ==
  \A k \in DOMAIN ctx : \A j \in DOMAIN ctx[k] :
    Visited(k, j) => \A f \in Own(ctx[k][j]) : Has(methodMapping, f)

MethodsInvariant ==
  /\ Triples(methodMapping)
  /\ OneImplementation
  /\ SelectorsKept
  /\ phase \notin {"propagate", "bind", "done"} => methodMapping \subseteq Listed(ctx)
  /\ OwnOrInherited

LEMMA InsertFacts ==
  ASSUME NEW m, NEW new
  PROVE  /\ m \subseteq Insert(m, new) /\ Insert(m, new) \subseteq m \cup new
         /\ \A e \in new : Has(Insert(m, new), e)
         /\ Agree(m) /\ Agree(new) => Agree(Insert(m, new))
         /\ \A e \in Insert(m, new) \ m : ~Has(m, e)
BY DEF Insert, Has, Agree

LEMMA EntriesFacts ==
  ASSUME NEW d, WellFormed(d)
  PROVE  /\ Agree(InstanceEntries(d)) /\ Agree(ClassEntries(d))
         /\ Triples(Own(d))
<1>1. ASSUME NEW names, NEW methods, \A m, n \in methods : m[1] = n[1] => m[2] = n[2]
      PROVE  Agree(Entries(names, methods)) /\ Triples(Entries(names, methods))
  BY <1>1 DEF Agree, Entries, Triples
<1>2. Agree(InstanceEntries(d)) /\ Triples(InstanceEntries(d))
  BY <1>1 DEF WellFormed, InstanceEntries
<1>3. Agree(ClassEntries(d)) /\ Triples(ClassEntries(d))
  BY <1>1 DEF WellFormed, ClassEntries
<1>. QED
  BY <1>2, <1>3 DEF Own, Triples

LEMMA ListedFacts == \A d \in Definitions(ctx) : Own(d) \subseteq Listed(ctx)
BY DEF Own, Listed

(* What a definition adds, and that the rest of the mapping stays.         *)
LEMMA AddMethodsFacts ==
  ASSUME NEW d, WellFormed(d), AddMethods(d)
  PROVE  /\ methodMapping \subseteq methodMapping'
         /\ methodMapping' \subseteq methodMapping \cup Own(d)
         /\ \A f \in Own(d) : Has(methodMapping', f)
         /\ Agree(methodMapping) => Agree(methodMapping')
         /\ Triples(methodMapping) => Triples(methodMapping')
<1>. DEFINE m == Insert(methodMapping, InstanceEntries(d))
            n == Insert(m, ClassEntries(d))
<1>1. methodMapping' = n
  BY DEF AddMethods
<1>2. /\ methodMapping \subseteq m /\ m \subseteq methodMapping \cup InstanceEntries(d)
      /\ \A e \in InstanceEntries(d) : Has(m, e)
      /\ Agree(methodMapping) => Agree(m)
  BY InsertFacts, EntriesFacts
<1>3. /\ m \subseteq n /\ n \subseteq m \cup ClassEntries(d)
      /\ \A e \in ClassEntries(d) : Has(n, e)
      /\ Agree(m) => Agree(n)
  BY InsertFacts, EntriesFacts
<1>. HIDE DEF m, n
<1>4. \A e \in InstanceEntries(d) : Has(n, e)
  BY <1>2, <1>3 DEF Has
<1>5. n \subseteq methodMapping \cup Own(d)
  BY <1>2, <1>3 DEF Own
<1>6. Triples(methodMapping) => Triples(n)
  BY <1>5, EntriesFacts DEF Triples
<1>. QED
  BY <1>1, <1>2, <1>3, <1>4, <1>5, <1>6 DEF Own

(* A step of construction.                                                 *)
LEMMA AddingKeepsMethods ==
  ASSUME Typed, MethodsInvariant, phase = "construct",
         module \in DOMAIN ctx, position \in DOMAIN ctx[module],
         AddMethods(ctx[module][position]),
         UNCHANGED <<ctx, phase, module>>, position' = position + 1
  PROVE  MethodsInvariant'
<1>. DEFINE d == ctx[module][position]
<1>1. d \in Definitions(ctx) /\ WellFormed(d)
  BY CurrentDefinition DEF Typed
<1>2. /\ methodMapping \subseteq methodMapping'
      /\ methodMapping' \subseteq methodMapping \cup Own(d)
      /\ \A f \in Own(d) : Has(methodMapping', f)
      /\ Agree(methodMapping) => Agree(methodMapping')
      /\ Triples(methodMapping) => Triples(methodMapping')
  BY <1>1, AddMethodsFacts
<1>3. Triples(methodMapping') /\ OneImplementation'
  BY <1>2 DEF MethodsInvariant, OneImplementation, Agree
<1>4. methodMapping' \subseteq Listed(ctx')
  BY <1>1, <1>2, ListedFacts DEF MethodsInvariant
<1>5. SelectorsKept'
  <2>. SUFFICES ASSUME NEW k \in DOMAIN ctx, NEW j \in DOMAIN ctx[k], Visited(k, j)',
                       NEW f \in Own(ctx[k][j])
                PROVE  Has(methodMapping', f)
    BY DEF SelectorsKept, Own, InstanceEntries, ClassEntries
  <2>1. Visited(k, j) \/ (k = module /\ j = position)
    BY ContextFacts DEF Visited, Typed, TypeOK
  <2>2. CASE Visited(k, j)
    BY <1>2, <2>2 DEF MethodsInvariant, SelectorsKept, Has
  <2>3. CASE k = module /\ j = position
    BY <1>2, <2>3
  <2>. QED
    BY <2>1, <2>2, <2>3
<1>. QED
  BY <1>3, <1>4, <1>5 DEF MethodsInvariant, OwnOrInherited

(* A step of a walk that fills in the methods of a class.                  *)
LEMMA FillingKeepsMethods ==
  ASSUME Typed, MethodsInvariant, FillInMethods
  PROVE  MethodsInvariant'
<1>. DEFINE base == Head(work)[1]
            derived == Head(work)[2]
            new == FromBase(base, derived)
<1>1. /\ phase = "propagate" /\ methodMapping' = Insert(methodMapping, new)
      /\ UNCHANGED <<ctx, phase, module, position, subclassMapping>>
  BY DEF FillInMethods, Filled, hierarchy
<1>2. <<base, derived>> \in subclassMapping
  <2>1. Head(work) \in subclassMapping
    BY Replaced DEF FillInMethods, Idle, Typed, TypeOK
  <2>. QED
    BY <2>1 DEF Typed, TypeOK
<1>3. Agree(new) /\ Triples(new)
  BY DEF FromBase, MethodsInvariant, OneImplementation, Agree, Triples
<1>4. \A e \in new : e[1] = derived /\ <<base, e[2], e[3]>> \in methodMapping
  BY DEF FromBase, MethodsInvariant, Triples
<1>5. /\ methodMapping \subseteq methodMapping'
      /\ methodMapping' \subseteq methodMapping \cup new
      /\ Agree(methodMapping) => Agree(methodMapping')
      /\ \A e \in methodMapping' \ methodMapping : ~Has(methodMapping, e)
  BY <1>1, <1>3, InsertFacts
<1>. HIDE DEF base, derived, new
<1>6. Triples(methodMapping') /\ OneImplementation'
  BY <1>3, <1>5 DEF MethodsInvariant, OneImplementation, Agree, Triples
<1>7. SelectorsKept'
  <2>. SUFFICES ASSUME NEW k \in DOMAIN ctx, NEW j \in DOMAIN ctx[k], NEW f \in Own(ctx[k][j])
                PROVE  Has(methodMapping', f)
    BY <1>1 DEF SelectorsKept, Own, InstanceEntries, ClassEntries
  <2>1. Has(methodMapping, f)
    BY <1>1 DEF MethodsInvariant, SelectorsKept, Visited
  <2>. QED
    BY <1>5, <2>1 DEF Has
<1>8. \A f \in Listed(ctx) : Has(methodMapping, f)
  <2>. SUFFICES ASSUME NEW f \in Listed(ctx) PROVE Has(methodMapping, f)
    OBVIOUS
  <2>1. PICK d \in Definitions(ctx) : f \in Own(d)
    BY DEF Listed, Own
  <2>2. PICK k \in DOMAIN ctx : \E j \in DOMAIN ctx[k] : ctx[k][j] = d
    BY DEF Definitions
  <2>. QED
    BY <1>1, <2>1, <2>2 DEF MethodsInvariant, SelectorsKept, Visited
<1>9. OwnOrInherited'
  <2>. SUFFICES ASSUME NEW e \in methodMapping', e \notin Listed(ctx)
                PROVE  /\ \A f \in Listed(ctx) : f[1] = e[1] => f[2] # e[2]
                       /\ \E edge \in subclassMapping :
                            edge[2] = e[1] /\ <<edge[1], e[2], e[3]>> \in methodMapping'
    BY <1>1 DEF OwnOrInherited, Listed
  <2>1. CASE e \in methodMapping
    BY <1>1, <1>5, <2>1 DEF MethodsInvariant, OwnOrInherited
  <2>2. CASE e \notin methodMapping
    <3>1. \A f \in Listed(ctx) : f[1] = e[1] => f[2] # e[2]
      BY <1>5, <1>8, <2>2 DEF Has
    <3>2. e \in new
      BY <1>5, <2>2
    <3>. QED
      BY <1>2, <1>4, <1>5, <3>1, <3>2
  <2>. QED
    BY <2>1, <2>2
<1>. QED
  BY <1>1, <1>6, <1>7, <1>9 DEF MethodsInvariant

LEMMA MethodsInit == Init => MethodsInvariant
<1>. SUFFICES ASSUME Init PROVE MethodsInvariant
  OBVIOUS
<1>1. \A k \in DOMAIN ctx : \A j \in DOMAIN ctx[k] : ~Visited(k, j)
  BY ContextFacts DEF Init, Visited
<1>. QED
  BY <1>1 DEF Init, MethodsInvariant, Triples, OneImplementation, SelectorsKept, OwnOrInherited

(* The steps that leave the mapping alone: which definitions count as      *)
(* visited only changes when none is left in a module.                     *)
LEMMA OthersKeepMethods ==
  ASSUME MethodsInvariant, UNCHANGED <<ctx, methodMapping, subclassMapping>>,
         \A k \in DOMAIN ctx : \A j \in DOMAIN ctx[k] : Visited(k, j)' => Visited(k, j),
         \/ phase' \notin {"propagate", "bind", "done"}
         \/ phase \in {"propagate", "bind", "done"}
         \/ phase' = "propagate",
         phase' \notin {"propagate", "bind", "done"} => phase \notin {"propagate", "bind", "done"}
  PROVE  MethodsInvariant'
<1>1. Triples(methodMapping') /\ OneImplementation'
  BY DEF MethodsInvariant, OneImplementation
<1>2. SelectorsKept'
  BY DEF MethodsInvariant, SelectorsKept, Own, InstanceEntries, ClassEntries
<1>3. Listed(ctx') = Listed(ctx)
  OBVIOUS
<1>4. OwnOrInherited'
  BY <1>3 DEF MethodsInvariant, OwnOrInherited
<1>. QED
  BY <1>1, <1>2, <1>3, <1>4 DEF MethodsInvariant

LEMMA MethodsNext == Typed /\ MethodsInvariant /\ [Next]_vars => MethodsInvariant'
<1>. SUFFICES ASSUME Typed, MethodsInvariant, [Next]_vars PROVE MethodsInvariant'
  OBVIOUS
<1>1. CASE AddClass
  BY <1>1, AddingKeepsMethods DEF AddClass
<1>2. CASE AddCategory
  BY <1>2, AddingKeepsMethods DEF AddCategory
<1>3. CASE NextModule
  <2>1. \A k \in DOMAIN ctx : \A j \in DOMAIN ctx[k] : Visited(k, j)' => Visited(k, j)
    BY <1>3, ContextFacts DEF NextModule, Visited, Typed, TypeOK
  <2>. QED
    BY <1>3, <2>1, OthersKeepMethods DEF NextModule, hierarchy
<1>4. CASE BeginTypes
  <2>1. \A k \in DOMAIN ctx : \A j \in DOMAIN ctx[k] : Visited(k, j)
    BY <1>4, ContextFacts DEF BeginTypes, Visited, Typed, TypeOK
  <2>. QED
    BY <1>4, <2>1, OthersKeepMethods DEF BeginTypes, hierarchy
<1>5. CASE FillInMethods
  BY <1>5, FillingKeepsMethods
<1>6. ASSUME phase # "construct", UNCHANGED <<ctx, methodMapping, subclassMapping>>,
             \/ phase' = phase
             \/ phase = "types" /\ phase' = "attach"
             \/ phase = "attach" /\ phase' = "categories"
             \/ phase = "categories" /\ phase' = "propagate"
             \/ phase = "propagate" /\ phase' = "bind"
             \/ phase = "bind" /\ phase' = "done"
      PROVE  MethodsInvariant'
  <2>1. \A k, j : Visited(k, j)
    BY <1>6 DEF Visited
  <2>. QED
    BY <1>6, <2>1, OthersKeepMethods
<1>7. CASE EmitRoot
  BY <1>6, <1>7 DEF EmitRoot, hierarchy
<1>8. CASE EmitSubclass
  BY <1>6, <1>8 DEF EmitSubclass, hierarchy
<1>9. CASE BeginAttach
  BY <1>6, <1>9 DEF BeginAttach, hierarchy
<1>10. CASE AttachClass
  BY <1>6, <1>10 DEF AttachClass, hierarchy
<1>11. CASE BeginCategories
  BY <1>6, <1>11 DEF BeginCategories, hierarchy
<1>12. CASE AttachCategory
  BY <1>6, <1>12 DEF AttachCategory, hierarchy
<1>13. CASE BeginPropagate
  BY <1>6, <1>13 DEF BeginPropagate, hierarchy
<1>14. CASE PropagateRoot
  BY <1>6, <1>14 DEF PropagateRoot, hierarchy
<1>15. CASE BeginBind
  BY <1>6, <1>15 DEF BeginBind, hierarchy
<1>16. CASE BindClass
  BY <1>6, <1>16 DEF BindClass, hierarchy
<1>17. CASE Finish
  BY <1>6, <1>17 DEF Finish, hierarchy
<1>18. CASE UNCHANGED vars
  <2>1. UNCHANGED <<ctx, phase, module, position, methodMapping, subclassMapping>>
    BY <1>18 DEF vars, hierarchy
  <2>2. \A k, j : Visited(k, j)' => Visited(k, j)
    BY <2>1 DEF Visited
  <2>. QED
    BY <2>1, <2>2, OthersKeepMethods
<1>. QED
  BY <1>1, <1>2, <1>3, <1>4, <1>5, <1>7, <1>8, <1>9, <1>10, <1>11, <1>12, <1>13,
     <1>14, <1>15, <1>16, <1>17, <1>18 DEF Next

(* A name never has two implementations of one selector, and what it       *)
(* responds to is its own, or its superclass's for a selector it has no    *)
(* method of its own for, whatever the order of the walks.                 *)
THEOREM OverridesSurvive == Spec => []MethodMappingIsSound
<1>1. MethodsInvariant => MethodMappingIsSound
  BY DEF MethodsInvariant, MethodMappingIsSound
<1>. QED
  BY <1>1, TypedInit, TypedNext, MethodsInit, MethodsNext, PTL DEF Spec

(* No step takes a method back.                                            *)
THEOREM MethodsOnlyAdded == Spec => OnlyAddsMethods
<1>1. Typed /\ [Next]_vars => [methodMapping \subseteq methodMapping']_vars
  <2>. SUFFICES ASSUME Typed, Next PROVE methodMapping \subseteq methodMapping'
    OBVIOUS
  <2>1. CASE AddClass \/ AddCategory
    BY <2>1, InsertFacts DEF AddClass, AddCategory, AddMethods
  <2>2. CASE FillInMethods
    BY <2>2, InsertFacts DEF FillInMethods, Filled
  <2>. QED
    BY <2>1, <2>2 DEF Next, NextModule, BeginTypes, EmitRoot, EmitSubclass, BeginAttach,
         AttachClass, BeginCategories, AttachCategory, BeginPropagate, PropagateRoot,
         BeginBind, BindClass, Finish
<1>. QED
  BY <1>1, TypedInit, TypedNext, PTL DEF Spec, OnlyAddsMethods

----------------------------------------------------------------------------
(***************************************************************************)
(* Declarations. The walks start at the roots of every module, so a class  *)
(* is missed only if its superclass is; and superclasses end.              *)
(***************************************************************************)
Named(d) == IF d.kind = "class" THEN {d.name} \cup ({d.super} \ {None}) ELSE {d.of}

Both(n) == {n, Meta(n)}

(* What the construction keeps of definition d of module k.                *)
Recorded(k, d) ==
  /\ Named(d) \subseteq objcClasses
  /\ d.kind = "class" =>
       /\ d.name \in definedClasses
       /\ SubclassEdges(d) \subseteq subclassMapping
       /\ \A n \in Named(d) : <<n, Meta(n)>> \in metaclassMapping
       /\ d.super = None => Both(d.name) \subseteq rootClasses
       /\ d.super # None /\ IsExternalIn(k, d.super) => Both(d.super) \subseteq rootClasses
  /\ d.kind = "category" => d.name \in objcCategories
  /\ d.kind = "category" /\ IsExternalIn(k, d.of) =>
       /\ Both(d.of) \subseteq rootClasses
       /\ <<d.of, Meta(d.of)>> \in metaclassMapping

RecordsInvariant ==
  /\ \A k \in DOMAIN ctx : \A j \in DOMAIN ctx[k] : Visited(k, j) => Recorded(k, ctx[k][j])
  /\ \A n \in objcClasses : \E k \in DOMAIN ctx : \E j \in DOMAIN ctx[k] : n \in Named(ctx[k][j])
  /\ \A n \in objcCategories : n[2] \notin {"", "$"}
  /\ \A e \in subclassMapping : \E d \in Subclasses(ctx) : e \in SubclassEdges(d)

LEMMA RecordsInit == Init => RecordsInvariant
<1>. SUFFICES ASSUME Init PROVE RecordsInvariant
  OBVIOUS
<1>1. \A k \in DOMAIN ctx : \A j \in DOMAIN ctx[k] : ~Visited(k, j)
  BY ContextFacts DEF Init, Visited
<1>. QED
  BY <1>1 DEF Init, RecordsInvariant

(* A step that visits the current definition.                              *)
LEMMA VisitingKeepsRecords ==
  ASSUME Typed, RecordsInvariant, AddClass \/ AddCategory
  PROVE  RecordsInvariant'
<1>. DEFINE d == ctx[module][position]
<1>1. d \in Definitions(ctx) /\ WellFormed(d) /\ module \in DOMAIN ctx /\ position \in DOMAIN ctx[module]
  BY CurrentDefinition DEF Typed, AddClass, AddCategory
<1>2. /\ UNCHANGED <<ctx, phase, module>> /\ position' = position + 1 /\ phase = "construct"
      /\ objcClasses' = objcClasses \cup Named(d)
      /\ rootClasses \subseteq rootClasses' /\ metaclassMapping \subseteq metaclassMapping'
      /\ subclassMapping \subseteq subclassMapping'
      /\ definedClasses \subseteq definedClasses' /\ objcCategories \subseteq objcCategories'
  BY DEF AddClass, AddCategory, Named
<1>x. \A k, n : IsExternalIn(k, n)' <=> IsExternalIn(k, n)
  BY <1>2 DEF IsExternalIn
<1>3. ASSUME NEW k, NEW x, k = module, x = d
      PROVE  Recorded(k, x)'
  <2>1. CASE AddClass
    BY <1>3, <1>x, <2>1 DEF AddClass, Recorded, Named, Both, RootsOf, SubclassEdges
  <2>2. CASE AddCategory
    BY <1>3, <1>x, <2>2 DEF AddCategory, Recorded, Named, Both
  <2>. QED
    BY <2>1, <2>2
<1>4. ASSUME NEW k \in DOMAIN ctx, NEW j \in DOMAIN ctx[k], Visited(k, j)'
      PROVE  Recorded(k, ctx[k][j])'
  <2>1. Visited(k, j) \/ (k = module /\ j = position)
    BY <1>2, <1>4, ContextFacts DEF Visited, Typed, TypeOK
  <2>2. CASE k = module /\ j = position
    <3>1. \A x : x = d => Recorded(k, x)'
      BY <1>3, <2>2
    <3>2. ctx'[k][j] = d
      BY <1>2, <2>2
    <3>. HIDE DEF d
    <3>. QED
      BY <3>1, <3>2 DEF Recorded, Named, Both, SubclassEdges
  <2>3. CASE Visited(k, j)
    <3>1. Recorded(k, ctx[k][j])
      BY <2>3 DEF RecordsInvariant
    <3>. QED
      BY <1>2, <1>x, <3>1 DEF Recorded, Named, Both, SubclassEdges
  <2>. QED
    BY <2>1, <2>2, <2>3
<1>5. \A n \in objcClasses' : \E k \in DOMAIN ctx : \E j \in DOMAIN ctx[k] : n \in Named(ctx[k][j])
  BY <1>1, <1>2 DEF RecordsInvariant
<1>6. \A n \in objcCategories' : n[2] \notin {"", "$"}
  BY <1>1 DEF AddClass, AddCategory, RecordsInvariant, WellFormed
<1>7. \A e \in subclassMapping' : \E x \in Subclasses(ctx) : e \in SubclassEdges(x)
  <2>1. CASE AddClass
    <3>1. subclassMapping' = subclassMapping \cup SubclassEdges(d) /\ d.kind = "class"
      BY <2>1 DEF AddClass
    <3>2. SubclassEdges(d) = {} \/ d \in Subclasses(ctx)
      BY <1>1, <3>1 DEF SubclassEdges, Subclasses, ClassesOf
    <3>. QED
      BY <3>1, <3>2 DEF RecordsInvariant
  <2>2. CASE AddCategory
    BY <2>2 DEF AddCategory, RecordsInvariant
  <2>. QED
    BY <2>1, <2>2
<1>8. ctx' = ctx
  BY <1>2
<1>. QED
  <2>1. \A k \in DOMAIN ctx' : \A j \in DOMAIN ctx'[k] : Visited(k, j)' => Recorded(k, ctx[k][j])'
    BY <1>4, <1>8 DEF Recorded, Named, SubclassEdges
  <2>. QED
    <3>1. (\A n \in objcClasses : \E k \in DOMAIN ctx : \E j \in DOMAIN ctx[k] : n \in Named(ctx[k][j]))'
      BY <1>5, <1>8 DEF Named
    <3>2. (\A e \in subclassMapping : \E x \in Subclasses(ctx) : e \in SubclassEdges(x))'
      BY <1>7, <1>8 DEF SubclassEdges
    <3>. QED
      BY <1>6, <2>1, <3>1, <3>2 DEF RecordsInvariant

LEMMA OthersKeepRecords ==
  ASSUME RecordsInvariant, UNCHANGED <<ctx, hierarchy>>,
         \A k \in DOMAIN ctx : \A j \in DOMAIN ctx[k] : Visited(k, j)' => Visited(k, j)
  PROVE  RecordsInvariant'
<1>. USE DEF hierarchy
<1>1. ASSUME NEW k \in DOMAIN ctx', NEW j \in DOMAIN ctx'[k], Visited(k, j)'
      PROVE  Recorded(k, ctx[k][j])'
  <2>1. Recorded(k, ctx[k][j])
    BY <1>1 DEF RecordsInvariant
  <2>. QED
    BY <2>1 DEF Recorded, Named, Both, IsExternalIn, SubclassEdges
<1>2. (\A n \in objcClasses : \E k \in DOMAIN ctx : \E j \in DOMAIN ctx[k] : n \in Named(ctx[k][j]))'
  <2>1. ctx' = ctx /\ objcClasses' = objcClasses
    OBVIOUS
  <2>2. \A n \in objcClasses : \E k \in DOMAIN ctx : \E j \in DOMAIN ctx[k] : n \in Named(ctx[k][j])
    BY DEF RecordsInvariant
  <2>. QED
    BY <2>1, <2>2 DEF Named
<1>3. (\A e \in subclassMapping : \E x \in Subclasses(ctx) : e \in SubclassEdges(x))'
  BY DEF RecordsInvariant, SubclassEdges
<1>4. (\A n \in objcCategories : n[2] \notin {"", "$"})'
  BY DEF RecordsInvariant
<1>. QED
  BY <1>1, <1>2, <1>3, <1>4 DEF RecordsInvariant

LEMMA RecordsNext == Typed /\ RecordsInvariant /\ [Next]_vars => RecordsInvariant'
<1>. SUFFICES ASSUME Typed, RecordsInvariant, [Next]_vars PROVE RecordsInvariant'
  OBVIOUS
<1>1. CASE AddClass \/ AddCategory
  BY <1>1, VisitingKeepsRecords
<1>2. CASE NextModule
  <2>1. \A k \in DOMAIN ctx : \A j \in DOMAIN ctx[k] : Visited(k, j)' => Visited(k, j)
    BY <1>2, ContextFacts DEF NextModule, Visited, Typed, TypeOK
  <2>. QED
    BY <1>2, <2>1, OthersKeepRecords DEF NextModule
<1>3. CASE BeginTypes
  <2>1. \A k \in DOMAIN ctx : \A j \in DOMAIN ctx[k] : Visited(k, j)
    BY <1>3, ContextFacts DEF BeginTypes, Visited, Typed, TypeOK
  <2>. QED
    BY <1>3, <2>1, OthersKeepRecords DEF BeginTypes
<1>4. ASSUME phase # "construct", UNCHANGED <<ctx, hierarchy>>
      PROVE  RecordsInvariant'
  <2>1. \A k, j : Visited(k, j)
    BY <1>4 DEF Visited
  <2>. QED
    BY <1>4, <2>1, OthersKeepRecords
<1>5. CASE EmitRoot \/ EmitSubclass
  BY <1>4, <1>5 DEF EmitRoot, EmitSubclass
<1>6. CASE BeginAttach \/ AttachClass \/ BeginCategories \/ AttachCategory
  BY <1>4, <1>6 DEF BeginAttach, AttachClass, BeginCategories, AttachCategory
<1>7. CASE BeginPropagate \/ PropagateRoot \/ FillInMethods
  BY <1>4, <1>7 DEF BeginPropagate, PropagateRoot, FillInMethods
<1>8. CASE BeginBind \/ BindClass \/ Finish
  BY <1>4, <1>8 DEF BeginBind, BindClass, Finish
<1>9. CASE UNCHANGED vars
  <2>1. UNCHANGED <<ctx, hierarchy, phase, module, position>>
    BY <1>9 DEF vars
  <2>2. \A k, j : Visited(k, j)' => Visited(k, j)
    BY <2>1 DEF Visited
  <2>. QED
    BY <2>1, <2>2, OthersKeepRecords
<1>. QED
  BY <1>1, <1>2, <1>3, <1>5, <1>6, <1>7, <1>8, <1>9 DEF Next

(* What the walk of emitObjCTypes has done and still has to do.            *)
Reached == namedTypeDecls \ objcCategories

DeclaredInvariant ==
  /\ \A i \in inherits : \E e \in subclassMapping : i = <<e[2], e[1]>>
  /\ phase = "types" =>
       /\ rootClasses \subseteq pending \cup namedTypeDecls
       /\ \A e \in subclassMapping : e[1] \in Reached =>
            In(e, work) \/ (e[2] \in namedTypeDecls /\ <<e[2], e[1]>> \in inherits)
  /\ phase \notin {"construct", "types"} =>
       /\ \A class \in objcClasses : CanBind(class)
       /\ \A e \in subclassMapping : <<e[2], e[1]>> \in inherits

(* The suffix of a class's name is empty.                                  *)
LEMMA ClassNameEnds ==
  ASSUME NEW n, IsClassName(n)
  PROVE  n[2] = ""
<1>1. \A x, y : <<x, y>>[2] = y
  OBVIOUS
<1>2. n = <<n[1], "">>
  BY DEF IsClassName
<1>. QED
  BY <1>1, <1>2, Zenon

(* Every class the modules name is a root, or one of them defines it.      *)
LEMMA RootOrDefined ==
  ASSUME Typed, RecordsInvariant, phase # "construct", NEW n \in objcClasses
  PROVE  /\ n[2] = "" /\ <<n, Meta(n)>> \in metaclassMapping
         /\ \/ Both(n) \subseteq rootClasses
            \/ \E d \in ClassesOf(ctx) : d.name = n
<1>1. \A k \in DOMAIN ctx : \A j \in DOMAIN ctx[k] :
        /\ Recorded(k, ctx[k][j]) /\ WellFormed(ctx[k][j])
        /\ ctx[k][j].kind = "class" => ctx[k][j] \in ClassesOf(ctx)
  BY ContextFacts DEF RecordsInvariant, Visited, Typed, ClassesOf
<1>2. PICK k \in DOMAIN ctx : \E j \in DOMAIN ctx[k] : n \in Named(ctx[k][j])
  BY DEF RecordsInvariant
<1>3. PICK j \in DOMAIN ctx[k] : n \in Named(ctx[k][j])
  BY <1>2
<1>4. n[2] = ""
  <2>. DEFINE d == ctx[k][j]
  <2>1. WellFormed(d) /\ n \in Named(d)
    BY <1>1, <1>3
  <2>. HIDE DEF d
  <2>2. CASE d.kind = "class"
    <3>1. d.name[2] = "" /\ (d.super # None => d.super[2] = "")
      BY ClassNameEnds, <2>1, <2>2 DEF WellFormed
    <3>. QED
      BY <2>1, <2>2, <3>1 DEF Named
  <2>3. CASE d.kind # "class"
    <3>1. d.of[2] = ""
      BY ClassNameEnds, <2>1, <2>3 DEF WellFormed
    <3>. QED
      BY <2>1, <2>3, <3>1 DEF Named
  <2>. QED
    BY <2>2, <2>3
<1>5. CASE ~IsExternalIn(k, n)
  <2>1. PICK i \in DOMAIN ctx[k] : ctx[k][i].kind = "class" /\ ctx[k][i].name = n
    BY <1>5 DEF IsExternalIn
  <2>2. ctx[k][i] \in ClassesOf(ctx) /\ <<n, Meta(n)>> \in metaclassMapping
    BY <1>1, <2>1 DEF Recorded, Named
  <2>. QED
    BY <1>4, <2>1, <2>2
<1>6. CASE IsExternalIn(k, n)
  <2>1. Recorded(k, ctx[k][j]) /\ WellFormed(ctx[k][j])
    BY <1>1
  <2>2. CASE ctx[k][j].kind = "class"
    <3>1. ctx[k][j].name # n
      BY <1>6, <2>2 DEF IsExternalIn
    <3>2. n = ctx[k][j].super /\ ctx[k][j].super # None
      BY <1>3, <2>2, <3>1 DEF Named
    <3>. QED
      BY <1>3, <1>4, <1>6, <2>1, <2>2, <3>2 DEF Recorded
  <2>3. CASE ctx[k][j].kind # "class"
    <3>1. n = ctx[k][j].of /\ ctx[k][j].kind = "category"
      BY <1>3, <2>1, <2>3 DEF Named, WellFormed
    <3>. QED
      BY <1>4, <1>6, <2>1, <3>1 DEF Recorded
  <2>. QED
    BY <2>2, <2>3
<1>. QED
  BY <1>5, <1>6

(* What contains the roots and the subclasses of its classes has them all. *)
LEMMA RootsReachAll ==
  ASSUME Typed, RecordsInvariant, phase # "construct",
         NEW V, rootClasses \subseteq V, \A e \in subclassMapping : e[1] \in V => e[2] \in V
  PROVE  /\ \A n \in objcClasses : Both(n) \subseteq V
         /\ \A e \in subclassMapping : e[1] \in V
<1>1. \A d \in ClassesOf(ctx) :
        /\ d.name \in objcClasses /\ SubclassEdges(d) \subseteq subclassMapping
        /\ d.super = None => Both(d.name) \subseteq rootClasses
        /\ d.super # None => d.super \in objcClasses
  <2>. SUFFICES ASSUME NEW d \in ClassesOf(ctx)
                PROVE  /\ d.name \in objcClasses /\ SubclassEdges(d) \subseteq subclassMapping
                       /\ d.super = None => Both(d.name) \subseteq rootClasses
                       /\ d.super # None => d.super \in objcClasses
    OBVIOUS
  <2>1. PICK k \in DOMAIN ctx : \E j \in DOMAIN ctx[k] : ctx[k][j] = d
    BY DEF ClassesOf, Definitions
  <2>2. Recorded(k, d) /\ d.kind = "class"
    BY <2>1 DEF RecordsInvariant, Visited, ClassesOf
  <2>. QED
    BY <2>2 DEF Recorded, Named
<1>. DEFINE Missed == {n \in {d.name : d \in ClassesOf(ctx)} : ~(Both(n) \subseteq V)}
<1>2. Missed = {}
  <2>. SUFFICES ASSUME Missed # {} PROVE FALSE
    OBVIOUS
  <2>1. SuperclassesEnd(ctx)
    BY ContextsAssumption DEF Typed
  <2>2. Missed \in SUBSET {d.name : d \in ClassesOf(ctx)}
    OBVIOUS
  <2>3. PICK n \in Missed : \A d \in ClassesOf(ctx) : d.name = n => d.super \notin Missed \/ d.super = None
    <3>. HIDE DEF Missed
    <3>. QED
      BY <2>1, <2>2 DEF SuperclassesEnd
  <2>4. PICK d \in ClassesOf(ctx) : d.name = n
    OBVIOUS
  <2>5. d.super # None
    BY <1>1, <2>4
  <2>. DEFINE s == d.super
  <2>6. s \in objcClasses /\ s \notin Missed
    BY <1>1, <2>3, <2>4, <2>5
  <2>7. Both(s) \subseteq V
    <3>1. CASE Both(s) \subseteq rootClasses
      BY <3>1
    <3>2. CASE \E x \in ClassesOf(ctx) : x.name = s
      BY <2>6, <3>2
    <3>. QED
      BY <2>6, <3>1, <3>2, RootOrDefined
  <2>8. <<s, n>> \in subclassMapping /\ <<Meta(s), Meta(n)>> \in subclassMapping
    BY <1>1, <2>4, <2>5 DEF SubclassEdges
  <2>9. n \in V /\ Meta(n) \in V
    BY <2>7, <2>8 DEF Both
  <2>. QED
    BY <2>9 DEF Both
<1>3. \A n \in objcClasses : Both(n) \subseteq V
  BY <1>2, RootOrDefined
<1>4. ASSUME NEW e \in subclassMapping PROVE e[1] \in V
  <2>1. PICK d \in Subclasses(ctx) : e \in SubclassEdges(d)
    BY DEF RecordsInvariant
  <2>2. d \in ClassesOf(ctx) /\ d.super # None
    BY <2>1 DEF Subclasses
  <2>3. e[1] \in Both(d.super)
    BY <2>1, <2>2 DEF SubclassEdges, Both
  <2>. QED
    BY <1>1, <1>3, <2>2, <2>3
<1>. QED
  BY <1>3, <1>4

(* When the walk is over, it has been everywhere.                          *)
LEMMA WalkReachesAll ==
  ASSUME Typed, RecordsInvariant, DeclaredInvariant,
         phase = "types", work = <<>>, pending = {}
  PROVE  /\ \A class \in objcClasses : CanBind(class)
         /\ \A e \in subclassMapping : <<e[2], e[1]>> \in inherits
<1>1. rootClasses \subseteq namedTypeDecls
  BY DEF DeclaredInvariant
<1>2. \A e \in subclassMapping : e[1] \in Reached =>
        e[2] \in namedTypeDecls /\ <<e[2], e[1]>> \in inherits
  BY DEF DeclaredInvariant, In
<1>3. \A n : IsClassName(n) => Both(n) \cap objcCategories = {}
  <2>1. \A n : IsClassName(n) => n[2] = "" /\ Meta(n)[2] = "$"
    BY ClassNameEnds DEF Meta
  <2>. QED
    BY <2>1 DEF RecordsInvariant, Both
<1>4. \A e \in subclassMapping : e[1] \notin objcCategories
  <2>. SUFFICES ASSUME NEW e \in subclassMapping PROVE e[1] \notin objcCategories
    OBVIOUS
  <2>1. PICK d \in Subclasses(ctx) : e \in SubclassEdges(d)
    BY DEF RecordsInvariant
  <2>2. IsClassName(d.super) /\ d.super # None
    BY <2>1, ContextFacts DEF Subclasses, ClassesOf, WellFormed, Typed
  <2>3. e[1] \in Both(d.super)
    BY <2>1, <2>2 DEF SubclassEdges, Both
  <2>. QED
    BY <1>3, <2>2, <2>3
<1>5. /\ \A n \in objcClasses : Both(n) \subseteq namedTypeDecls
      /\ \A e \in subclassMapping : e[1] \in namedTypeDecls
  BY <1>1, <1>2, <1>4, RootsReachAll DEF Reached
<1>6. \A class \in objcClasses : CanBind(class)
  BY <1>5, RootOrDefined DEF CanBind, Both
<1>. QED
  BY <1>2, <1>4, <1>5, <1>6 DEF Reached

LEMMA DeclaredInit == Init => DeclaredInvariant
BY DEF Init, DeclaredInvariant

LEMMA DeclaredNext ==
  Typed /\ RecordsInvariant /\ DeclaredInvariant /\ [Next]_vars => DeclaredInvariant'
<1>. SUFFICES ASSUME Typed, RecordsInvariant, DeclaredInvariant, [Next]_vars
              PROVE  DeclaredInvariant'
  OBVIOUS
<1>. USE DEF hierarchy
<1>1. CASE AddClass \/ AddCategory \/ NextModule
  BY <1>1 DEF AddClass, AddCategory, NextModule, DeclaredInvariant, output
<1>2. CASE BeginTypes
  BY <1>2 DEF BeginTypes, DeclaredInvariant, Reached
<1>3. CASE EmitRoot
  <2>1. PICK base \in pending : /\ pending' = pending \ {base} /\ work' \in Calls(base)
                                /\ namedTypeDecls' = namedTypeDecls \cup {base}
    BY <1>3 DEF EmitRoot
  <2>2. \A e \in subclassMapping : e[1] = base => In(e, work')
    BY <2>1, CallsList DEF Typed
  <2>3. \A e : ~In(e, work)
    BY <1>3 DEF EmitRoot, Idle, In
  <2>. QED
    BY <1>3, <2>1, <2>2, <2>3 DEF EmitRoot, DeclaredInvariant, Reached
<1>4. CASE EmitSubclass
  <2>. DEFINE base == Head(work)[1]
              subclass == Head(work)[2]
  <2>1. /\ phase = "types" /\ work # <<>> /\ namedTypeDecls' = namedTypeDecls \cup {subclass}
        /\ inherits' = inherits \cup {<<subclass, base>>}
        /\ UNCHANGED <<phase, rootClasses, objcCategories, subclassMapping, pending>>
    BY <1>4 DEF EmitSubclass, Idle
  <2>2. PICK calls \in Calls(subclass) : work' = calls \o Tail(work)
    BY <1>4 DEF EmitSubclass
  <2>3. /\ calls \in Seq(subclassMapping)
        /\ \A e \in subclassMapping : e[1] = subclass => In(e, calls)
    BY <2>2, CallsList DEF Typed
  <2>4. /\ Head(work) \in subclassMapping
        /\ \A e : In(e, work) => e = Head(work) \/ In(e, work')
        /\ \A e : In(e, calls) => In(e, work')
    BY <2>1, <2>2, <2>3, Replaced DEF Typed, TypeOK
  <2>5. ASSUME NEW e \in subclassMapping, e[1] \in Reached'
        PROVE  In(e, work') \/ (e[2] \in namedTypeDecls' /\ <<e[2], e[1]>> \in inherits')
    <3>1. CASE e[1] = subclass
      BY <2>3, <2>4, <3>1
    <3>2. CASE e[1] \in Reached
      BY <2>1, <2>4, <3>2 DEF DeclaredInvariant
    <3>. QED
      BY <2>1, <2>5, <3>1, <3>2 DEF Reached
  <2>6. \A i \in inherits' : \E e \in subclassMapping : i = <<e[2], e[1]>>
    BY <2>1, <2>4 DEF DeclaredInvariant
  <2>. QED
    BY <2>1, <2>5, <2>6 DEF DeclaredInvariant
<1>5. CASE BeginAttach
  <2>1. /\ \A class \in objcClasses : CanBind(class)
        /\ \A e \in subclassMapping : <<e[2], e[1]>> \in inherits
    BY <1>5, WalkReachesAll DEF BeginAttach, Idle
  <2>. QED
    BY <1>5, <2>1 DEF BeginAttach, DeclaredInvariant, CanBind, output
<1>6. ASSUME phase \notin {"construct", "types"}, phase' \notin {"construct", "types"},
             UNCHANGED <<objcClasses, subclassMapping, metaclassMapping, namedTypeDecls, inherits>>
      PROVE  DeclaredInvariant'
  BY <1>6 DEF DeclaredInvariant, CanBind
<1>7. CASE AttachClass \/ BeginCategories \/ AttachCategory
  BY <1>6, <1>7 DEF AttachClass, BeginCategories, AttachCategory, output
<1>8. CASE BeginPropagate \/ PropagateRoot \/ FillInMethods
  BY <1>6, <1>8 DEF BeginPropagate, PropagateRoot, FillInMethods, output
<1>9. CASE BeginBind \/ BindClass \/ Finish
  BY <1>6, <1>9 DEF BeginBind, BindClass, Finish, output
<1>10. CASE UNCHANGED vars
  BY <1>10 DEF vars, output, DeclaredInvariant, Reached, CanBind
<1>. QED
  BY <1>1, <1>2, <1>3, <1>4, <1>5, <1>7, <1>8, <1>9, <1>10 DEF Next

(* Every lookup the bindings make succeeds: the class and its metaclass    *)
(* have been declared, wherever they and their superclasses are defined.   *)
THEOREM EveryClassIsDeclared == Spec => []ClassesAreDeclared
<1>1. DeclaredInvariant => ClassesAreDeclared
  BY DEF DeclaredInvariant, ClassesAreDeclared
<1>. QED
  BY <1>1, TypedInit, TypedNext, RecordsInit, RecordsNext, DeclaredInit, DeclaredNext, PTL DEF Spec

(* A type declaration inherits from its superclass and from nothing else.  *)
THEOREM InheritanceIsComplete == Spec => []InheritanceIsRecorded
<1>1. Typed /\ RecordsInvariant /\ DeclaredInvariant => InheritanceIsRecorded
  <2>. SUFFICES ASSUME Typed, RecordsInvariant, DeclaredInvariant, phase \in {"attach", "done"}
                PROVE  inherits = {<<d.name, d.super>> : d \in Subclasses(ctx)}
                         \cup {<<Meta(d.name), Meta(d.super)>> : d \in Subclasses(ctx)}
    BY DEF InheritanceIsRecorded
  <2>1. \A d \in Subclasses(ctx) : SubclassEdges(d) \subseteq subclassMapping /\ d.super # None
    <3>. SUFFICES ASSUME NEW d \in Subclasses(ctx)
                  PROVE  SubclassEdges(d) \subseteq subclassMapping /\ d.super # None
      OBVIOUS
    <3>1. PICK k \in DOMAIN ctx : \E j \in DOMAIN ctx[k] : ctx[k][j] = d
      BY DEF Subclasses, ClassesOf, Definitions
    <3>2. Recorded(k, d) /\ d.kind = "class" /\ d.super # None
      BY <3>1 DEF RecordsInvariant, Visited, Subclasses, ClassesOf
    <3>. QED
      BY <3>2 DEF Recorded
  <2>2. \A d \in Subclasses(ctx) :
          <<d.name, d.super>> \in inherits /\ <<Meta(d.name), Meta(d.super)>> \in inherits
    <3>. SUFFICES ASSUME NEW d \in Subclasses(ctx)
                  PROVE  <<d.name, d.super>> \in inherits /\ <<Meta(d.name), Meta(d.super)>> \in inherits
      OBVIOUS
    <3>1. <<d.super, d.name>> \in subclassMapping /\ <<Meta(d.super), Meta(d.name)>> \in subclassMapping
      BY <2>1 DEF SubclassEdges
    <3>. QED
      BY <3>1 DEF DeclaredInvariant
  <2>3. ASSUME NEW i \in inherits
        PROVE  \E d \in Subclasses(ctx) : i = <<d.name, d.super>> \/ i = <<Meta(d.name), Meta(d.super)>>
    <3>1. PICK e \in subclassMapping : i = <<e[2], e[1]>>
      BY DEF DeclaredInvariant
    <3>2. PICK d \in Subclasses(ctx) : e \in SubclassEdges(d)
      BY DEF RecordsInvariant
    <3>3. e = <<d.super, d.name>> \/ e = <<Meta(d.super), Meta(d.name)>>
      BY <2>1, <3>2 DEF SubclassEdges
    <3>. QED
      BY <3>1, <3>3
  <2>. QED
    BY <2>2, <2>3
<1>. QED
  BY <1>1, TypedInit, TypedNext, RecordsInit, RecordsNext, DeclaredInit, DeclaredNext, PTL DEF Spec

----------------------------------------------------------------------------
(***************************************************************************)
(* Parents. A function is a method of one definition, and the mapping that *)
(* the methods are attached from lists a function only for its definition's*)
(* names; so no other class or category takes an attached method away.     *)
(***************************************************************************)
Attached(d) ==
  \/ phase \in {"propagate", "bind", "done"}
  \/ d.kind = "class" /\ phase = "categories"
  \/ d.kind = "class" /\ phase = "attach" /\ d.name \notin pending
  \/ d.kind = "category" /\ phase = "categories" /\ d.name \notin pending

MethodsAttached ==
  \A d \in Definitions(ctx) : \A m \in MethodsOf(d) :
    Attached(d) /\ ~Shared(m[2]) => <<m[2], d.name>> \in astParent

ParentsInvariant ==
  /\ phase = "attach" => pending \subseteq objcClasses
  /\ phase = "categories" => pending \subseteq objcCategories
  /\ MethodsAttached

(* The names a definition's methods are listed under.                      *)
ListedUnder(d) == Both(Target(d)) \cup InCategory(d)

LEMMA OwnFacts ==
  ASSUME NEW d
  PROVE  /\ \A e \in Own(d) : e[1] \in ListedUnder(d) /\ \E m \in MethodsOf(d) : e[3] = m[2]
         /\ \A m \in MethodsOf(d) : \E n \in Both(Target(d)) : <<n, m[1], m[2]>> \in Own(d)
         /\ d.kind # "class" => \A m \in MethodsOf(d) : <<d.name, m[1], m[2]>> \in Own(d)
<1>. DEFINE own == Target(d)
            names(n) == {n} \cup InCategory(d)
<1>1. \A n, methods : \A e \in Entries(names(n), methods) :
        e[1] \in names(n) /\ \E m \in methods : e[3] = m[2]
  BY DEF Entries
<1>2. \A n, methods : \A m \in methods : \A x \in names(n) :
        <<x, m[1], m[2]>> \in Entries(names(n), methods)
  BY DEF Entries
<1>3. /\ InstanceEntries(d) = Entries(names(own), d.inst)
      /\ ClassEntries(d) = Entries(names(Meta(own)), d.cls)
  BY DEF InstanceEntries, ClassEntries
<1>4. names(own) \subseteq ListedUnder(d) /\ names(Meta(own)) \subseteq ListedUnder(d)
  BY DEF ListedUnder, Both
<1>5. own \in names(own) /\ Meta(own) \in names(Meta(own)) /\ {own, Meta(own)} = Both(Target(d))
  BY DEF Both
<1>6. d.kind # "class" => d.name \in names(own) /\ d.name \in names(Meta(own))
  BY DEF InCategory
<1>. HIDE DEF names, own
<1>7. \A e \in Own(d) : e[1] \in ListedUnder(d) /\ \E m \in MethodsOf(d) : e[3] = m[2]
  BY <1>1, <1>3, <1>4 DEF Own, MethodsOf
<1>8. \A m \in MethodsOf(d) : \E n \in Both(Target(d)) : <<n, m[1], m[2]>> \in Own(d)
  BY <1>2, <1>3, <1>5 DEF Own, MethodsOf
<1>9. d.kind # "class" => \A m \in MethodsOf(d) : <<d.name, m[1], m[2]>> \in Own(d)
  BY <1>2, <1>3, <1>6 DEF Own, MethodsOf
<1>. QED
  BY <1>7, <1>8, <1>9

(* A function listed anywhere is a method of one definition only.          *)
LEMMA ListedOnce ==
  ASSUME ctx \in Contexts, NEW d \in Definitions(ctx), NEW m \in MethodsOf(d),
         NEW e \in Listed(ctx), e[3] = m[2]
  PROVE  e[1] \in ListedUnder(d)
<1>1. PICK x \in Definitions(ctx) : e \in Own(x)
  BY DEF Listed, Own
<1>2. e[1] \in ListedUnder(x) /\ \E n \in MethodsOf(x) : e[3] = n[2]
  BY <1>1, OwnFacts
<1>3. x = d
  BY <1>2, ContextsAssumption DEF OneDefinition
<1>. QED
  BY <1>2, <1>3

(* The names of classes, of their metaclasses and of categories differ.    *)
LEMMA NamesDiffer ==
  ASSUME NEW a, NEW b, IsClassName(a), IsClassName(b), Both(a) \cap Both(b) # {}
  PROVE  a = b
<1>1. \A x, y : <<x, y>>[1] = x /\ <<x, y>>[2] = y
  OBVIOUS
<1>2. a[2] = "" /\ b[2] = ""
  BY ClassNameEnds
<1>3. Meta(a)[1] = a[1] /\ Meta(a)[2] = "$" /\ Meta(b)[1] = b[1] /\ Meta(b)[2] = "$"
  BY <1>1 DEF Meta
<1>4. PICK n \in Both(a) : n \in Both(b)
  OBVIOUS
<1>5. (n = a /\ n = b) \/ (n = Meta(a) /\ n = Meta(b))
  BY <1>2, <1>3, <1>4 DEF Both
<1>6. a[1] = b[1]
  BY <1>3, <1>5
<1>. QED
  BY <1>6 DEF IsClassName

LEMMA ObjcClassNames ==
  ASSUME Typed, RecordsInvariant
  PROVE  /\ \A n \in objcClasses : IsClassName(n)
         /\ \A n \in objcCategories : n[2] \notin {"", "$"}
<1>1. ASSUME NEW n \in objcClasses PROVE IsClassName(n)
  <2>1. PICK k \in DOMAIN ctx : \E j \in DOMAIN ctx[k] : n \in Named(ctx[k][j])
    BY DEF RecordsInvariant
  <2>2. PICK d \in Definitions(ctx) : n \in Named(d) /\ WellFormed(d)
    BY <2>1, ContextFacts DEF Typed
  <2>. QED
    BY <2>2 DEF Named, WellFormed
<1>. QED
  BY <1>1 DEF RecordsInvariant

(* While methods are attached, the mapping has every unshared method of a  *)
(* definition under the name it is looked up by.                           *)
LEMMA MethodsPresent ==
  ASSUME Typed, MethodsInvariant, phase \in {"attach", "categories"},
         NEW d \in Definitions(ctx), NEW m \in MethodsOf(d), ~Shared(m[2])
  PROVE  /\ d.kind = "class" => m[2] \in FunctionsOf(d.name) \cup FunctionsOf(Meta(d.name))
         /\ d.kind = "category" => m[2] \in FunctionsOf(d.name)
<1>1. \A f \in Own(d) : Has(methodMapping, f)
  <2>1. PICK k \in DOMAIN ctx : \E j \in DOMAIN ctx[k] : d = ctx[k][j]
    BY DEF Definitions
  <2>. QED
    BY <2>1 DEF MethodsInvariant, SelectorsKept, Visited
<1>2. ASSUME NEW n, <<n, m[1], m[2]>> \in Own(d)
      PROVE  m[2] \in FunctionsOf(n)
  <2>1. <<n, m[1], m[2]>> \in Listed(ctx)
    BY <1>2, ListedFacts
  <2>2. PICK e \in methodMapping : e[1] = n /\ e[2] = m[1]
    BY <1>1, <1>2 DEF Has
  <2>3. e \in Listed(ctx)
    BY <2>2 DEF MethodsInvariant
  <2>4. e[3] = m[2]
    BY <2>1, <2>2, <2>3 DEF Shared
  <2>. QED
    BY <2>2, <2>4 DEF FunctionsOf
<1>3. CASE d.kind = "class"
  <2>1. Both(Target(d)) = {d.name, Meta(d.name)}
    BY <1>3 DEF Both, Target
  <2>. QED
    BY <1>2, <1>3, <2>1, OwnFacts
<1>4. CASE d.kind = "category"
  BY <1>2, <1>4, OwnFacts
<1>. QED
  BY <1>3, <1>4

(* A step of a loop: what it attaches to parent is what it should, and     *)
(* what it takes away belongs there.                                       *)
LEMMA SettingParents ==
  ASSUME MethodsAttached, NEW functions, NEW parent, SetParent(functions, parent),
         UNCHANGED ctx,
         \A d \in Definitions(ctx) : \A m \in MethodsOf(d) :
           Attached(d)' /\ ~Shared(m[2]) =>
             /\ m[2] \in functions => parent = d.name
             /\ m[2] \notin functions => Attached(d)
  PROVE  MethodsAttached'
<1>. SUFFICES ASSUME NEW d \in Definitions(ctx), NEW m \in MethodsOf(d),
                     Attached(d)', ~Shared(m[2])
              PROVE  <<m[2], d.name>> \in astParent'
  BY DEF MethodsAttached, Shared
<1>1. CASE m[2] \in functions
  BY <1>1 DEF SetParent
<1>2. CASE m[2] \notin functions
  <2>1. <<m[2], d.name>> \in astParent
    BY <1>2 DEF MethodsAttached
  <2>. QED
    BY <1>2, <2>1 DEF SetParent
<1>. QED
  BY <1>1, <1>2

LEMMA ParentsInit == Init => ParentsInvariant
BY DEF Init, ParentsInvariant, MethodsAttached, Attached

LEMMA ParentsNext ==
  Typed /\ MethodsInvariant /\ RecordsInvariant /\ ParentsInvariant /\ [Next]_vars
    => ParentsInvariant'
<1>. SUFFICES ASSUME Typed, MethodsInvariant, RecordsInvariant, ParentsInvariant, [Next]_vars
              PROVE  ParentsInvariant'
  OBVIOUS
<1>1. \A d \in Definitions(ctx) : d.kind \in {"class", "category"}
        /\ (d.kind = "class" => IsClassName(d.name))
        /\ (d.kind = "category" => IsClassName(d.of) /\ d.name[2] \notin {"", "$"})
  BY ContextFacts DEF Typed, WellFormed
<1>2. ASSUME phase # "construct", NEW d \in Definitions(ctx)
      PROVE  /\ d.kind = "class" => d.name \in objcClasses \cap definedClasses
             /\ d.kind = "category" => d.name \in objcCategories
  <2>1. PICK k \in DOMAIN ctx : \E j \in DOMAIN ctx[k] : d = ctx[k][j]
    BY DEF Definitions
  <2>2. Recorded(k, d)
    BY <1>2, <2>1 DEF RecordsInvariant, Visited
  <2>. QED
    BY <2>2 DEF Recorded, Named
<1>3. ASSUME UNCHANGED <<ctx, astParent>>,
             phase' = "attach" => pending' \subseteq objcClasses',
             phase' = "categories" => pending' \subseteq objcCategories',
             \A d \in Definitions(ctx) : Attached(d)' => Attached(d)
      PROVE  ParentsInvariant'
  BY <1>3 DEF ParentsInvariant, MethodsAttached, Shared
<1>4. CASE AddClass \/ AddCategory \/ NextModule
  <2>1. UNCHANGED <<ctx, astParent, phase, pending>> /\ phase = "construct"
    BY <1>4 DEF AddClass, AddCategory, NextModule, output
  <2>. QED
    BY <1>3, <2>1 DEF Attached
<1>5. CASE BeginTypes \/ EmitRoot \/ EmitSubclass
  <2>1. UNCHANGED <<ctx, astParent>> /\ phase' = "types"
    BY <1>5 DEF BeginTypes, EmitRoot, EmitSubclass
  <2>. QED
    BY <1>3, <2>1 DEF Attached
<1>6. CASE BeginAttach
  <2>1. /\ UNCHANGED <<ctx, astParent, objcClasses>> /\ phase' = "attach" /\ phase # "construct"
        /\ pending' = objcClasses \cap definedClasses
    BY <1>6 DEF BeginAttach, output, hierarchy
  <2>. QED
    BY <1>2, <1>3, <2>1 DEF Attached
<1>7. CASE AttachClass
  <2>1. PICK class \in pending :
          /\ pending' = pending \ {class}
          /\ SetParent(FunctionsOf(class) \cup FunctionsOf(Meta(class)), class)
    BY <1>7 DEF AttachClass
  <2>. DEFINE functions == FunctionsOf(class) \cup FunctionsOf(Meta(class))
  <2>2. phase = "attach" /\ phase' = "attach" /\ UNCHANGED <<ctx, objcClasses>>
    BY <1>7 DEF AttachClass, hierarchy
  <2>3. pending \subseteq objcClasses /\ IsClassName(class)
    BY <2>2, ObjcClassNames DEF ParentsInvariant
  <2>4. ASSUME NEW d \in Definitions(ctx), NEW m \in MethodsOf(d), Attached(d)', ~Shared(m[2])
        PROVE  /\ m[2] \in functions => class = d.name
               /\ m[2] \notin functions => Attached(d)
    <3>1. d.kind = "class" /\ IsClassName(d.name) /\ d.name \notin pending'
      BY <1>1, <2>2, <2>4 DEF Attached
    <3>2. ListedUnder(d) = Both(d.name)
      BY <3>1 DEF ListedUnder, InCategory, Target
    <3>3. ASSUME m[2] \in functions PROVE class = d.name
      <4>1. PICK e \in methodMapping : e[1] \in Both(class) /\ e[3] = m[2]
        BY <3>3 DEF FunctionsOf, Both
      <4>2. e \in Listed(ctx)
        BY <2>2, <4>1 DEF MethodsInvariant
      <4>3. e[1] \in Both(d.name)
        BY <3>2, <4>1, <4>2, ListedOnce DEF Typed
      <4>. QED
        BY <2>3, <3>1, <4>1, <4>3, NamesDiffer
    <3>4. ASSUME m[2] \notin functions PROVE Attached(d)
      <4>1. d.name # class
        BY <2>2, <2>4, <3>1, <3>4, MethodsPresent
      <4>. QED
        BY <2>1, <2>2, <3>1, <4>1 DEF Attached
    <3>. QED
      BY <3>3, <3>4
  <2>. HIDE DEF functions
  <2>5. MethodsAttached'
    <3>1. SetParent(functions, class)
      BY <2>1 DEF functions
    <3>. QED
      BY <2>2, <2>4, <3>1, SettingParents DEF ParentsInvariant
  <2>. QED
    BY <2>1, <2>2, <2>3, <2>5 DEF ParentsInvariant
<1>8. CASE BeginCategories
  <2>1. /\ UNCHANGED <<ctx, astParent, objcCategories>> /\ phase' = "categories"
        /\ phase = "attach" /\ pending = {} /\ pending' = objcCategories
    BY <1>8 DEF BeginCategories, output, hierarchy
  <2>2. ASSUME NEW d \in Definitions(ctx), Attached(d)' PROVE Attached(d)
    BY <1>2, <2>1, <2>2 DEF Attached
  <2>. QED
    BY <1>3, <2>1, <2>2
<1>9. CASE AttachCategory
  <2>1. PICK category \in pending :
          /\ pending' = pending \ {category}
          /\ SetParent(FunctionsOf(category), category)
    BY <1>9 DEF AttachCategory
  <2>2. phase = "categories" /\ phase' = "categories" /\ UNCHANGED <<ctx, objcCategories>>
    BY <1>9 DEF AttachCategory, hierarchy
  <2>3. pending \subseteq objcCategories /\ category[2] \notin {"", "$"}
    BY <2>2, ObjcClassNames DEF ParentsInvariant
  <2>4. ASSUME NEW d \in Definitions(ctx), NEW m \in MethodsOf(d), Attached(d)', ~Shared(m[2])
        PROVE  /\ m[2] \in FunctionsOf(category) => category = d.name
               /\ m[2] \notin FunctionsOf(category) => Attached(d)
    <3>1. d.kind = "class" \/ (d.kind = "category" /\ d.name \notin pending')
      BY <2>2, <2>4 DEF Attached
    <3>2. IsClassName(Target(d))
      BY <1>1, <3>1 DEF Target
    <3>3. \A n \in Both(Target(d)) : n[2] \in {"", "$"}
      <4>1. Target(d)[2] = ""
        BY <3>2, ClassNameEnds
      <4>2. \A n : Meta(n)[2] = "$"
        BY DEF Meta
      <4>. QED
        BY <4>1, <4>2 DEF Both
    <3>4. ASSUME m[2] \in FunctionsOf(category) PROVE category = d.name
      <4>1. PICK e \in methodMapping : e[1] = category /\ e[3] = m[2]
        BY <3>4 DEF FunctionsOf
      <4>2. e \in Listed(ctx)
        BY <2>2, <4>1 DEF MethodsInvariant
      <4>3. e[1] \in ListedUnder(d)
        BY <4>1, <4>2, ListedOnce DEF Typed
      <4>4. category \in InCategory(d)
        BY <2>3, <3>3, <4>1, <4>3 DEF ListedUnder
      <4>. QED
        BY <4>4 DEF InCategory
    <3>5. ASSUME m[2] \notin FunctionsOf(category) PROVE Attached(d)
      <4>1. d.kind = "category" => d.name # category
        BY <2>2, <2>4, <3>5, MethodsPresent
      <4>. QED
        BY <2>1, <2>2, <3>1, <4>1 DEF Attached
    <3>. QED
      BY <3>4, <3>5
  <2>5. MethodsAttached'
    BY <2>1, <2>2, <2>4, SettingParents DEF ParentsInvariant
  <2>. QED
    BY <2>1, <2>2, <2>3, <2>5 DEF ParentsInvariant
<1>10. CASE BeginPropagate
  <2>1. UNCHANGED <<ctx, astParent>> /\ phase' = "propagate" /\ phase = "categories" /\ pending = {}
    BY <1>10 DEF BeginPropagate, output
  <2>2. \A d \in Definitions(ctx) : Attached(d)
    BY <1>1, <2>1 DEF Attached
  <2>. QED
    BY <1>3, <2>1, <2>2
<1>11. CASE PropagateRoot \/ FillInMethods \/ BeginBind \/ BindClass \/ Finish
  <2>1. /\ UNCHANGED <<ctx, astParent>> /\ phase' \in {"propagate", "bind", "done"}
        /\ phase \in {"propagate", "bind", "done"}
    BY <1>11 DEF PropagateRoot, FillInMethods, BeginBind, BindClass, Finish, output
  <2>. QED
    BY <1>3, <2>1 DEF Attached
<1>12. CASE UNCHANGED vars
  <2>1. UNCHANGED <<ctx, astParent, phase, pending, objcClasses, objcCategories>>
    BY <1>12 DEF vars, output, hierarchy
  <2>. QED
    BY <1>3, <2>1 DEF Attached, ParentsInvariant
<1>. QED
  BY <1>4, <1>5, <1>6, <1>7, <1>8, <1>9, <1>10, <1>11, <1>12 DEF Next

(* A method is the child of the class or category that defines it, unless  *)
(* it shares its selector: no later class or category takes it over.       *)
THEOREM MethodsAreInPlace == Spec => []MethodsBelongToTheirDefinition
<1>1. ParentsInvariant => MethodsBelongToTheirDefinition
  BY DEF ParentsInvariant, MethodsAttached, Attached, MethodsBelongToTheirDefinition
<1>. QED
  BY <1>1, TypedInit, TypedNext, MethodsInit, MethodsNext, RecordsInit, RecordsNext,
     ParentsInit, ParentsNext, PTL DEF Spec

----------------------------------------------------------------------------
(***************************************************************************)
(* Dispatch. A class has one superclass, and superclasses end, so what a   *)
(* class responds to is defined by where the climb ends, whatever number   *)
(* of steps it is given; the walk leaves every edge of the hierarchy       *)
(* covered, the subclass having each selector the class has.               *)
(***************************************************************************)
LEMMA SuperclassFacts ==
  ASSUME ctx \in Contexts
  PROVE  /\ \A n : Superclass(n) # None =>
              \E d \in Subclasses(ctx) : \/ n = d.name /\ Superclass(n) = d.super
                                         \/ n = Meta(d.name) /\ Superclass(n) = Meta(d.super)
         /\ \A d \in Subclasses(ctx) : /\ Superclass(d.name) = d.super
                                       /\ Superclass(Meta(d.name)) = Meta(d.super)
<1>. DEFINE direct(n) == {d.super : d \in {x \in ClassesOf(ctx) : x.name = n}}
            meta(n) == {Meta(d.super) : d \in {x \in Subclasses(ctx) : Meta(x.name) = n}}
<1>1. \A n : Superclass(n) = IF direct(n) \cup meta(n) = {} THEN None
                             ELSE CHOOSE u \in direct(n) \cup meta(n) : TRUE
  BY DEF Superclass
<1>2. \A n : Superclass(n) # None => Superclass(n) \in direct(n) \cup meta(n)
  <2>. HIDE DEF direct, meta
  <2>. QED
    BY <1>1
<1>3. ASSUME NEW n, Superclass(n) # None
      PROVE  \E d \in Subclasses(ctx) : \/ n = d.name /\ Superclass(n) = d.super
                                        \/ n = Meta(d.name) /\ Superclass(n) = Meta(d.super)
  <2>1. CASE Superclass(n) \in direct(n)
    BY <1>3, <2>1 DEF Subclasses
  <2>2. CASE Superclass(n) \in meta(n)
    BY <2>2
  <2>. QED
    BY <1>2, <1>3, <2>1, <2>2
<1>4. ASSUME NEW d \in Subclasses(ctx)
      PROVE  /\ Superclass(d.name) = d.super
             /\ Superclass(Meta(d.name)) = Meta(d.super)
  <2>1. \A x \in Subclasses(ctx) : x \in ClassesOf(ctx) /\ IsClassName(x.name) /\ x.super # None
    BY ContextFacts DEF Subclasses, ClassesOf, WellFormed
  <2>2. \A x \in ClassesOf(ctx) : IsClassName(x.name) /\ (x.name = d.name => x.super = d.super)
    <3>1. \A x \in ClassesOf(ctx) : IsClassName(x.name)
      BY ContextFacts DEF ClassesOf, WellFormed
    <3>2. OneSuperclass(ctx)
      BY ContextsAssumption
    <3>. QED
      BY <2>1, <3>1, <3>2 DEF OneSuperclass
  <2>3. \A x \in ClassesOf(ctx) : x.name[2] = "" /\ Meta(x.name)[2] = "$"
    BY <2>2, ClassNameEnds DEF Meta
  <2>4. \A x \in Subclasses(ctx) : Meta(x.name) = Meta(d.name) => x.name = d.name
    BY <2>1, NamesDiffer DEF Both
  <2>5. direct(d.name) = {d.super} /\ meta(d.name) = {}
    BY <2>1, <2>2, <2>3
  <2>6. direct(Meta(d.name)) = {} /\ meta(Meta(d.name)) = {Meta(d.super)}
    BY <2>1, <2>2, <2>3, <2>4
  <2>. HIDE DEF direct, meta
  <2>7. \A u : (CHOOSE w \in {u} \cup {} : TRUE) = u /\ (CHOOSE w \in {} \cup {u} : TRUE) = u
    OBVIOUS
  <2>. QED
    BY <1>1, <2>5, <2>6, <2>7
<1>. QED
  BY <1>3, <1>4

LEMMA SuperclassNames ==
  ASSUME ctx \in Contexts
  PROVE  /\ None \notin Names(ctx)
         /\ \A n : Superclass(n) # None => n \in Names(ctx) /\ Superclass(n) \in Names(ctx)
<1>1. \A d \in Subclasses(ctx) :
        {d.name, Meta(d.name), d.super, Meta(d.super)} \subseteq Names(ctx)
  BY NamesOf DEF Subclasses, ClassesOf, Target
<1>. QED
  BY <1>1, SuperclassFacts, ContextsAssumption

(* Of any names, one has no superclass among them.                         *)
LEMMA SuperclassesEndForNames ==
  ASSUME ctx \in Contexts, NEW S, S # {}
  PROVE  \E n \in S : Superclass(n) \notin S \/ Superclass(n) = None
<1>. SUFFICES ASSUME \A n \in S : Superclass(n) \in S /\ Superclass(n) # None
              PROVE  FALSE
  OBVIOUS
<1>. DEFINE T == {d.name : d \in {x \in Subclasses(ctx) : Both(x.name) \cap S # {}}}
<1>1. \A n \in S : \E d \in Subclasses(ctx) :
        /\ n \in Both(d.name) /\ d.name \in T
        /\ Superclass(n) \in Both(d.super)
  BY SuperclassFacts DEF Both
<1>2. T # {}
  BY <1>1
<1>3. T \in SUBSET {d.name : d \in ClassesOf(ctx)}
  BY DEF Subclasses
<1>4. PICK t \in T : \A d \in ClassesOf(ctx) : d.name = t => d.super \notin T \/ d.super = None
  <2>. HIDE DEF T
  <2>. QED
    BY <1>2, <1>3, ContextsAssumption DEF SuperclassesEnd
<1>5. PICK d \in Subclasses(ctx) : d.name = t /\ Both(d.name) \cap S # {}
  OBVIOUS
<1>6. /\ d \in ClassesOf(ctx) /\ d.super # None
      /\ \A x \in Subclasses(ctx) : IsClassName(x.name) /\ IsClassName(x.super)
  BY ContextFacts DEF Subclasses, ClassesOf, WellFormed
<1>7. PICK n \in S : n \in Both(d.name)
  BY <1>5
<1>8. Superclass(n) \in Both(d.super)
  BY <1>7, SuperclassFacts DEF Both
<1>9. PICK x \in Subclasses(ctx) : Superclass(n) \in Both(x.name) /\ x.name \in T
  BY <1>1, <1>7
<1>10. x.name = d.super
  BY <1>6, <1>8, <1>9, NamesDiffer
<1>. QED
  BY <1>4, <1>5, <1>6, <1>9, <1>10

LEMMA NamesFinite ==
  ASSUME ctx \in Contexts
  PROVE  IsFiniteSet(Names(ctx))
<1>1. \A f, S : IsFiniteSet(S) => IsFiniteSet({f[x] : x \in S})
  <2>. SUFFICES ASSUME NEW f, NEW S, IsFiniteSet(S) PROVE IsFiniteSet({f[x] : x \in S})
    OBVIOUS
  <2>. DEFINE g == [x \in S |-> f[x]]
              T == {f[x] : x \in S}
  <2>1. g \in Surjection(S, T)
    BY DEF Surjection
  <2>. HIDE DEF g, T
  <2>2. IsFiniteSet(T)
    BY <2>1, FS_Surjection
  <2>. QED
    BY <2>2 DEF T
<1>2. \A k \in DOMAIN ctx : IsFiniteSet({ctx[k][j] : j \in DOMAIN ctx[k]})
  <2>1. \A k \in DOMAIN ctx : IsFiniteSet(DOMAIN ctx[k])
    BY ContextFacts, FS_Interval
  <2>. QED
    BY <1>1, <2>1
<1>3. IsFiniteSet(Definitions(ctx))
  <2>. DEFINE g == [k \in DOMAIN ctx |-> {ctx[k][j] : j \in DOMAIN ctx[k]}]
              L == {g[k] : k \in DOMAIN ctx}
  <2>1. IsFiniteSet(DOMAIN ctx)
    BY ContextFacts, FS_Interval
  <2>2. \A T \in L : IsFiniteSet(T)
    BY <1>2
  <2>3. Definitions(ctx) = UNION L
    BY DEF Definitions
  <2>. HIDE DEF g
  <2>4. IsFiniteSet(L)
    BY <1>1, <2>1
  <2>. HIDE DEF L
  <2>. QED
    BY <2>2, <2>3, <2>4, FS_UNION
<1>. DEFINE D == Definitions(ctx)
            targets == [d \in D |-> Target(d)]
            names == [d \in D |-> d.name]
            supers == [d \in D |-> d.super]
            all == ({targets[d] : d \in D} \cup {names[d] : d \in D}) \cup {supers[d] : d \in D}
            metas == [n \in all |-> Meta(n)]
<1>4. IsFiniteSet(all)
  <2>1. /\ IsFiniteSet({targets[d] : d \in D}) /\ IsFiniteSet({names[d] : d \in D})
        /\ IsFiniteSet({supers[d] : d \in D})
    <3>. HIDE DEF targets, names, supers
    <3>. QED
      BY <1>1, <1>3
  <2>. QED
    BY <2>1, FS_Union
<1>5. IsFiniteSet(all \cup {metas[n] : n \in all})
  <2>1. IsFiniteSet({metas[n] : n \in all})
    <3>. HIDE DEF metas, all
    <3>. QED
      BY <1>1, <1>4
  <2>. QED
    BY <1>4, <2>1, FS_Union
<1>6. Names(ctx) \subseteq all \cup {metas[n] : n \in all}
  <2>. DEFINE named == {Target(d) : d \in D} \cup {d.name : d \in D}
                         \cup {d.super : d \in Subclasses(ctx)}
  <2>1. named \subseteq all
    BY DEF Subclasses, ClassesOf
  <2>2. Names(ctx) = named \cup {Meta(n) : n \in named}
    BY DEF Names
  <2>. HIDE DEF named, all
  <2>. QED
    BY <2>1, <2>2
<1>. QED
  BY <1>5, <1>6, FS_Subset

(* A set of numbers has a least one: induction, for sets.                  *)
LEMMA Least ==
  ASSUME NEW S \in SUBSET Nat, S # {}
  PROVE  \E k \in S : \A j \in S : k <= j
<1>1. \E R : IsWellFoundedOn(R, Nat) /\ \A x, y \in Nat : x < y => <<x, y>> \in R
  <2>1. IsWellFoundedOn(OpToRel(<, Nat), Nat)
    BY NatLessThanWellFounded
  <2>2. \A x, y \in Nat : x < y => <<x, y>> \in OpToRel(<, Nat)
    BY DEF OpToRel
  <2> HIDE DEF OpToRel
  <2> QED
    BY <2>1, <2>2, Zenon
<1>2. ASSUME NEW R, IsWellFoundedOn(R, Nat), \A x, y \in Nat : x < y => <<x, y>> \in R
      PROVE  \E k \in S : \A j \in S : k <= j
  <2>1. S \subseteq Nat
    OBVIOUS
  <2>2. \E x \in S : \A y \in S : ~ (<<y, x>> \in R)
    <3>1. \A RR, SS, TT : IsWellFoundedOn(RR, SS) /\ TT \subseteq SS /\ TT # {}
              => \E x \in TT : \A y \in TT : ~ (<<y, x>> \in RR)
      BY WFMin, Zenon
    <3>2. IsWellFoundedOn(R, Nat) /\ S \subseteq Nat /\ S # {}
      BY <1>2, <2>1
    <3> HIDE DEF IsWellFoundedOn
    <3> QED
      BY <3>1, <3>2, Zenon
  <2>3. \A x, y \in S : ~ (<<y, x>> \in R) => x <= y
    BY <1>2, <2>1
  <2> QED
    BY <2>2, <2>3
<1> QED
  BY <1>1, <1>2

LEMMA Inductive ==
  ASSUME NEW S, 0 \in S, \A n \in Nat : n \in S => n + 1 \in S
  PROVE  \A n \in Nat : n \in S
<1> DEFINE Bad == {n \in Nat : n \notin S}
<1> SUFFICES ASSUME Bad # {} PROVE FALSE
  OBVIOUS
<1>1. Bad \in SUBSET Nat
  OBVIOUS
<1>2. \E k \in Bad : \A j \in Bad : k <= j
  <2> HIDE DEF Bad
  <2> QED
    BY <1>1, Least
<1>3. PICK k \in Bad : \A j \in Bad : k <= j
  BY <1>2
<1>4. k \in Nat /\ k # 0
  BY <1>3
<1>5. k - 1 \in Nat /\ ~ (k <= k - 1)
  BY <1>4
<1>6. k - 1 \in S
  BY <1>3, <1>5
<1>7. (k - 1) + 1 \in S
  BY <1>5, <1>6
<1>8. (k - 1) + 1 = k
  BY <1>4
<1> QED
  BY <1>3, <1>7, <1>8

(* What one more superclass makes of what every class responds to.         *)
NoHigher(m, s) == Candidates(m, s) # {} \/ Superclass(m) = None

Higher(x, s) ==
  [m \in Names(ctx) |-> IF NoHigher(m, s) THEN Candidates(m, s) ELSE x[Superclass(m)]]

Climbs(f, top, s) ==
  f = [k \in 0 .. top |->
         IF k = 0 THEN [m \in Names(ctx) |-> Candidates(m, s)] ELSE Higher(f[k - 1], s)]

LEMMA ClimbExists ==
  ASSUME NEW s, NEW top \in Nat
  PROVE  \E f : Climbs(f, top, s)
<1>. DEFINE First == [m \in Names(ctx) |-> Candidates(m, s)]
            Body(f, k) == IF k = 0 THEN First ELSE Higher(f[k - 1], s)
            Some == {n \in Nat : \E f : f = [k \in 0 .. n |-> Body(f, k)]}
<1>1. 0 \in Some
  <2>. DEFINE f == [k \in 0 .. 0 |-> First]
  <2>1. f = [k \in 0 .. 0 |-> Body(f, k)]
    <3>. HIDE DEF First
    <3>. QED
      OBVIOUS
  <2>. QED
    BY <2>1
<1>2. ASSUME NEW n \in Nat, n \in Some PROVE n + 1 \in Some
  <2>. HIDE DEF First
  <2>1. PICK f : f = [k \in 0 .. n |-> Body(f, k)]
    BY <1>2
  <2>. DEFINE g == [k \in 0 .. n + 1 |-> IF k = n + 1 THEN Higher(f[n], s) ELSE f[k]]
  <2>2. ASSUME NEW k \in 0 .. n + 1 PROVE g[k] = Body(g, k)
    <3>1. CASE k = 0
      <4>1. g[k] = f[k] /\ f[k] = First
        BY <2>1, <3>1
      <4>. QED
        BY <3>1, <4>1
    <3>2. CASE k = n + 1
      <4>1. n \in 0 .. n + 1 /\ n # n + 1 /\ k - 1 = n /\ k # 0
        BY <3>2
      <4>2. g[n] = f[n] /\ g[k] = Higher(f[n], s)
        BY <3>2, <4>1
      <4>. HIDE DEF g
      <4>. QED
        BY <4>1, <4>2
    <3>3. CASE k # 0 /\ k # n + 1
      <4>1. k \in 0 .. n /\ k - 1 \in 0 .. n + 1 /\ k - 1 # n + 1
        BY <3>3
      <4>2. g[k] = f[k] /\ g[k - 1] = f[k - 1]
        BY <3>3, <4>1
      <4>3. f[k] = Body(f, k)
        BY <2>1, <4>1
      <4>. HIDE DEF g
      <4>. QED
        BY <3>3, <4>2, <4>3
    <3>. QED
      BY <3>1, <3>2, <3>3
  <2>3. g = [k \in 0 .. n + 1 |-> g[k]]
    OBVIOUS
  <2>. HIDE DEF g
  <2>4. g = [k \in 0 .. n + 1 |-> Body(g, k)]
    <3>. HIDE DEF Body
    <3>. QED
      BY <2>2, <2>3
  <2>. QED
    BY <2>4
<1>. HIDE DEF Some
<1>3. top \in Some
  BY <1>1, <1>2, Inductive
<1>. QED
  BY <1>3 DEF Some, Climbs

(* How far up a class is: lower than its superclass, within the number of  *)
(* names there are.                                                        *)
Heights(h, U, j) ==
  /\ h \in [U -> Nat] /\ \A m \in U : h[m] < j
  /\ \A m \in U : Superclass(m) # None => Superclass(m) \in U /\ h[Superclass(m)] < h[m]

LEMMA HeightsExist ==
  ASSUME ctx \in Contexts
  PROVE  \E h : Heights(h, Names(ctx), Cardinality(Names(ctx)))
<1>. DEFINE N == Names(ctx)
            K == Cardinality(N)
<1>1. IsFiniteSet(N) /\ K \in Nat
  BY NamesFinite, FS_CardinalityType
<1>2. \A n : Superclass(n) # None => Superclass(n) \in N
  BY SuperclassNames
<1>. HIDE DEF N
<1>. DEFINE Some == {j \in Nat : j <= K =>
                       \E U \in SUBSET N : Cardinality(U) = j /\ \E h : Heights(h, U, j)}
<1>3. 0 \in Some
  <2>1. Heights([m \in {} |-> 0], {}, 0)
    BY DEF Heights
  <2>. QED
    BY <2>1, FS_EmptySet
<1>4. ASSUME NEW j \in Nat, j \in Some PROVE j + 1 \in Some
  <2>. SUFFICES ASSUME j + 1 <= K
                PROVE  \E U \in SUBSET N : Cardinality(U) = j + 1 /\ \E h : Heights(h, U, j + 1)
    OBVIOUS
  <2>1. PICK U \in SUBSET N : Cardinality(U) = j /\ \E h : Heights(h, U, j)
    BY <1>1, <1>4
  <2>2. PICK h : Heights(h, U, j)
    BY <2>1
  <2>3. N \ U # {}
    <3>1. U # N
      BY <1>1, <2>1
    <3>. QED
      BY <3>1
  <2>4. PICK n \in N \ U : Superclass(n) \notin N \ U \/ Superclass(n) = None
    BY <2>3, SuperclassesEndForNames
  <2>5. Superclass(n) # None => Superclass(n) \in U
    BY <1>2, <2>4
  <2>. DEFINE V == U \cup {n}
              g == [m \in V |-> IF m = n THEN j ELSE h[m]]
  <2>6. Cardinality(V) = j + 1
    <3>1. IsFiniteSet(U)
      BY <1>1, <2>1, FS_Subset
    <3>. QED
      BY <2>1, <2>4, <3>1, FS_AddElement
  <2>7. Heights(g, V, j + 1)
    <3>1. g \in [V -> Nat] /\ \A m \in V : g[m] < j + 1
      BY <2>2 DEF Heights
    <3>2. ASSUME NEW m \in V, Superclass(m) # None
          PROVE  Superclass(m) \in V /\ g[Superclass(m)] < g[m]
      <4>1. CASE m = n
        BY <2>2, <2>4, <2>5, <3>2, <4>1 DEF Heights
      <4>2. CASE m # n
        BY <2>2, <2>4, <3>2, <4>2 DEF Heights
      <4>. QED
        BY <4>1, <4>2
    <3>. HIDE DEF g, V
    <3>. QED
      BY <3>1, <3>2 DEF Heights
  <2>8. V \in SUBSET N
    BY <2>1, <2>4
  <2>. HIDE DEF V, g
  <2>. QED
    BY <2>6, <2>7, <2>8
<1>5. K \in Some
  <2>. HIDE DEF Some
  <2>. QED
    BY <1>1, <1>3, <1>4, Inductive
<1>6. PICK U \in SUBSET N : Cardinality(U) = K /\ \E h : Heights(h, U, K)
  BY <1>1, <1>5
<1>7. U = N
  BY <1>1, <1>6, FS_Subset
<1>. QED
  BY <1>6, <1>7 DEF N

(* What a class responds to: its own method, or its superclass's.          *)
LEMMA RespondersClimb ==
  ASSUME ctx \in Contexts, NEW n \in Names(ctx), NEW s
  PROVE  /\ NoHigher(n, s) => Responders(n, s) = Candidates(n, s)
         /\ ~NoHigher(n, s) => Responders(n, s) = Responders(Superclass(n), s)
<1>. DEFINE N == Names(ctx)
            K == Cardinality(N)
            climb == CHOOSE f : Climbs(f, K, s)
<1>1. IsFiniteSet(N) /\ K \in Nat
  BY NamesFinite, FS_CardinalityType
<1>2. Climbs(climb, K, s)
  BY <1>1, ClimbExists
<1>3. \A m : Responders(m, s) = climb[K][m]
  BY DEF Responders, Climbs, Higher, NoHigher
<1>4. PICK h : Heights(h, N, K)
  BY HeightsExist
<1>. HIDE DEF climb
<1>5. /\ climb[0] = [m \in N |-> Candidates(m, s)]
      /\ \A k \in 0 .. K : k # 0 => climb[k] = Higher(climb[k - 1], s)
  <2>. DEFINE First == [m \in N |-> Candidates(m, s)]
  <2>1. climb = [k \in 0 .. K |-> IF k = 0 THEN First ELSE Higher(climb[k - 1], s)]
    BY <1>2 DEF Climbs
  <2>. HIDE DEF First
  <2>2. 0 \in 0 .. K
    BY <1>1
  <2>3. climb[0] = First /\ \A k \in 0 .. K : k # 0 => climb[k] = Higher(climb[k - 1], s)
    BY <2>1, <2>2
  <2>. QED
    BY <2>3 DEF First
<1>6. \A x : \A m \in N : Higher(x, s)[m] =
        IF NoHigher(m, s) THEN Candidates(m, s) ELSE x[Superclass(m)]
  BY DEF Higher
<1>7. \A m \in N : NoHigher(m, s) => \A k \in 0 .. K : climb[k][m] = Candidates(m, s)
  BY <1>5, <1>6
<1>8. \A m \in N : ~NoHigher(m, s) =>
        \A k \in 0 .. K : k # 0 => climb[k][m] = climb[k - 1][Superclass(m)]
  BY <1>5, <1>6
<1>9. \A m \in N : h[m] \in Nat /\ h[m] < K /\
        (~NoHigher(m, s) => Superclass(m) \in N /\ h[Superclass(m)] < h[m])
  BY <1>4 DEF Heights, NoHigher
<1>. DEFINE Unsettled == {m \in N : \E k \in 0 .. K : k < K /\ h[m] <= k /\ climb[k + 1][m] # climb[k][m]}
<1>10. Unsettled = {}
  <2>. SUFFICES ASSUME Unsettled # {} PROVE FALSE
    OBVIOUS
  <2>1. PICK m \in Unsettled : Superclass(m) \notin Unsettled \/ Superclass(m) = None
    <3>. HIDE DEF Unsettled
    <3>. QED
      BY SuperclassesEndForNames
  <2>2. PICK k \in 0 .. K : k < K /\ h[m] <= k /\ climb[k + 1][m] # climb[k][m]
    OBVIOUS
  <2>3. k + 1 \in 0 .. K /\ k + 1 # 0 /\ (k + 1) - 1 = k
    BY <1>1, <2>2
  <2>4. ~NoHigher(m, s)
    BY <1>7, <2>2, <2>3
  <2>. DEFINE p == Superclass(m)
  <2>5. p \in N /\ p \notin Unsettled /\ h[p] \in Nat /\ h[m] \in Nat /\ h[p] < h[m]
    BY <1>9, <2>1, <2>4 DEF NoHigher
  <2>6. k # 0 /\ k - 1 \in 0 .. K /\ k - 1 < K /\ h[p] <= k - 1 /\ (k - 1) + 1 = k
    BY <1>1, <2>2, <2>5
  <2>7. climb[k + 1][m] = climb[k][p] /\ climb[k][m] = climb[k - 1][p]
    BY <1>8, <2>2, <2>3, <2>4, <2>6
  <2>8. climb[(k - 1) + 1][p] = climb[k - 1][p]
    BY <2>5, <2>6
  <2>. QED
    BY <2>2, <2>6, <2>7, <2>8
<1>11. ASSUME NoHigher(n, s) PROVE Responders(n, s) = Candidates(n, s)
  BY <1>1, <1>3, <1>7, <1>11
<1>12. ASSUME ~NoHigher(n, s) PROVE Responders(n, s) = Responders(Superclass(n), s)
  <2>. DEFINE p == Superclass(n)
  <2>1. p \in N /\ h[p] \in Nat /\ h[n] \in Nat /\ h[p] < h[n] /\ h[n] < K
    BY <1>9, <1>12
  <2>2. K \in 0 .. K /\ K # 0 /\ K - 1 \in 0 .. K /\ K - 1 < K /\ h[p] <= K - 1 /\ (K - 1) + 1 = K
    BY <1>1, <2>1
  <2>3. climb[K][n] = climb[K - 1][p]
    BY <1>8, <1>12, <2>2
  <2>4. climb[(K - 1) + 1][p] = climb[K - 1][p]
    BY <1>10, <2>1, <2>2
  <2>. QED
    BY <1>3, <2>2, <2>3, <2>4
<1>. QED
  BY <1>11, <1>12

Had(n, s) == \E e \in methodMapping : e[1] = n /\ e[2] = s

Covered(e) == \A s : Had(e[1], s) => Had(e[2], s)

(* How far the walk is: the classes of V have been visited, and an edge    *)
(* from one of them is covered or waits on work.                           *)
WalkedTo(V) ==
  /\ rootClasses \ pending \subseteq V
  /\ \A e \in subclassMapping : e[1] \in V => In(e, work) \/ (e[2] \in V /\ Covered(e))

DispatchInvariant ==
  /\ bindings \subseteq methodMapping
  /\ phase = "propagate" => \E V : WalkedTo(V)
  /\ phase \in {"bind", "done"} =>
       /\ \A e \in subclassMapping : Covered(e)
       /\ \A class \in objcClasses : class \notin pending =>
            {e \in methodMapping : e[1] \in Both(class)} \subseteq bindings
  /\ phase = "done" => pending = {}

LEMMA DispatchInit == Init => DispatchInvariant
BY DEF Init, DispatchInvariant

LEMMA DispatchNext ==
  Typed /\ RecordsInvariant /\ DispatchInvariant /\ [Next]_vars => DispatchInvariant'
<1>. SUFFICES ASSUME Typed, RecordsInvariant, DispatchInvariant, [Next]_vars
              PROVE  DispatchInvariant'
  OBVIOUS
<1>. USE DEF hierarchy, output
<1>1. ASSUME phase' \notin {"propagate", "bind", "done"}, methodMapping \subseteq methodMapping',
             UNCHANGED bindings
      PROVE  DispatchInvariant'
  BY <1>1 DEF DispatchInvariant
<1>2. CASE AddClass \/ AddCategory
  BY <1>1, <1>2, InsertFacts DEF AddClass, AddCategory, AddMethods
<1>3. CASE NextModule \/ BeginTypes \/ EmitRoot \/ EmitSubclass
  BY <1>1, <1>3 DEF NextModule, BeginTypes, EmitRoot, EmitSubclass
<1>4. CASE BeginAttach \/ AttachClass \/ BeginCategories \/ AttachCategory
  BY <1>1, <1>4 DEF BeginAttach, AttachClass, BeginCategories, AttachCategory
<1>5. CASE BeginPropagate
  <2>1. WalkedTo({})'
    BY <1>5 DEF BeginPropagate, WalkedTo
  <2>. QED
    BY <1>5, <2>1 DEF BeginPropagate, DispatchInvariant
<1>6. CASE PropagateRoot
  <2>1. PICK base \in pending : pending' = pending \ {base} /\ work' \in Calls(base)
    BY <1>6 DEF PropagateRoot
  <2>2. \A e \in subclassMapping : e[1] = base => In(e, work')
    BY <2>1, CallsList DEF Typed
  <2>3. PICK V : WalkedTo(V)
    BY <1>6 DEF PropagateRoot, DispatchInvariant
  <2>4. UNCHANGED <<rootClasses, subclassMapping, methodMapping>> /\ \A e : ~In(e, work)
    BY <1>6 DEF PropagateRoot, Idle, In
  <2>5. WalkedTo(V \cup {base})'
    BY <2>1, <2>2, <2>3, <2>4 DEF WalkedTo, Covered, Had
  <2>. QED
    BY <1>6, <2>5 DEF PropagateRoot, DispatchInvariant
<1>7. CASE FillInMethods
  <2>. DEFINE base == Head(work)[1]
              derived == Head(work)[2]
  <2>1. /\ phase = "propagate" /\ phase' = "propagate" /\ work # <<>>
        /\ methodMapping' = Insert(methodMapping, FromBase(base, derived))
        /\ UNCHANGED <<bindings, rootClasses, pending, subclassMapping>>
    BY <1>7 DEF FillInMethods, Filled, Idle
  <2>2. PICK calls \in Calls(derived) : work' = calls \o Tail(work)
    BY <1>7 DEF FillInMethods, Deeper
  <2>3. /\ calls \in Seq(subclassMapping)
        /\ \A e \in subclassMapping : e[1] = derived => In(e, calls)
    BY <2>2, CallsList DEF Typed
  <2>4. /\ \A e : In(e, work) => e = Head(work) \/ In(e, work')
        /\ \A e : In(e, calls) => In(e, work')
    BY <2>1, <2>2, <2>3, Replaced DEF Typed, TypeOK
  <2>. DEFINE had(n, s) == \E e \in methodMapping' : e[1] = n /\ e[2] = s
  <2>5. \A n, s : /\ Had(n, s) => had(n, s)
                  /\ had(n, s) /\ n # derived => Had(n, s)
                  /\ Had(base, s) => had(derived, s)
    <3>1. methodMapping \subseteq methodMapping'
      BY <2>1, InsertFacts
    <3>2. \A e \in methodMapping' : e[1] # derived => e \in methodMapping
      BY <2>1, InsertFacts DEF FromBase
    <3>3. ASSUME NEW e \in methodMapping, e[1] = base
          PROVE  \E f \in methodMapping' : f[1] = derived /\ f[2] = e[2]
      <4>1. <<derived, e[2], e[3]>> \in FromBase(base, derived)
        BY <3>3 DEF FromBase
      <4>. HIDE DEF derived, base
      <4>. QED
        BY <2>1, <4>1, InsertFacts DEF Has
    <3>. HIDE DEF derived, base
    <3>. QED
      BY <3>1, <3>2, <3>3 DEF Had
  <2>6. PICK V : WalkedTo(V)
    BY <2>1 DEF DispatchInvariant
  <2>7. ASSUME NEW e \in subclassMapping, e[1] \in V \cup {derived}, ~In(e, work')
        PROVE  e[2] \in V \cup {derived} /\ \A s : had(e[1], s) => had(e[2], s)
    <3>1. e[1] # derived
      BY <2>3, <2>4, <2>7
    <3>2. CASE e = Head(work)
      BY <2>5, <3>1, <3>2
    <3>3. CASE e # Head(work)
      <4>1. e[2] \in V /\ Covered(e)
        BY <2>4, <2>6, <2>7, <3>1, <3>3 DEF WalkedTo
      <4>. QED
        BY <2>5, <3>1, <4>1 DEF Covered
    <3>. QED
      BY <3>2, <3>3
  <2>8. \E X : WalkedTo(X)'
    <3>. DEFINE W == V \cup {derived}
    <3>1. rootClasses' \ pending' \subseteq W
      BY <2>1, <2>6 DEF WalkedTo
    <3>2. \A e \in subclassMapping' : e[1] \in W =>
            In(e, work') \/ (e[2] \in W /\ \A s : had(e[1], s) => had(e[2], s))
      BY <2>1, <2>7
    <3>3. PICK X : X = W
      OBVIOUS
    <3>. HIDE DEF W
    <3>4. WalkedTo(X)'
      BY <3>1, <3>2, <3>3 DEF WalkedTo, Covered, Had, In
    <3>. QED
      BY <3>4
  <2>9. bindings' \subseteq methodMapping'
    BY <2>1, InsertFacts DEF DispatchInvariant
  <2>. QED
    BY <2>1, <2>8, <2>9 DEF DispatchInvariant
<1>8. CASE BeginBind
  <2>1. PICK V : WalkedTo(V)
    BY <1>8 DEF BeginBind, DispatchInvariant
  <2>2. rootClasses \subseteq V /\ \A e \in subclassMapping : e[1] \in V => e[2] \in V /\ Covered(e)
    BY <1>8, <2>1 DEF BeginBind, Idle, In, WalkedTo
  <2>3. \A e \in subclassMapping : e[1] \in V
    BY <1>8, <2>2, RootsReachAll DEF BeginBind
  <2>. QED
    BY <1>8, <2>2, <2>3 DEF BeginBind, DispatchInvariant, Covered, Had
<1>9. CASE BindClass
  <2>1. PICK class \in pending :
          /\ pending' = pending \ {class}
          /\ bindings' = bindings \cup {e \in methodMapping : e[1] \in {class, Meta(class)}}
    BY <1>9 DEF BindClass
  <2>2. UNCHANGED <<phase, methodMapping, subclassMapping, objcClasses>> /\ phase = "bind"
    BY <1>9 DEF BindClass
  <2>. QED
    BY <2>1, <2>2 DEF DispatchInvariant, Covered, Had, Both
<1>10. CASE Finish
  BY <1>10 DEF Finish, DispatchInvariant, Covered, Had, Both
<1>11. CASE UNCHANGED vars
  <2>1. UNCHANGED <<phase, hierarchy, methodMapping, pending, work, bindings>>
    BY <1>11 DEF vars
  <2>2. \A V : WalkedTo(V) => WalkedTo(V)'
    BY <2>1 DEF WalkedTo, Covered, Had, In
  <2>. QED
    BY <2>1, <2>2 DEF DispatchInvariant, Covered, Had, Both
<1>. QED
  BY <1>2, <1>3, <1>4, <1>5, <1>6, <1>7, <1>8, <1>9, <1>10, <1>11 DEF Next

(* When the walk is over a class has a method for what it responds to, and *)
(* no other.                                                               *)
LEMMA MethodsRespond ==
  ASSUME Typed, MethodsInvariant, RecordsInvariant, DispatchInvariant,
         phase \in {"bind", "done"}
  PROVE  /\ \A e \in methodMapping : e[1] \in Names(ctx) /\ e[3] \in Responders(e[1], e[2])
         /\ \A n \in Names(ctx) : \A s : Responders(n, s) # {} => Had(n, s)
<1>1. \A f \in Listed(ctx) : f[1] \in Names(ctx) /\ Had(f[1], f[2])
  <2>. SUFFICES ASSUME NEW f \in Listed(ctx) PROVE f[1] \in Names(ctx) /\ Had(f[1], f[2])
    OBVIOUS
  <2>1. PICK k \in DOMAIN ctx : \E j \in DOMAIN ctx[k] : f \in Own(ctx[k][j])
    BY DEF Listed, Own, Definitions
  <2>2. PICK j \in DOMAIN ctx[k] : f \in Own(ctx[k][j])
    BY <2>1
  <2>3. Has(methodMapping, f)
    BY <2>2 DEF MethodsInvariant, SelectorsKept, Visited
  <2>4. ctx[k][j] \in Definitions(ctx)
    BY ContextFacts DEF Typed
  <2>5. ListedUnder(ctx[k][j]) \subseteq Names(ctx)
    BY <2>4, NamesOf DEF ListedUnder, Both, InCategory
  <2>. QED
    BY <2>2, <2>3, <2>5, OwnFacts DEF Has, Had
<1>2. ASSUME NEW e \in subclassMapping
      PROVE  Superclass(e[2]) = e[1] /\ Superclass(e[2]) # None /\ e[2] \in Names(ctx)
  <2>1. PICK d \in Subclasses(ctx) : e \in SubclassEdges(d)
    BY DEF RecordsInvariant
  <2>2. d.super # None
    BY <2>1 DEF Subclasses
  <2>3. e = <<d.super, d.name>> \/ e = <<Meta(d.super), Meta(d.name)>>
    BY <2>1, <2>2 DEF SubclassEdges
  <2>4. Superclass(e[2]) = e[1]
    BY <2>3, SuperclassFacts DEF Typed
  <2>5. e[1] \in Names(ctx) /\ e[2] \in Names(ctx)
    BY DEF Typed, TypeOK
  <2>. QED
    BY <2>4, <2>5, SuperclassNames DEF Typed
<1>3. ASSUME NEW n, Superclass(n) # None
      PROVE  <<Superclass(n), n>> \in subclassMapping
  <2>1. PICK d \in Subclasses(ctx) : \/ n = d.name /\ Superclass(n) = d.super
                                     \/ n = Meta(d.name) /\ Superclass(n) = Meta(d.super)
    BY <1>3, SuperclassFacts DEF Typed
  <2>2. PICK k \in DOMAIN ctx : \E j \in DOMAIN ctx[k] : ctx[k][j] = d
    BY DEF Subclasses, ClassesOf, Definitions
  <2>3. Recorded(k, d) /\ d.kind = "class" /\ d.super # None
    BY <2>2 DEF RecordsInvariant, Visited, Subclasses, ClassesOf
  <2>. QED
    BY <2>1, <2>3 DEF Recorded, SubclassEdges
<1>4. \A n \in Names(ctx) : \A s :
        /\ NoHigher(n, s) => Responders(n, s) = Candidates(n, s)
        /\ ~NoHigher(n, s) => Responders(n, s) = Responders(Superclass(n), s)
  BY RespondersClimb DEF Typed
<1>5. \A f \in Listed(ctx) : f[3] \in Candidates(f[1], f[2])
  BY DEF Candidates
<1>6. \A n, s : Candidates(n, s) # {} => \E f \in Listed(ctx) : f[1] = n /\ f[2] = s
  BY DEF Candidates
<1>7. \A e \in methodMapping : e[1] \in Names(ctx) /\
        \/ e \in Listed(ctx)
        \/ /\ \A f \in Listed(ctx) : f[1] = e[1] => f[2] # e[2]
           /\ Superclass(e[1]) # None
           /\ <<Superclass(e[1]), e[2], e[3]>> \in methodMapping
  BY <1>1, <1>2 DEF MethodsInvariant, OwnOrInherited
<1>. DEFINE Wrong == {n \in Names(ctx) : \E e \in methodMapping :
                        e[1] = n /\ e[3] \notin Responders(e[1], e[2])}
            Missing == {n \in Names(ctx) : \E s : Responders(n, s) # {} /\ ~Had(n, s)}
<1>8. Wrong = {}
  <2>. SUFFICES ASSUME Wrong # {} PROVE FALSE
    OBVIOUS
  <2>1. PICK n \in Wrong : Superclass(n) \notin Wrong \/ Superclass(n) = None
    <3>. HIDE DEF Wrong
    <3>. QED
      BY SuperclassesEndForNames DEF Typed
  <2>2. PICK e \in methodMapping : e[1] = n /\ e[3] \notin Responders(n, e[2])
    BY <2>1
  <2>3. e \notin Listed(ctx)
    BY <1>4, <1>5, <2>1, <2>2 DEF NoHigher
  <2>4. /\ \A f \in Listed(ctx) : f[1] = n => f[2] # e[2]
        /\ Superclass(n) # None
        /\ <<Superclass(n), e[2], e[3]>> \in methodMapping
    BY <1>7, <2>2, <2>3
  <2>5. ~NoHigher(n, e[2])
    BY <1>6, <2>4 DEF NoHigher
  <2>6. Superclass(n) \in Names(ctx)
    BY <2>4, SuperclassNames DEF Typed
  <2>7. e[3] \in Responders(Superclass(n), e[2])
    BY <2>1, <2>4, <2>6
  <2>. QED
    BY <1>4, <2>1, <2>2, <2>5, <2>7
<1>9. Missing = {}
  <2>. SUFFICES ASSUME Missing # {} PROVE FALSE
    OBVIOUS
  <2>1. PICK n \in Missing : Superclass(n) \notin Missing \/ Superclass(n) = None
    <3>. HIDE DEF Missing
    <3>. QED
      BY SuperclassesEndForNames DEF Typed
  <2>2. PICK s : Responders(n, s) # {} /\ ~Had(n, s)
    BY <2>1
  <2>3. Candidates(n, s) = {}
    BY <1>1, <1>6, <2>2
  <2>4. ~NoHigher(n, s)
    BY <1>4, <2>1, <2>2, <2>3
  <2>5. Superclass(n) # None /\ Superclass(n) \in Names(ctx)
    BY <2>4, SuperclassNames DEF Typed, NoHigher
  <2>6. Had(Superclass(n), s)
    BY <1>4, <2>1, <2>2, <2>4, <2>5
  <2>7. Covered(<<Superclass(n), n>>)
    BY <1>3, <2>5 DEF DispatchInvariant
  <2>8. Had(<<Superclass(n), n>>[1], s) => Had(<<Superclass(n), n>>[2], s)
    BY <2>7 DEF Covered
  <2>. QED
    BY <2>2, <2>6, <2>8
<1>. QED
  BY <1>7, <1>8, <1>9

(* The bindings of a class are what it responds to: each selector once,    *)
(* with the nearest implementation, in whatever order the walks are made.  *)
THEOREM BindingsDispatch == Spec => []BindingsAreDispatch
<1>1. Typed /\ MethodsInvariant /\ RecordsInvariant /\ DispatchInvariant => BindingsAreDispatch
  <2>. SUFFICES ASSUME Typed, MethodsInvariant, RecordsInvariant, DispatchInvariant, phase = "done",
                       NEW class \in objcClasses, NEW n \in {class, Meta(class)}, NEW s
                PROVE  /\ Bound(n, s) \subseteq Responders(n, s)
                       /\ Cardinality(Bound(n, s)) = IF Responders(n, s) = {} THEN 0 ELSE 1
    BY DEF BindingsAreDispatch
  <2>. DEFINE bound == Bound(n, s)
  <2>1. n \in Names(ctx)
    <3>1. PICK k \in DOMAIN ctx : \E j \in DOMAIN ctx[k] : class \in Named(ctx[k][j])
      BY DEF RecordsInvariant
    <3>2. PICK d \in Definitions(ctx) : class \in Named(d) /\ WellFormed(d)
      BY <3>1, ContextFacts DEF Typed
    <3>3. {Target(d), Meta(Target(d))} \subseteq Names(ctx)
      BY NamesOf
    <3>4. CASE d.kind = "class"
      <4>1. Target(d) = d.name
        BY <3>4 DEF Target
      <4>2. class = d.name \/ (class = d.super /\ d.super # None)
        BY <3>2, <3>4 DEF Named
      <4>. QED
        BY <3>3, <3>4, <4>1, <4>2, NamesOf
    <3>5. CASE d.kind # "class"
      BY <3>2, <3>3, <3>5 DEF Named, Target
    <3>. QED
      BY <3>4, <3>5
  <2>2. /\ \A e \in methodMapping : e[3] \in Responders(e[1], e[2])
        /\ Responders(n, s) # {} => Had(n, s)
    BY <2>1, MethodsRespond
  <2>3. bound \subseteq Responders(n, s)
    BY <2>2 DEF DispatchInvariant, Bound
  <2>4. ASSUME Responders(n, s) # {} PROVE Cardinality(bound) = 1
    <3>1. PICK e \in methodMapping : e[1] = n /\ e[2] = s
      BY <2>2, <2>4 DEF Had
    <3>2. e \in bindings
      BY <3>1 DEF DispatchInvariant, Both
    <3>3. \A b \in bindings : b[1] = n /\ b[2] = s => b = e
      BY <3>1 DEF DispatchInvariant, MethodsInvariant, OneImplementation
    <3>4. bound = {e[3]}
      BY <3>1, <3>2, <3>3 DEF Bound
    <3>. QED
      BY <3>4, FS_Singleton
  <2>5. ASSUME Responders(n, s) = {} PROVE Cardinality(bound) = 0
    <3>1. bound = {}
      BY <2>3, <2>5
    <3>. QED
      BY <3>1, FS_EmptySet
  <2>. QED
    BY <2>3, <2>4, <2>5
<1>. QED
  BY <1>1, TypedInit, TypedNext, MethodsInit, MethodsNext, RecordsInit, RecordsNext,
     DispatchInit, DispatchNext, PTL DEF Spec

====
