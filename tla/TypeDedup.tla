----------------------------- MODULE TypeDedup -----------------------------
(***************************************************************************)
(* Type deduplication: CPGTypeEmitter::recordCanonicalStructNames and the  *)
(* comparison of types it rests on (lib/LLVMExt/TypeEquality.cpp).         *)
(*                                                                         *)
(* LLVM renames a struct that is declared in several modules: Foo, Foo.0,  *)
(* Foo.1 ... Structs are clustered by the part of the name before the dot, *)
(* each cluster is cut into classes of equal structs, and every class gets *)
(* a canonical name of its own.                                            *)
(*                                                                         *)
(* A context c is a record                                                 *)
(*   structs  the identified structs of all modules, in module order       *)
(*   base     llvm_ext::getCanonicalName of each: <<"Foo", <<>> >>, or     *)
(*            <<"Foo", <<1>> >> for a struct the program itself calls Foo_1*)
(*   body     Opaque, or the sequence of its elements; an element is       *)
(*            <<"int">>, <<"float">>, <<"ptr", s>> or <<"struct", s>>      *)
(***************************************************************************)
EXTENDS Integers, Sequences, FiniteSets

CONSTANTS TypeContexts,
          WalkBound       \* bound on the steps of one comparison

VARIABLES typeCtx, dedupPhase,
          clusters,       \* namedStructClusters: base -> sequence of structs
          name, cluster,  \* the pair of the outer loop
          it,             \* the first struct that is in no class yet
          i,              \* the struct to be collected, or to be named
          currentStruct, counter,
          canonicalNames

dedupVars ==
  <<typeCtx, dedupPhase, clusters, name, cluster, it, i, currentStruct, counter, canonicalNames>>

Opaque == << <<"opaque">> >>
StructsOf(c) == {c.structs[k] : k \in DOMAIN c.structs}

TypesIn(c) ==
  {<<"int">>, <<"float">>} \cup {<<kind, s>> : kind \in {"ptr", "struct"}, s \in StructsOf(c)}

ASSUME TypeContextsAssumption ==
  \A c \in TypeContexts :
    /\ c.structs \in Seq(StructsOf(c))
    /\ \A s \in StructsOf(c) : /\ c.base[s][2] \in Seq(Nat)
                               /\ c.body[s] = Opaque \/ c.body[s] \in Seq(TypesIn(c))

(* No walk is cut short: it meets every struct once, its elements, and what*)
(* the pointers among them point to.                                       *)
ASSUME BoundAssumption ==
  /\ WalkBound \in Nat
  /\ \A c \in TypeContexts : \E most \in 0 .. WalkBound :
       /\ \A s \in StructsOf(c) : c.body[s] # Opaque => Len(c.body[s]) <= most
       /\ (2 * most) * Len(c.structs) + 1 <= WalkBound

----------------------------------------------------------------------------
(***************************************************************************)
(* constructTypeVector: a pre-order walk with an explicit stack. A struct  *)
(* is written down as the number it got when the walk first met it, so     *)
(* that recursive types end; an opaque one as its base name. (What follows *)
(* from the symbols written, arities and zeros, is left out.) OneNumber    *)
(* forgets which struct it is that the walk meets again.                   *)
(***************************************************************************)
OneNumber(s, visited) ==
  IF \E k \in DOMAIN visited : visited[k] = s THEN Len(visited) ELSE Len(visited) + 1

NumberOf(s, visited) ==
  IF \E k \in DOMAIN visited : visited[k] = s
  THEN CHOOSE k \in DOMAIN visited : visited[k] = s ELSE Len(visited) + 1

IsNew(c, type, visited) ==
  /\ type[1] = "struct" /\ c.body[type[2]] # Opaque
  /\ NumberOf(type[2], visited) > Len(visited)

Symbol(c, type, visited) ==
  IF type[1] = "ptr" THEN <<"ptr">>
  ELSE IF type[1] # "struct" THEN type
  ELSE IF c.body[type[2]] = Opaque THEN <<"opaque", c.base[type[2]]>>
  ELSE <<"struct", Len(c.body[type[2]]), NumberOf(type[2], visited)>>

Pushed(c, type, visited) ==
  IF type[1] = "ptr" THEN << <<"struct", type[2]>> >>
  ELSE IF IsNew(c, type, visited) THEN c.body[type[2]] ELSE <<>>

Visit(c, w) ==
  LET type == Head(w.stack)
  IN [stack |-> Pushed(c, type, w.visited) \o Tail(w.stack),
      result |-> Append(w.result, Symbol(c, type, w.visited)),
      visited |-> IF IsNew(c, type, w.visited) THEN Append(w.visited, type[2]) ELSE w.visited]

TypeVector(c, s) ==
  LET walk[k \in 0 .. WalkBound] ==
        IF k = 0 THEN [stack |-> << <<"struct", s>> >>, result |-> <<>>, visited |-> <<>>]
        ELSE LET w == walk[k - 1] IN IF w.stack = <<>> THEN w ELSE Visit(c, w)
  IN walk[WalkBound]

(* TypesComparator::typesEqual compares hashes; the model has no collision.*)
TypesEqual(a, b) == TypeVector(typeCtx, a).result = TypeVector(typeCtx, b).result

----------------------------------------------------------------------------
DedupInit ==
  /\ typeCtx \in TypeContexts
  /\ dedupPhase = "collect"
  /\ clusters = [b \in {} |-> <<>>]
  /\ name = <<>> /\ cluster = <<>> /\ it = 1 /\ i = 1
  /\ currentStruct = 0 /\ counter = 0
  /\ canonicalNames = [s \in {} |-> <<>>]

Collected(b) == IF b \in DOMAIN clusters THEN clusters[b] ELSE <<>>

(* A cluster that leaves opaque structs aside may be empty.                *)
WithoutOpaque(list, s) == IF typeCtx.body[s] = Opaque THEN list ELSE Append(list, s)

ClusterWith(list, s) == Append(list, s)

CollectType ==
  /\ dedupPhase = "collect"
  /\ i \in DOMAIN typeCtx.structs
  /\ LET s == typeCtx.structs[i]
     IN clusters' = [b \in DOMAIN clusters \cup {typeCtx.base[s]} |->
                       IF b = typeCtx.base[s] THEN ClusterWith(Collected(b), s) ELSE clusters[b]]
  /\ i' = i + 1
  /\ UNCHANGED <<typeCtx, dedupPhase, name, cluster, it, currentStruct, counter, canonicalNames>>

EndCollect ==
  /\ dedupPhase = "collect"
  /\ i \notin DOMAIN typeCtx.structs
  /\ dedupPhase' = "cluster"
  /\ UNCHANGED <<typeCtx, clusters, name, cluster, it, i, currentStruct, counter, canonicalNames>>

(* The clusters are in an unordered_map: their order is the hash's.        *)
TakeCluster ==
  /\ dedupPhase = "cluster"
  /\ \E b \in DOMAIN clusters :
       /\ name' = b
       /\ cluster' = clusters[b]
       /\ clusters' = [c \in DOMAIN clusters \ {b} |-> clusters[c]]
  /\ it' = 1
  /\ dedupPhase' = "partition"
  /\ UNCHANGED <<typeCtx, i, currentStruct, counter, canonicalNames>>

RangeOf(s) == {s[k] : k \in DOMAIN s}

Arrangements(s) ==
  {t \in [DOMAIN s -> RangeOf(s)] : \A x \in RangeOf(s) : \E k \in DOMAIN t : t[k] = x}

(* std::partition may leave either part in any order; it returns where the *)
(* second begins.                                                          *)
EqualFirst(pivot, t, n) == \A k \in DOMAIN t : k <= n <=> TypesEqual(pivot, t[k])

Partition ==
  /\ dedupPhase = "partition"
  /\ it <= Len(cluster)
  /\ LET rest == SubSeq(cluster, it, Len(cluster))
     IN \E arranged \in Arrangements(rest), n \in DOMAIN rest :
          /\ EqualFirst(cluster[it], arranged, n)
          /\ cluster' = SubSeq(cluster, 1, it - 1) \o arranged
          /\ it' = it + n
  /\ UNCHANGED <<typeCtx, dedupPhase, clusters, name, i, currentStruct, counter, canonicalNames>>

(* CanonicalNameCounter::getName.                                          *)
GetName(n, count) == IF count = 0 THEN n ELSE <<n[1], Append(n[2], count)>>

GiveName(s, count) ==
  canonicalNames' = [t \in DOMAIN canonicalNames \cup {s} |->
                       IF t = s THEN GetName(name, count) ELSE canonicalNames[t]]

NameFirst ==
  /\ dedupPhase = "partition"
  /\ it > Len(cluster)
  /\ currentStruct' = cluster[1]
  /\ counter' = 0
  /\ GiveName(cluster[1], 0)
  /\ i' = 2
  /\ dedupPhase' = "name"
  /\ UNCHANGED <<typeCtx, clusters, name, cluster, it>>

(* A bump that leaves currentStruct on the first struct of the cluster.    *)
BumpOnly(s) ==
  /\ counter' = IF TypesEqual(currentStruct, s) THEN counter ELSE counter + 1
  /\ UNCHANGED currentStruct

Bump(s) ==
  IF TypesEqual(currentStruct, s) THEN UNCHANGED <<currentStruct, counter>>
  ELSE currentStruct' = s /\ counter' = counter + 1

NameNext ==
  /\ dedupPhase = "name"
  /\ i <= Len(cluster)
  /\ Bump(cluster[i])
  /\ GiveName(cluster[i], counter')
  /\ i' = i + 1
  /\ UNCHANGED <<typeCtx, dedupPhase, clusters, name, cluster, it>>

EndCluster ==
  /\ dedupPhase = "name"
  /\ i > Len(cluster)
  /\ dedupPhase' = "cluster"
  /\ UNCHANGED <<typeCtx, clusters, name, cluster, it, i, currentStruct, counter, canonicalNames>>

DedupNext ==
  \/ CollectType \/ EndCollect \/ TakeCluster \/ Partition \/ NameFirst \/ NameNext \/ EndCluster

DedupSpec == DedupInit /\ [][DedupNext]_dedupVars

Done == dedupPhase = "cluster" /\ clusters = [b \in {} |-> <<>>]

----------------------------------------------------------------------------
DedupTypeOK ==
  /\ dedupPhase \in {"collect", "cluster", "partition", "name"}
  /\ \A b \in DOMAIN clusters : clusters[b] \in Seq(StructsOf(typeCtx)) /\ clusters[b] # <<>>
  /\ cluster \in Seq(StructsOf(typeCtx))
  /\ it \in 1 .. Len(cluster) + 1
  /\ i \in Nat \ {0}
  /\ dedupPhase = "name" => i \in 2 .. Len(cluster) + 1 /\ currentStruct \in StructsOf(typeCtx)
  /\ counter \in Nat /\ (dedupPhase = "name" => counter <= i - 2)
  /\ DOMAIN canonicalNames \subseteq StructsOf(typeCtx)

(* Every struct gets a canonical name (CPGTypeEmitter.cpp:47 asserts it),  *)
(* and of the structs the program calls the same, exactly the equal ones   *)
(* share it, however std::partition arranges them.                         *)
NamesFollowEquality ==
  Done =>
    /\ DOMAIN canonicalNames = StructsOf(typeCtx)
    /\ \A a, b \in StructsOf(typeCtx) : typeCtx.base[a] = typeCtx.base[b] =>
         (canonicalNames[a] = canonicalNames[b] <=> TypesEqual(a, b))

(***************************************************************************)
(* What docs/design_considerations.md calls structural equality: the       *)
(* structs reachable from one correspond one to one to those reachable     *)
(* from the other, with the same elements in the same places; opaque ones  *)
(* correspond by their base name.                                          *)
(***************************************************************************)
Points(c, s) ==
  {t \in StructsOf(c) : \E k \in DOMAIN c.body[s] :
     c.body[s][k] \in {<<"ptr", t>>, <<"struct", t>>}}

ReachableStructs(c, s) ==
  {t \in StructsOf(c) : \A S \in SUBSET StructsOf(c) :
     s \in S /\ (\A u \in S : Points(c, u) \subseteq S) => t \in S}

Corresponds(c, f, s) ==
  LET a == c.body[s]
      b == c.body[f[s]]
  IN IF a = Opaque \/ b = Opaque THEN a = b /\ c.base[s] = c.base[f[s]]
     ELSE /\ Len(a) = Len(b)
          /\ \A k \in DOMAIN a :
               /\ a[k][1] = b[k][1]
               /\ Len(a[k]) = 2 => f[a[k][2]] = b[k][2] \/
                    (c.body[a[k][2]] = Opaque /\ c.body[b[k][2]] = Opaque
                       /\ c.base[a[k][2]] = c.base[b[k][2]])

Isomorphic(c, a, b) ==
  \E f \in [ReachableStructs(c, a) -> ReachableStructs(c, b)] :
    /\ f[a] = b
    /\ \A s \in ReachableStructs(c, a) : Corresponds(c, f, s)
    /\ \A s, t \in ReachableStructs(c, a) :
         c.body[s] # Opaque /\ f[s] = f[t] => s = t

(* The vectors of two structs are equal just when the structs are, with    *)
(* recursion through pointers, shared parts and opaque structs: nothing is *)
(* merged that differs, and a copy of a type in another module is found.   *)
EqualIsIsomorphic ==
  dedupPhase = "collect" /\ i = 1 =>
    \A a, b \in StructsOf(typeCtx) :
      /\ TypeVector(typeCtx, a).stack = <<>>
      /\ TypesEqual(a, b) <=> Isomorphic(typeCtx, a, b)

(* CPGTypeEmitter.cpp:305-308: structs of a different layout are emitted   *)
(* under different names, "to distinguish the types".                      *)
DifferentLayoutsDifferentNames ==
  Done => \A a, b \in StructsOf(typeCtx) :
            canonicalNames[a] = canonicalNames[b] => TypesEqual(a, b)

=============================================================================
