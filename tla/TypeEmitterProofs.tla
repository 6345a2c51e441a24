-------------------------- MODULE TypeEmitterProofs --------------------------
(***************************************************************************)
(* The names CPGTypeEmitter gives, for every context of any size.          *)
(*                                                                         *)
(* Structs, whatever std::partition does: the types of TypeDedup, that     *)
(* names follow the comparison of types (of which only that it is an       *)
(* equivalence matters there), and that the comparison finds exactly the   *)
(* structs that are isomorphic.                                            *)
(*                                                                         *)
(* Members: the types of StructMembers, that the walk over the debug types *)
(* of a module meets exactly those the module's variables and functions    *)
(* lead to, each once, that no list of names is used for a struct of       *)
(* another size, that each name has its members declared once and in       *)
(* order, and that an access to a field bears the name of a member.        *)
(***************************************************************************)
EXTENDS TypeDedup, StructMembers, SequenceTheorems, FiniteSetTheorems,
        WellFoundedInduction, TLAPS

LEMMA TypeContextFacts ==
  ASSUME typeCtx \in TypeContexts
  PROVE  /\ typeCtx.structs \in Seq(StructsOf(typeCtx)) /\ Len(typeCtx.structs) \in Nat
         /\ DOMAIN typeCtx.structs = 1 .. Len(typeCtx.structs)
         /\ \A k \in DOMAIN typeCtx.structs : typeCtx.structs[k] \in StructsOf(typeCtx)
         /\ \A s \in StructsOf(typeCtx) : \E k \in DOMAIN typeCtx.structs : typeCtx.structs[k] = s
<1>1. typeCtx.structs \in Seq(StructsOf(typeCtx))
  BY TypeContextsAssumption
<1>2. /\ \A k \in DOMAIN typeCtx.structs : typeCtx.structs[k] \in StructsOf(typeCtx)
      /\ \A s \in StructsOf(typeCtx) : \E k \in DOMAIN typeCtx.structs : typeCtx.structs[k] = s
  BY DEF StructsOf
<1>. QED
  BY <1>1, <1>2, LenProperties

(* The classes of the comparison.                                          *)
Class(s) == TypeVector(typeCtx, s).result

LEMMA EqualByClass == \A a, b : TypesEqual(a, b) <=> Class(a) = Class(b)
BY DEF TypesEqual, Class

(* Numbers make different names.                                           *)
LEMMA NamesDiffer ==
  ASSUME NEW n, n[2] \in Seq(Nat), NEW c \in Nat, NEW d \in Nat, GetName(n, c) = GetName(n, d)
  PROVE  c = d
<1>1. \A e \in Nat : Append(n[2], e) # n[2] /\ Append(n[2], e)[Len(n[2]) + 1] = e
  OBVIOUS
<1>2. \A e \in Nat \ {0} : GetName(n, e)[2] = Append(n[2], e)
  BY DEF GetName
<1>3. GetName(n, 0)[2] = n[2]
  BY DEF GetName
<1>. QED
  BY <1>1, <1>2, <1>3

----------------------------------------------------------------------------
(***************************************************************************)
(* Types: no cluster is empty, and the structs of a cluster have its name. *)
(***************************************************************************)
ClusterOf(c, b) == c \in Seq(StructsOf(typeCtx)) /\ \A k \in DOMAIN c : typeCtx.base[c[k]] = b

Typed ==
  /\ typeCtx \in TypeContexts
  /\ DedupTypeOK
  /\ \A b \in DOMAIN clusters : ClusterOf(clusters[b], b)
  /\ dedupPhase \in {"partition", "name"} => ClusterOf(cluster, name) /\ cluster # <<>>

LEMMA TypedInit == DedupInit => Typed
<1>. SUFFICES ASSUME DedupInit PROVE Typed
  OBVIOUS
<1>1. cluster \in Seq(StructsOf(typeCtx)) /\ DOMAIN canonicalNames = {}
  BY DEF DedupInit
<1>. QED
  BY <1>1 DEF DedupInit, Typed, DedupTypeOK, ClusterOf

(* What a step of std::partition does to the cluster.                      *)
LEMMA PartitionFacts ==
  ASSUME Typed, Partition
  PROVE  /\ cluster' \in Seq(StructsOf(typeCtx)) /\ Len(cluster') = Len(cluster)
         /\ it' \in it + 1 .. Len(cluster) + 1
         /\ \A k \in 1 .. it - 1 : cluster'[k] = cluster[k]
         /\ \A k \in it .. Len(cluster) :
              /\ \E l \in it .. Len(cluster) : cluster'[k] = cluster[l]
              /\ k < it' <=> Class(cluster'[k]) = Class(cluster[it])
         /\ \A l \in it .. Len(cluster) : \E k \in it .. Len(cluster) : cluster'[k] = cluster[l]
<1>. DEFINE N == Len(cluster)
            S == StructsOf(typeCtx)
            rest == SubSeq(cluster, it, N)
            front == SubSeq(cluster, 1, it - 1)
<1>1. cluster \in Seq(S) /\ N \in Nat /\ it \in 1 .. N
  BY DEF Partition, Typed, DedupTypeOK
<1>2. PICK arranged \in Arrangements(rest), n \in DOMAIN rest :
        /\ EqualFirst(cluster[it], arranged, n)
        /\ cluster' = front \o arranged
        /\ it' = it + n
  BY DEF Partition
<1>. HIDE DEF S
<1>3. /\ rest \in Seq(S) /\ Len(rest) = N - it + 1 /\ DOMAIN rest = 1 .. N - it + 1
      /\ \A k \in 1 .. N - it + 1 : rest[k] = cluster[it + k - 1]
  BY <1>1
<1>4. /\ front \in Seq(S) /\ Len(front) = it - 1
      /\ \A k \in 1 .. it - 1 : front[k] = cluster[k]
  BY <1>1
<1>. HIDE DEF rest, front, N
<1>5. /\ arranged \in [1 .. N - it + 1 -> RangeOf(rest)]
      /\ \A x \in RangeOf(rest) : \E k \in 1 .. N - it + 1 : arranged[k] = x
  BY <1>2, <1>3 DEF Arrangements
<1>6. RangeOf(rest) \subseteq S
  BY <1>3 DEF RangeOf
<1>7. arranged \in Seq(S) /\ Len(arranged) = N - it + 1
  BY <1>1, <1>5, <1>6
<1>8. /\ cluster' \in Seq(S) /\ Len(cluster') = N
      /\ \A k \in 1 .. it - 1 : cluster'[k] = front[k]
      /\ \A k \in 1 .. N - it + 1 : cluster'[it - 1 + k] = arranged[k]
  <2>1. /\ front \o arranged \in Seq(S) /\ Len(front \o arranged) = Len(front) + Len(arranged)
        /\ \A k \in 1 .. Len(front) : (front \o arranged)[k] = front[k]
        /\ \A k \in 1 .. Len(arranged) : (front \o arranged)[Len(front) + k] = arranged[k]
    <3>1. front \in Seq(S) /\ arranged \in Seq(S)
      BY <1>4, <1>7
    <3>. QED
      BY <3>1
  <2>. QED
    BY <1>1, <1>2, <1>4, <1>7, <2>1
<1>9. \A k \in it .. N : k - it + 1 \in 1 .. N - it + 1 /\ cluster'[k] = arranged[k - it + 1]
  <2>. SUFFICES ASSUME NEW k \in it .. N
                PROVE  k - it + 1 \in 1 .. N - it + 1 /\ cluster'[k] = arranged[k - it + 1]
    OBVIOUS
  <2>1. PICK j \in 1 .. N - it + 1 : j = k - it + 1 /\ it - 1 + j = k
    BY <1>1
  <2>2. cluster'[it - 1 + j] = arranged[j]
    BY <1>8
  <2>. QED
    BY <2>1, <2>2
<1>10. \A x : x \in RangeOf(rest) <=> \E l \in it .. N : x = cluster[l]
  <2>1. ASSUME NEW x, x \in RangeOf(rest) PROVE \E l \in it .. N : x = cluster[l]
    <3>1. PICK k \in 1 .. N - it + 1 : x = rest[k]
      BY <1>3, <2>1 DEF RangeOf
    <3>2. it + k - 1 \in it .. N
      BY <1>1
    <3>. QED
      BY <1>3, <3>1, <3>2
  <2>2. ASSUME NEW l \in it .. N PROVE cluster[l] \in RangeOf(rest)
    <3>1. l - it + 1 \in 1 .. N - it + 1 /\ rest[l - it + 1] = cluster[l]
      BY <1>1, <1>3
    <3>. QED
      BY <1>3, <3>1 DEF RangeOf
  <2>. QED
    BY <2>1, <2>2
<1>11. \A k \in it .. N : \E l \in it .. N : cluster'[k] = cluster[l]
  BY <1>5, <1>9, <1>10
<1>12. ASSUME NEW l \in it .. N PROVE \E k \in it .. N : cluster'[k] = cluster[l]
  <2>1. PICK k \in 1 .. N - it + 1 : arranged[k] = cluster[l]
    BY <1>5, <1>10
  <2>2. it - 1 + k \in it .. N
    BY <1>1
  <2>. QED
    BY <1>8, <2>1, <2>2
<1>13. it' \in it + 1 .. N + 1
  BY <1>1, <1>2, <1>3
<1>14. ASSUME NEW k \in it .. N PROVE k < it' <=> Class(cluster'[k]) = Class(cluster[it])
  <2>. DEFINE j == k - it + 1
  <2>1. j \in DOMAIN arranged /\ cluster'[k] = arranged[j]
    BY <1>5, <1>9
  <2>2. j <= n <=> Class(arranged[j]) = Class(cluster[it])
    BY <1>2, <2>1, EqualByClass DEF EqualFirst
  <2>3. j <= n <=> k < it'
    BY <1>1, <1>2, <1>3
  <2>. QED
    BY <2>1, <2>2, <2>3
<1>. QED
  BY <1>4, <1>8, <1>11, <1>12, <1>13, <1>14 DEF N, S

LEMMA TypedNext == Typed /\ [DedupNext]_dedupVars => Typed'
<1>. SUFFICES ASSUME Typed, [DedupNext]_dedupVars PROVE Typed'
  OBVIOUS
<1>. DEFINE S == StructsOf(typeCtx)
<1>1. CASE CollectType
  <2>. DEFINE s == typeCtx.structs[i]
              new == Append(Collected(typeCtx.base[s]), s)
  <2>1. s \in S
    BY <1>1, TypeContextFacts DEF CollectType, Typed
  <2>2. Collected(typeCtx.base[s]) \in Seq(S)
    BY DEF Collected, Typed, DedupTypeOK
  <2>3. new \in Seq(S) /\ new # <<>>
    <3>. HIDE DEF S, s
    <3>. QED
      BY <2>1, <2>2
  <2>4. \A k \in DOMAIN new : typeCtx.base[new[k]] = typeCtx.base[s]
    <3>1. \A k \in DOMAIN Collected(typeCtx.base[s]) : typeCtx.base[Collected(typeCtx.base[s])[k]] = typeCtx.base[s]
      BY DEF Collected, Typed, ClusterOf
    <3>. HIDE DEF S, s
    <3>2. \A k \in DOMAIN new :
            \/ k \in DOMAIN Collected(typeCtx.base[s]) /\ new[k] = Collected(typeCtx.base[s])[k]
            \/ new[k] = s
      BY <2>1, <2>2
    <3>. QED
      BY <3>1, <3>2
  <2>5. /\ clusters' = [b \in DOMAIN clusters \cup {typeCtx.base[s]} |-> IF b = typeCtx.base[s] THEN new ELSE clusters[b]]
        /\ i' = i + 1 /\ dedupPhase = "collect"
        /\ UNCHANGED <<typeCtx, dedupPhase, name, cluster, it, currentStruct, counter, canonicalNames>>
    BY <1>1 DEF CollectType, ClusterWith
  <2>. HIDE DEF s, new
  <2>6. \A b \in DOMAIN clusters' : ClusterOf(clusters'[b], b) /\ clusters'[b] # <<>>
    BY <2>3, <2>4, <2>5 DEF Typed, DedupTypeOK, ClusterOf
  <2>7. typeCtx' = typeCtx /\ dedupPhase' = dedupPhase /\ UNCHANGED <<cluster, it, currentStruct, counter, canonicalNames, name>>
    BY <2>5
  <2>8. (\A b \in DOMAIN clusters : ClusterOf(clusters[b], b) /\ clusters[b] # <<>>)'
    BY <2>6, <2>7 DEF ClusterOf
  <2>9. i' \in Nat \ {0} /\ dedupPhase = "collect"
    BY <2>5 DEF Typed, DedupTypeOK
  <2>. QED
    BY <2>7, <2>8, <2>9 DEF Typed, DedupTypeOK, ClusterOf
<1>2. CASE EndCollect
  BY <1>2 DEF EndCollect, Typed, DedupTypeOK, ClusterOf
<1>3. CASE TakeCluster
  <2>1. PICK b \in DOMAIN clusters : /\ name' = b /\ cluster' = clusters[b]
                                     /\ clusters' = [c \in DOMAIN clusters \ {b} |-> clusters[c]]
    BY <1>3 DEF TakeCluster
  <2>2. ClusterOf(clusters[b], b) /\ clusters[b] # <<>>
    BY DEF Typed, DedupTypeOK
  <2>3. 1 \in 1 .. Len(clusters[b]) + 1
    BY <2>2 DEF ClusterOf
  <2>. QED
    BY <1>3, <2>1, <2>2, <2>3 DEF TakeCluster, Typed, DedupTypeOK, ClusterOf
<1>4. CASE Partition
  <2>. DEFINE N == Len(cluster)
  <2>1. N \in Nat /\ DOMAIN cluster = 1 .. N /\ it \in 1 .. N
    BY <1>4 DEF Partition, Typed, DedupTypeOK
  <2>2. cluster' \in Seq(S) /\ Len(cluster') = N /\ it' \in it + 1 .. N + 1
    BY <1>4, PartitionFacts
  <2>3. DOMAIN cluster' = 1 .. N /\ cluster' # <<>> /\ it' \in 1 .. Len(cluster') + 1
    BY <2>1, <2>2
  <2>4. \A k \in 1 .. N : \E l \in 1 .. N : cluster'[k] = cluster[l]
    <3>1. \A k \in 1 .. it - 1 : cluster'[k] = cluster[k]
      BY <1>4, PartitionFacts
    <3>2. \A k \in it .. N : \E l \in it .. N : cluster'[k] = cluster[l]
      BY <1>4, PartitionFacts
    <3>. QED
      BY <2>1, <3>1, <3>2
  <2>5. \A k \in 1 .. N : typeCtx.base[cluster[k]] = name
    BY <1>4, <2>1 DEF Partition, Typed, ClusterOf
  <2>6. \A k \in DOMAIN cluster' : typeCtx.base[cluster'[k]] = name
    BY <2>3, <2>4, <2>5
  <2>. QED
    BY <1>4, <2>2, <2>3, <2>6 DEF Partition, Typed, DedupTypeOK, ClusterOf
<1>5. CASE NameFirst
  <2>1. Len(cluster) \in Nat \ {0} /\ cluster[1] \in S
    BY <1>5 DEF NameFirst, Typed, DedupTypeOK
  <2>. QED
    BY <1>5, <2>1 DEF NameFirst, GiveName, Typed, DedupTypeOK, ClusterOf
<1>6. CASE NameNext
  <2>1. cluster[i] \in S /\ i \in 2 .. Len(cluster) /\ Len(cluster) \in Nat
    BY <1>6 DEF NameNext, Typed, DedupTypeOK
  <2>2. currentStruct' \in S /\ counter' \in Nat /\ counter' <= counter + 1
    BY <1>6, <2>1 DEF NameNext, Bump, Typed, DedupTypeOK
  <2>. QED
    BY <1>6, <2>1, <2>2 DEF NameNext, GiveName, Typed, DedupTypeOK, ClusterOf
<1>7. CASE EndCluster
  BY <1>7 DEF EndCluster, Typed, DedupTypeOK, ClusterOf
<1>8. CASE UNCHANGED dedupVars
  BY <1>8 DEF dedupVars, Typed, DedupTypeOK, ClusterOf
<1>. QED
  BY <1>1, <1>2, <1>3, <1>4, <1>5, <1>6, <1>7, <1>8 DEF DedupNext

(* Type correctness of every reachable state.                              *)
THEOREM DedupTypeCorrect == DedupSpec => []DedupTypeOK
<1>1. Typed => DedupTypeOK
  BY DEF Typed
<1>. QED
  BY <1>1, TypedInit, TypedNext, PTL DEF DedupSpec

----------------------------------------------------------------------------
(***************************************************************************)
(* Naming. Partitioning puts equal structs next to each other, so that one *)
(* look back at the current struct is enough to tell a new class.          *)
(***************************************************************************)
Grouped(K, n) == \A a, b, c \in 1 .. n : a < b /\ b < c /\ K[a] = K[c] => K[b] = K[c]
Apart(K, t, n) == \A a \in 1 .. t - 1, c \in t .. n : K[a] # K[c]

(* One more group, of those equal to the first that is in none.            *)
LEMMA GroupOnTop ==
  ASSUME NEW n \in Nat, NEW t \in 1 .. n, NEW u \in t + 1 .. n + 1, NEW K, NEW L,
         Apart(K, t, n), Grouped(K, t - 1),
         \A k \in 1 .. t - 1 : L[k] = K[k],
         \A k \in t .. n : (\E l \in t .. n : L[k] = K[l]) /\ (k < u <=> L[k] = K[t])
  PROVE  Apart(L, u, n) /\ Grouped(L, u - 1)
<1>1. \A a \in 1 .. t - 1, c \in t .. n : L[a] # L[c]
  BY DEF Apart
<1>2. Apart(L, u, n)
  <2>. SUFFICES ASSUME NEW a \in 1 .. u - 1, NEW c \in u .. n PROVE L[a] # L[c]
    BY DEF Apart
  <2>1. CASE a < t
    BY <1>1, <2>1
  <2>2. CASE a >= t
    BY <2>2
  <2>. QED
    BY <2>1, <2>2
<1>3. Grouped(L, u - 1)
  <2>. SUFFICES ASSUME NEW a \in 1 .. u - 1, NEW b \in 1 .. u - 1, NEW c \in 1 .. u - 1,
                       a < b, b < c, L[a] = L[c]
                PROVE  L[b] = L[c]
    BY DEF Grouped
  <2>1. CASE c < t
    BY <2>1 DEF Grouped
  <2>2. CASE c >= t
    <3>1. a >= t
      BY <1>1, <2>2
    <3>. QED
      BY <2>2, <3>1
  <2>. QED
    BY <2>1, <2>2
<1>. QED
  BY <1>2, <1>3

Classes == [k \in DOMAIN cluster |-> Class(cluster[k])]

Partitioned ==
  /\ dedupPhase = "partition" => Grouped(Classes, it - 1) /\ Apart(Classes, it, Len(cluster))
  /\ dedupPhase = "name" => Grouped(Classes, Len(cluster))

LEMMA SameClasses ==
  ASSUME UNCHANGED <<typeCtx, cluster>>
  PROVE  Classes' = Classes
BY DEF Classes, Class

LEMMA PartitionKeeps == Typed /\ Partitioned /\ [DedupNext]_dedupVars => Partitioned'
<1>. SUFFICES ASSUME Typed, Partitioned, [DedupNext]_dedupVars PROVE Partitioned'
  OBVIOUS
<1>1. CASE CollectType \/ EndCollect \/ EndCluster
  BY <1>1 DEF CollectType, EndCollect, EndCluster, Partitioned
<1>2. CASE TakeCluster
  BY <1>2 DEF TakeCluster, Partitioned, Grouped, Apart
<1>3. CASE Partition
  <2>. DEFINE N == Len(cluster)
  <2>1. /\ it \in 1 .. N /\ N \in Nat /\ DOMAIN cluster = 1 .. N
        /\ dedupPhase = "partition" /\ dedupPhase' = dedupPhase /\ typeCtx' = typeCtx
    BY <1>3 DEF Partition, Typed, DedupTypeOK
  <2>2. it' \in it + 1 .. N + 1 /\ Len(cluster') = N /\ DOMAIN cluster' = 1 .. N
    <3>1. it' \in it + 1 .. N + 1 /\ Len(cluster') = N /\ cluster' \in Seq(StructsOf(typeCtx))
      BY <1>3, PartitionFacts
    <3>. QED
      BY <3>1
  <2>3. /\ \A k \in 1 .. N : Classes[k] = Class(cluster[k])
        /\ \A k \in 1 .. N : Classes'[k] = Class(cluster'[k])
    BY <2>1, <2>2 DEF Classes, Class
  <2>4. \A k \in 1 .. it - 1 : Classes'[k] = Classes[k]
    <3>1. \A k \in 1 .. it - 1 : cluster'[k] = cluster[k]
      BY <1>3, PartitionFacts
    <3>. QED
      BY <2>1, <2>3, <3>1
  <2>5. ASSUME NEW k \in it .. N
        PROVE  (\E l \in it .. N : Classes'[k] = Classes[l]) /\ (k < it' <=> Classes'[k] = Classes[it])
    <3>1. PICK l \in it .. N : cluster'[k] = cluster[l]
      BY <1>3, PartitionFacts
    <3>2. k < it' <=> Class(cluster'[k]) = Class(cluster[it])
      BY <1>3, PartitionFacts
    <3>. QED
      BY <2>1, <2>3, <3>1, <3>2
  <2>6. Apart(Classes, it, N) /\ Grouped(Classes, it - 1)
    BY <2>1 DEF Partitioned
  <2>7. \A L : /\ \A k \in 1 .. it - 1 : L[k] = Classes[k]
               /\ \A k \in it .. N : (\E l \in it .. N : L[k] = Classes[l]) /\ (k < it' <=> L[k] = Classes[it])
               => Apart(L, it', N) /\ Grouped(L, it' - 1)
    BY <2>1, <2>2, <2>6, GroupOnTop
  <2>8. Apart(Classes', it', N) /\ Grouped(Classes', it' - 1)
    BY <2>4, <2>5, <2>7
  <2>. QED
    BY <2>1, <2>2, <2>8 DEF Partitioned, Apart, Grouped
<1>4. CASE NameFirst
  <2>1. it - 1 = Len(cluster)
    BY <1>4 DEF NameFirst, Typed, DedupTypeOK
  <2>. QED
    BY <1>4, <2>1, SameClasses DEF NameFirst, Partitioned, Grouped
<1>5. CASE NameNext
  BY <1>5, SameClasses DEF NameNext, Partitioned, Grouped
<1>6. CASE UNCHANGED dedupVars
  BY <1>6, SameClasses DEF dedupVars, Partitioned, Grouped, Apart
<1>. QED
  BY <1>1, <1>2, <1>3, <1>4, <1>5, <1>6 DEF DedupNext

----------------------------------------------------------------------------
(* m names given with the numbers up to c, c the number of the last class. *)
Numbered(names, K, m, c, b) ==
  /\ \A j \in 1 .. m : \E n \in 0 .. c : names[j] = GetName(b, n) /\ (n = c <=> K[j] = K[m])
  /\ \A j, k \in 1 .. m : names[j] = names[k] <=> K[j] = K[k]

LEMMA NumberNext ==
  ASSUME NEW m \in Nat \ {0}, NEW c \in Nat, NEW b, b[2] \in Seq(Nat), NEW names, NEW K, NEW new,
         Numbered(names, K, m, c, b), Grouped(K, m + 1),
         NEW d, d = IF K[m] = K[m + 1] THEN c ELSE c + 1,
         \A j \in 1 .. m : new[j] = names[j], new[m + 1] = GetName(b, d)
  PROVE  Numbered(new, K, m + 1, d, b)
<1>1. \A e, f \in Nat : GetName(b, e) = GetName(b, f) <=> e = f
  BY NamesDiffer
<1>2. \A j \in 1 .. m : K[j] = K[m + 1] => K[m] = K[m + 1]
  <2>. SUFFICES ASSUME NEW j \in 1 .. m, K[j] = K[m + 1] PROVE K[m] = K[m + 1]
    OBVIOUS
  <2>1. CASE j = m
    BY <2>1
  <2>2. CASE j # m
    <3>1. j < m /\ m < m + 1 /\ j \in 1 .. m + 1 /\ m \in 1 .. m + 1 /\ m + 1 \in 1 .. m + 1
      BY <2>2
    <3>. QED
      BY <3>1 DEF Grouped
  <2>. QED
    BY <2>1, <2>2
<1>3. ASSUME NEW j \in 1 .. m
      PROVE  \E n \in 0 .. d : new[j] = GetName(b, n) /\ (n = d <=> K[j] = K[m + 1])
  <2>1. PICK n \in 0 .. c : names[j] = GetName(b, n) /\ (n = c <=> K[j] = K[m])
    BY DEF Numbered
  <2>2. CASE K[m] = K[m + 1]
    BY <2>1, <2>2
  <2>3. CASE K[m] # K[m + 1]
    <3>1. K[j] # K[m + 1] /\ d = c + 1 /\ n \in 0 .. d /\ n # d
      BY <1>2, <2>3
    <3>. QED
      BY <2>1, <3>1
  <2>. QED
    BY <2>2, <2>3
<1>4. \A j \in 1 .. m + 1 : \E n \in 0 .. d : new[j] = GetName(b, n) /\ (n = d <=> K[j] = K[m + 1])
  <2>1. d \in 0 .. d
    OBVIOUS
  <2>2. \A j \in 1 .. m + 1 : j \in 1 .. m \/ j = m + 1
    OBVIOUS
  <2>. QED
    BY <1>3, <2>1, <2>2
<1>5. \A j \in 1 .. m : new[j] = new[m + 1] <=> K[j] = K[m + 1]
  BY <1>1, <1>3
<1>6. \A j, k \in 1 .. m : new[j] = new[k] <=> K[j] = K[k]
  BY DEF Numbered
<1>7. \A j, k \in 1 .. m + 1 : new[j] = new[k] <=> K[j] = K[k]
  <2>1. \A j \in 1 .. m + 1 : j \in 1 .. m \/ j = m + 1
    OBVIOUS
  <2>. QED
    BY <1>5, <1>6, <2>1
<1>. QED
  BY <1>4, <1>7 DEF Numbered

Listed(c, s) == \E k \in DOMAIN c : c[k] = s

Waiting(s) == typeCtx.base[s] \in DOMAIN clusters /\ Listed(clusters[typeCtx.base[s]], s)

(* No struct is lost on the way, and a cluster is named once.              *)
Located ==
  /\ dedupPhase = "collect" =>
       /\ \A k \in DOMAIN typeCtx.structs : k < i => Waiting(typeCtx.structs[k])
       /\ DOMAIN canonicalNames = {}
  /\ dedupPhase # "collect" =>
       \A s \in StructsOf(typeCtx) :
         \/ s \in DOMAIN canonicalNames
         \/ Waiting(s)
         \/ dedupPhase = "partition" /\ Listed(cluster, s)
         \/ dedupPhase = "name" /\ \E k \in i .. Len(cluster) : cluster[k] = s
  /\ \A s \in DOMAIN canonicalNames : typeCtx.base[s] \notin DOMAIN clusters
  /\ dedupPhase \in {"partition", "name"} => name \notin DOMAIN clusters
  /\ dedupPhase = "partition" => \A s \in DOMAIN canonicalNames : typeCtx.base[s] # name
  /\ dedupPhase = "name" =>
       \A s \in DOMAIN canonicalNames :
         typeCtx.base[s] = name => \E j \in 1 .. i - 1 : cluster[j] = s

LEMMA LocatedInit == DedupInit => Located
<1>. SUFFICES ASSUME DedupInit PROVE Located
  OBVIOUS
<1>1. DOMAIN canonicalNames = {} /\ \A k \in DOMAIN typeCtx.structs : ~(k < i)
  BY TypeContextFacts DEF DedupInit
<1>. QED
  BY <1>1 DEF DedupInit, Located

LEMMA LocatedNext == Typed /\ Located /\ [DedupNext]_dedupVars => Located'
<1>. SUFFICES ASSUME Typed, Located, [DedupNext]_dedupVars PROVE Located'
  OBVIOUS
<1>1. CASE CollectType
  <2>. DEFINE x == typeCtx.structs[i]
              b == typeCtx.base[x]
              new == Append(Collected(b), x)
  <2>1. /\ clusters' = [c \in DOMAIN clusters \cup {b} |-> IF c = b THEN new ELSE clusters[c]]
        /\ i' = i + 1 /\ dedupPhase = "collect" /\ UNCHANGED <<typeCtx, dedupPhase, canonicalNames>>
        /\ i \in DOMAIN typeCtx.structs
    BY <1>1 DEF CollectType, ClusterWith
  <2>2. x \in StructsOf(typeCtx) /\ Collected(b) \in Seq(StructsOf(typeCtx))
    BY <2>1, TypeContextFacts DEF Collected, Typed, DedupTypeOK
  <2>3. Listed(new, x) /\ \A s : Listed(Collected(b), s) => Listed(new, s)
    <3>. HIDE DEF x, b
    <3>1. Len(Collected(b)) + 1 \in DOMAIN new /\ new[Len(Collected(b)) + 1] = x
      BY <2>2
    <3>2. \A k \in DOMAIN Collected(b) : k \in DOMAIN new /\ new[k] = Collected(b)[k]
      BY <2>2
    <3>. QED
      BY <3>1, <3>2 DEF Listed
  <2>4. \A s : Waiting(s) => Waiting(s)'
    <3>. SUFFICES ASSUME NEW s, Waiting(s) PROVE Waiting(s)'
      OBVIOUS
    <3>1. CASE typeCtx.base[s] = b
      <4>1. Listed(Collected(b), s)
        BY <3>1 DEF Waiting, Collected
      <4>. HIDE DEF new
      <4>. QED
        BY <2>1, <2>3, <3>1, <4>1 DEF Waiting, Listed
    <3>2. CASE typeCtx.base[s] # b
      <4>. HIDE DEF new, b
      <4>. QED
        BY <2>1, <3>2 DEF Waiting, Listed
    <3>. QED
      BY <3>1, <3>2
  <2>5. \A s : s = x => Waiting(s)'
    <3>. HIDE DEF new
    <3>. QED
      BY <2>1, <2>3 DEF Waiting, Listed
  <2>. HIDE DEF new, b
  <2>6. ASSUME NEW k \in DOMAIN typeCtx.structs, k < i + 1 PROVE Waiting(typeCtx.structs[k])'
    <3>1. \A s : s = typeCtx.structs[k] => Waiting(s)'
      <4>1. CASE k < i
        BY <2>1, <2>4, <4>1 DEF Located
      <4>2. CASE k = i
        BY <2>5, <4>2
      <4>. QED
        BY <2>1, <2>6, <4>1, <4>2, TypeContextFacts DEF Typed
    <3>. QED
      BY <2>1, <3>1 DEF Waiting, Listed
  <2>. QED
    BY <2>1, <2>6 DEF Located, Waiting, Listed
<1>2. CASE EndCollect
  <2>1. \A s \in StructsOf(typeCtx) : Waiting(s)
    <3>. SUFFICES ASSUME NEW s \in StructsOf(typeCtx) PROVE Waiting(s)
      OBVIOUS
    <3>1. PICK k \in DOMAIN typeCtx.structs : typeCtx.structs[k] = s
      BY TypeContextFacts DEF Typed
    <3>2. k < i
      BY <1>2, TypeContextFacts DEF EndCollect, Typed, DedupTypeOK
    <3>. QED
      BY <1>2, <3>1, <3>2 DEF Located, EndCollect
  <2>. QED
    BY <1>2, <2>1 DEF EndCollect, Located, Waiting, Listed
<1>3. CASE TakeCluster
  <2>1. PICK b \in DOMAIN clusters : /\ name' = b /\ cluster' = clusters[b]
                                     /\ clusters' = [c \in DOMAIN clusters \ {b} |-> clusters[c]]
    BY <1>3 DEF TakeCluster
  <2>2. dedupPhase = "cluster" /\ dedupPhase' = "partition" /\ UNCHANGED <<typeCtx, canonicalNames>>
    BY <1>3 DEF TakeCluster
  <2>3. \A s : Waiting(s) => Waiting(s)' \/ Listed(cluster', s)
    BY <2>1, <2>2 DEF Waiting, Listed
  <2>. QED
    BY <2>1, <2>2, <2>3 DEF Located, Listed, Waiting
<1>4. CASE Partition
  <2>1. \A s : Listed(cluster, s) => Listed(cluster', s)
    <3>. SUFFICES ASSUME NEW l \in DOMAIN cluster PROVE Listed(cluster', cluster[l])
      BY DEF Listed
    <3>. DEFINE N == Len(cluster)
    <3>1. N \in Nat /\ l \in 1 .. N /\ it \in 1 .. N
      BY <1>4 DEF Partition, Typed, DedupTypeOK
    <3>2. cluster' \in Seq(StructsOf(typeCtx)) /\ Len(cluster') = N
      BY <1>4, PartitionFacts
    <3>3. DOMAIN cluster' = 1 .. N
      BY <3>2
    <3>4. CASE l < it
      <4>1. \A k \in 1 .. it - 1 : cluster'[k] = cluster[k]
        BY <1>4, PartitionFacts
      <4>2. l \in 1 .. it - 1
        BY <3>1, <3>4
      <4>. QED
        BY <3>1, <3>3, <4>1, <4>2 DEF Listed
    <3>5. CASE l >= it
      <4>1. \A m \in it .. N : \E k \in it .. N : cluster'[k] = cluster[m]
        BY <1>4, PartitionFacts
      <4>2. l \in it .. N
        BY <3>1, <3>5
      <4>3. PICK k \in it .. N : cluster'[k] = cluster[l]
        <5>. HIDE DEF N
        <5>. QED
          BY <4>1, <4>2
      <4>. QED
        BY <3>1, <3>3, <4>3 DEF Listed
    <3>. QED
      BY <3>1, <3>4, <3>5
  <2>2. dedupPhase = "partition" /\ UNCHANGED <<typeCtx, dedupPhase, clusters, name, canonicalNames>>
    BY <1>4 DEF Partition
  <2>. QED
    BY <2>1, <2>2 DEF Located, Waiting, Listed
<1>5. CASE NameFirst
  <2>1. /\ dedupPhase = "partition" /\ dedupPhase' = "name" /\ i' = 2
        /\ UNCHANGED <<typeCtx, clusters, name, cluster>>
        /\ DOMAIN canonicalNames' = DOMAIN canonicalNames \cup {cluster[1]}
    BY <1>5 DEF NameFirst, GiveName
  <2>2. Len(cluster) \in Nat \ {0} /\ DOMAIN cluster = 1 .. Len(cluster) /\ typeCtx.base[cluster[1]] = name
    BY <2>1 DEF Typed, DedupTypeOK, ClusterOf
  <2>3. \A s : Listed(cluster, s) => s = cluster[1] \/ \E k \in 2 .. Len(cluster) : cluster[k] = s
    <3>1. \A k \in 1 .. Len(cluster) : k = 1 \/ k \in 2 .. Len(cluster)
      BY <2>2
    <3>. QED
      BY <2>2, <3>1 DEF Listed
  <2>4. 1 \in 1 .. i' - 1
    BY <2>1
  <2>. QED
    BY <2>1, <2>2, <2>3, <2>4 DEF Located, Waiting, Listed
<1>6. CASE NameNext
  <2>1. /\ dedupPhase = "name" /\ i' = i + 1 /\ UNCHANGED <<typeCtx, dedupPhase, clusters, name, cluster>>
        /\ DOMAIN canonicalNames' = DOMAIN canonicalNames \cup {cluster[i]}
        /\ i \in 2 .. Len(cluster) /\ Len(cluster) \in Nat
    BY <1>6 DEF NameNext, GiveName, Typed, DedupTypeOK
  <2>2. typeCtx.base[cluster[i]] = name
    BY <2>1 DEF Typed, DedupTypeOK, ClusterOf
  <2>3. /\ \A k \in i .. Len(cluster) : k = i \/ k \in i' .. Len(cluster)
        /\ \A j \in 1 .. i - 1 : j \in 1 .. i' - 1
        /\ i \in 1 .. i' - 1
    BY <2>1
  <2>. QED
    BY <2>1, <2>2, <2>3 DEF Located, Waiting, Listed
<1>7. CASE EndCluster
  <2>1. i .. Len(cluster) = {}
    BY <1>7 DEF EndCluster, Typed, DedupTypeOK
  <2>. QED
    BY <1>7, <2>1 DEF EndCluster, Located, Waiting, Listed
<1>8. CASE UNCHANGED dedupVars
  BY <1>8 DEF dedupVars, Located, Waiting, Listed
<1>. QED
  BY <1>1, <1>2, <1>3, <1>4, <1>5, <1>6, <1>7, <1>8 DEF DedupNext

----------------------------------------------------------------------------
Given == [j \in DOMAIN cluster |-> canonicalNames[cluster[j]]]

NamesAgree(S) ==
  \A a, b \in S : typeCtx.base[a] = typeCtx.base[b] =>
    (canonicalNames[a] = canonicalNames[b] <=> Class(a) = Class(b))

(* The structs of the cluster being named are apart from the others.       *)
Finished ==
  {s \in DOMAIN canonicalNames : dedupPhase = "name" => typeCtx.base[s] # name}

NamingInvariant ==
  /\ dedupPhase = "name" =>
       /\ \A j \in 1 .. i - 1 : cluster[j] \in DOMAIN canonicalNames
       /\ Class(currentStruct) = Classes[i - 1]
       /\ Numbered(Given, Classes, i - 1, counter, name)
  /\ NamesAgree(Finished)

LEMMA NamesNext ==
  ASSUME typeCtx' = typeCtx,
         \A a, b \in Finished' : typeCtx.base[a] = typeCtx.base[b] =>
           (canonicalNames'[a] = canonicalNames'[b] <=> Class(a) = Class(b))
  PROVE  NamesAgree(Finished)'
BY DEF NamesAgree, Class

LEMMA SameNames ==
  ASSUME UNCHANGED <<typeCtx, canonicalNames>>, Finished' \subseteq Finished, NamesAgree(Finished)
  PROVE  NamesAgree(Finished)'
BY DEF NamesAgree, Class

LEMMA NamingNext == Typed /\ Partitioned /\ Located /\ NamingInvariant /\ [DedupNext]_dedupVars => NamingInvariant'
<1>. SUFFICES ASSUME Typed, Partitioned, Located, NamingInvariant, [DedupNext]_dedupVars
              PROVE  NamingInvariant'
  OBVIOUS
<1>1. CASE CollectType \/ EndCollect \/ TakeCluster \/ Partition
  <2>1. dedupPhase # "name" /\ dedupPhase' # "name" /\ UNCHANGED <<typeCtx, canonicalNames>>
    BY <1>1 DEF CollectType, EndCollect, TakeCluster, Partition
  <2>2. Finished' \subseteq Finished
    BY <2>1 DEF Finished
  <2>. QED
    BY <2>1, <2>2, SameNames DEF NamingInvariant
<1>2. CASE NameFirst
  <2>. DEFINE x == cluster[1]
  <2>1. /\ dedupPhase = "partition" /\ dedupPhase' = "name" /\ i' = 2 /\ counter' = 0 /\ currentStruct' = x
        /\ UNCHANGED <<typeCtx, clusters, name, cluster>>
        /\ canonicalNames' = [t \in DOMAIN canonicalNames \cup {x} |->
                                IF t = x THEN GetName(name, 0) ELSE canonicalNames[t]]
    BY <1>2 DEF NameFirst, GiveName
  <2>2. 1 \in DOMAIN cluster /\ typeCtx.base[x] = name
    BY <2>1 DEF Typed, DedupTypeOK, ClusterOf
  <2>3. Given'[1] = GetName(name, 0) /\ Classes'[1] = Class(x)
    BY <2>1, <2>2 DEF Given, Classes, Class
  <2>4. \A j \in 1 .. 1 : j = 1
    OBVIOUS
  <2>5. Numbered(Given', Classes', 1, 0, name)
    BY <2>3, <2>4 DEF Numbered
  <2>6. Class(currentStruct)' = Classes'[1]
    BY <2>1, <2>3 DEF Class
  <2>7. \A s \in Finished' : s \in Finished /\ canonicalNames'[s] = canonicalNames[s]
    BY <2>1, <2>2 DEF Finished
  <2>8. NamesAgree(Finished)'
    BY <2>1, <2>7, NamesNext DEF NamingInvariant, NamesAgree
  <2>9. \A j \in 1 .. 1 : cluster'[j] \in DOMAIN canonicalNames'
    BY <2>1, <2>4
  <2>. QED
    BY <2>1, <2>5, <2>6, <2>8, <2>9 DEF NamingInvariant, Numbered
<1>3. CASE NameNext
  <2>. DEFINE x == cluster[i]
              m == i - 1
  <2>1. /\ dedupPhase = "name" /\ dedupPhase' = dedupPhase /\ i' = i + 1
        /\ UNCHANGED <<typeCtx, clusters, name, cluster>>
        /\ canonicalNames' = [t \in DOMAIN canonicalNames \cup {x} |->
                                IF t = x THEN GetName(name, counter') ELSE canonicalNames[t]]
    BY <1>3 DEF NameNext, GiveName
  <2>2. /\ i \in 2 .. Len(cluster) /\ Len(cluster) \in Nat /\ DOMAIN cluster = 1 .. Len(cluster)
        /\ typeCtx.base[x] = name /\ x \in StructsOf(typeCtx) /\ counter \in Nat
    BY <1>3 DEF NameNext, Typed, DedupTypeOK, ClusterOf
  <2>3. name[2] \in Seq(Nat)
    BY <2>2, TypeContextsAssumption DEF Typed
  <2>4. Classes' = Classes /\ \A k \in 1 .. Len(cluster) : Classes[k] = Class(cluster[k])
    BY <2>1, <2>2, SameClasses DEF Classes
  <2>5. /\ Class(currentStruct)' = Classes[m + 1]
        /\ counter' = IF Classes[m] = Classes[m + 1] THEN counter ELSE counter + 1
    <3>1. Class(currentStruct) = Classes[m] /\ Class(x) = Classes[m + 1]
      BY <2>1, <2>2, <2>4 DEF NamingInvariant
    <3>2. TypesEqual(currentStruct, x) <=> Classes[m] = Classes[m + 1]
      BY <3>1, EqualByClass
    <3>. QED
      BY <1>3, <2>1, <3>1, <3>2 DEF NameNext, Bump, Class
  <2>6. Numbered(Given, Classes, m, counter, name) /\ Grouped(Classes, m + 1)
    BY <2>1, <2>2 DEF NamingInvariant, Partitioned, Grouped
  <2>7. Given'[m + 1] = GetName(name, counter')
    BY <2>1, <2>2 DEF Given
  <2>8. ASSUME NEW j \in 1 .. m PROVE Given'[j] = Given[j]
    <3>1. /\ j \in DOMAIN cluster /\ cluster[j] \in DOMAIN canonicalNames
          /\ Given'[j] = canonicalNames'[cluster[j]] /\ Given[j] = canonicalNames[cluster[j]]
      BY <2>1, <2>2 DEF Given, NamingInvariant
    <3>2. CASE cluster[j] # x
      BY <2>1, <3>1, <3>2
    <3>3. CASE cluster[j] = x
      <4>1. Classes[j] = Classes[m + 1]
        BY <2>2, <2>4, <3>1, <3>3
      <4>2. Classes[m] = Classes[m + 1]
        <5>1. CASE j = m
          BY <4>1, <5>1
        <5>2. CASE j # m
          <6>1. j < m /\ m < m + 1 /\ {j, m, m + 1} \subseteq 1 .. m + 1
            BY <2>2, <5>2
          <6>. QED
            BY <2>6, <4>1, <6>1 DEF Grouped
        <5>. QED
          BY <5>1, <5>2
      <4>3. PICK n \in 0 .. counter : Given[j] = GetName(name, n) /\ (n = counter <=> Classes[j] = Classes[m])
        BY <2>6 DEF Numbered
      <4>4. counter' = counter
        BY <2>5, <4>2
      <4>. QED
        BY <2>1, <3>1, <3>3, <4>1, <4>2, <4>3, <4>4
    <3>. QED
      BY <3>2, <3>3
  <2>9. Numbered(Given', Classes, m + 1, counter', name)
    <3>1. m \in Nat \ {0}
      BY <2>2
    <3>2. \A new, d : /\ d = IF Classes[m] = Classes[m + 1] THEN counter ELSE counter + 1
                      /\ \A j \in 1 .. m : new[j] = Given[j]
                      /\ new[m + 1] = GetName(name, d)
                      => Numbered(new, Classes, m + 1, d, name)
      <4>. HIDE DEF m
      <4>. QED
        BY <2>2, <2>3, <2>6, <3>1, NumberNext
    <3>. QED
      BY <2>5, <2>7, <2>8, <3>2
  <2>10. \A s \in Finished' : s \in Finished /\ canonicalNames'[s] = canonicalNames[s]
    BY <2>1, <2>2 DEF Finished
  <2>11. NamesAgree(Finished)'
    <3>1. \A a, b \in Finished : typeCtx.base[a] = typeCtx.base[b] =>
            (canonicalNames[a] = canonicalNames[b] <=> Class(a) = Class(b))
      BY DEF NamingInvariant, NamesAgree
    <3>2. \A a, b \in Finished' : typeCtx.base[a] = typeCtx.base[b] =>
            (canonicalNames'[a] = canonicalNames'[b] <=> Class(a) = Class(b))
      BY <2>10, <3>1
    <3>. QED
      BY <2>1, <3>2, NamesNext
  <2>12. \A j \in 1 .. i' - 1 : cluster'[j] \in DOMAIN canonicalNames'
    BY <2>1, <2>2 DEF NamingInvariant
  <2>13. i' - 1 = m + 1 /\ m + 1 = i
    BY <2>1, <2>2
  <2>. QED
    BY <2>1, <2>4, <2>5, <2>9, <2>11, <2>12, <2>13 DEF NamingInvariant, Numbered
<1>4. CASE EndCluster
  <2>1. dedupPhase = "name" /\ dedupPhase' = "cluster" /\ UNCHANGED <<typeCtx, canonicalNames, name, cluster>>
    BY <1>4 DEF EndCluster
  <2>2. i - 1 = Len(cluster) /\ DOMAIN cluster = 1 .. Len(cluster)
    BY <1>4 DEF EndCluster, Typed, DedupTypeOK
  <2>3. \A j, k \in 1 .. Len(cluster) :
          canonicalNames[cluster[j]] = canonicalNames[cluster[k]] <=> Class(cluster[j]) = Class(cluster[k])
    <3>1. \A j, k \in 1 .. Len(cluster) : Given[j] = Given[k] <=> Classes[j] = Classes[k]
      BY <2>1, <2>2 DEF NamingInvariant, Numbered
    <3>2. \A j \in 1 .. Len(cluster) : Given[j] = canonicalNames[cluster[j]] /\ Classes[j] = Class(cluster[j])
      BY <2>1, <2>2 DEF NamingInvariant, Given, Classes
    <3>. QED
      BY <3>1, <3>2
  <2>4. \A s \in DOMAIN canonicalNames : s \in Finished \/ \E j \in 1 .. Len(cluster) : cluster[j] = s
    BY <2>1, <2>2 DEF Located, Finished
  <2>5. ASSUME NEW a \in DOMAIN canonicalNames, NEW b \in DOMAIN canonicalNames, typeCtx.base[a] = typeCtx.base[b]
        PROVE  canonicalNames[a] = canonicalNames[b] <=> Class(a) = Class(b)
    <3>1. CASE a \in Finished
      <4>1. b \in Finished
        BY <2>1, <2>5, <3>1 DEF Finished
      <4>. QED
        BY <2>5, <3>1, <4>1 DEF NamingInvariant, NamesAgree
    <3>2. CASE a \notin Finished
      <4>1. b \notin Finished
        BY <2>1, <2>5, <3>2 DEF Finished
      <4>2. PICK j \in 1 .. Len(cluster) : cluster[j] = a
        BY <2>4, <3>2
      <4>3. PICK k \in 1 .. Len(cluster) : cluster[k] = b
        BY <2>4, <4>1
      <4>. QED
        BY <2>3, <4>2, <4>3
    <3>. QED
      BY <3>1, <3>2
  <2>6. Finished' = DOMAIN canonicalNames
    BY <2>1 DEF Finished
  <2>7. \A a, b \in DOMAIN canonicalNames : typeCtx.base[a] = typeCtx.base[b] =>
          (canonicalNames[a] = canonicalNames[b] <=> Class(a) = Class(b))
    BY <2>5
  <2>8. \A a, b \in Finished' : typeCtx.base[a] = typeCtx.base[b] =>
          (canonicalNames'[a] = canonicalNames'[b] <=> Class(a) = Class(b))
    BY <2>1, <2>6, <2>7
  <2>9. NamesAgree(Finished)'
    BY <2>1, <2>8, NamesNext
  <2>. QED
    BY <2>1, <2>9 DEF NamingInvariant
<1>5. CASE UNCHANGED dedupVars
  <2>1. Classes' = Classes /\ Given' = Given /\ Finished' = Finished /\ Class(currentStruct)' = Class(currentStruct)
    BY <1>5 DEF dedupVars, Classes, Given, Finished, Class
  <2>. QED
    BY <1>5, <2>1, SameNames DEF dedupVars, NamingInvariant, Numbered
<1>. QED
  BY <1>1, <1>2, <1>3, <1>4, <1>5 DEF DedupNext

(* When all clusters are named, every struct has a name, and structs of    *)
(* one base name share it exactly when they are equal.                     *)
THEOREM NamesAreFaithful == DedupSpec => []NamesFollowEquality
<1>1. DedupInit => Typed /\ Partitioned /\ Located /\ NamingInvariant
  <2>. SUFFICES ASSUME DedupInit PROVE Partitioned /\ NamingInvariant
    BY TypedInit, LocatedInit
  <2>1. DOMAIN canonicalNames = {}
    BY DEF DedupInit
  <2>. QED
    BY <2>1 DEF DedupInit, Partitioned, NamingInvariant, Finished, NamesAgree
<1>2. Typed /\ Partitioned /\ Located /\ NamingInvariant => NamesFollowEquality
  <2>. SUFFICES ASSUME Typed, Located, NamingInvariant, Done PROVE NamesFollowEquality
    BY DEF NamesFollowEquality
  <2>1. dedupPhase = "cluster" /\ DOMAIN clusters = {}
    BY DEF Done
  <2>2. DOMAIN canonicalNames = StructsOf(typeCtx)
    BY <2>1 DEF Located, Waiting, Typed, DedupTypeOK
  <2>3. Finished = StructsOf(typeCtx)
    BY <2>1, <2>2 DEF Finished
  <2>. QED
    BY <2>2, <2>3, EqualByClass DEF NamingInvariant, NamesAgree, NamesFollowEquality
<1>. QED
  BY <1>1, <1>2, TypedNext, PartitionKeeps, LocatedNext, NamingNext, PTL DEF DedupSpec

----------------------------------------------------------------------------
(***************************************************************************)
(* The comparison itself. A walk is the function of its steps, and every   *)
(* walk exists.                                                            *)
(***************************************************************************)
(* A set of numbers has a least one: induction, for sets.                  *)
LEMMA Least ==
  ASSUME NEW S \in SUBSET Nat, S # {}
  PROVE  \E k \in S : \A j \in S : k <= j
<1>1. \E R : IsWellFoundedOn(R, Nat) /\ \A x, y \in Nat : x < y => <<x, y>> \in R
  <2>1. IsWellFoundedOn(OpToRel(<, Nat), Nat)
    BY NatLessThanWellFounded
  <2>2. \A x, y \in Nat : x < y => <<x, y>> \in OpToRel(<, Nat)
    BY DEF OpToRel
  <2> HIDE DEF OpToRel
  <2> QED
    BY <2>1, <2>2, Zenon
<1>2. ASSUME NEW R, IsWellFoundedOn(R, Nat), \A x, y \in Nat : x < y => <<x, y>> \in R
      PROVE  \E k \in S : \A j \in S : k <= j
  <2>1. S \subseteq Nat
    OBVIOUS
  <2>2. \E x \in S : \A y \in S : ~ (<<y, x>> \in R)
    <3>1. \A RR, SS, TT : IsWellFoundedOn(RR, SS) /\ TT \subseteq SS /\ TT # {}
              => \E x \in TT : \A y \in TT : ~ (<<y, x>> \in RR)
      BY WFMin, Zenon
    <3>2. IsWellFoundedOn(R, Nat) /\ S \subseteq Nat /\ S # {}
      BY <1>2, <2>1
    <3> HIDE DEF IsWellFoundedOn
    <3> QED
      BY <3>1, <3>2, Zenon
  <2>3. \A x, y \in S : ~ (<<y, x>> \in R) => x <= y
    BY <1>2, <2>1
  <2> QED
    BY <2>2, <2>3
<1> QED
  BY <1>1, <1>2

LEMMA Inductive ==
  ASSUME NEW S, 0 \in S, \A n \in Nat : n \in S => n + 1 \in S
  PROVE  \A n \in Nat : n \in S
<1> DEFINE Bad == {n \in Nat : n \notin S}
<1> SUFFICES ASSUME Bad # {} PROVE FALSE
  OBVIOUS
<1>1. Bad \in SUBSET Nat
  OBVIOUS
<1>2. \E k \in Bad : \A j \in Bad : k <= j
  <2> HIDE DEF Bad
  <2> QED
    BY <1>1, Least
<1>3. PICK k \in Bad : \A j \in Bad : k <= j
  BY <1>2
<1>4. k \in Nat /\ k # 0
  BY <1>3
<1>5. k - 1 \in Nat /\ ~ (k <= k - 1)
  BY <1>4
<1>6. k - 1 \in S
  BY <1>3, <1>5
<1>7. (k - 1) + 1 \in S
  BY <1>5, <1>6
<1>8. (k - 1) + 1 = k
  BY <1>4
<1> QED
  BY <1>3, <1>7, <1>8

Start(s) == [stack |-> << <<"struct", s>> >>, result |-> <<>>, visited |-> <<>>]

Walked(c, w) == IF w.stack = <<>> THEN w ELSE Visit(c, w)

Walks(w, top, c, s) ==
  w = [k \in 0 .. top |-> IF k = 0 THEN Start(s) ELSE Walked(c, w[k - 1])]

LEMMA WalkExists ==
  ASSUME NEW c, NEW s, NEW top \in Nat
  PROVE  \E w : Walks(w, top, c, s)
<1>. DEFINE First == Start(s)
            Body(f, k) == IF k = 0 THEN First ELSE Walked(c, f[k - 1])
            Some == {n \in Nat : \E f : f = [k \in 0 .. n |-> Body(f, k)]}
<1>. HIDE DEF First
<1>1. 0 \in Some
  <2>. DEFINE f == [k \in 0 .. 0 |-> First]
  <2>1. f = [k \in 0 .. 0 |-> Body(f, k)]
    OBVIOUS
  <2>. QED
    BY <2>1
<1>2. ASSUME NEW n \in Nat, n \in Some PROVE n + 1 \in Some
  <2>1. PICK f : f = [k \in 0 .. n |-> Body(f, k)]
    BY <1>2
  <2>. DEFINE g == [k \in 0 .. n + 1 |-> IF k = n + 1 THEN Walked(c, f[n]) ELSE f[k]]
  <2>2. ASSUME NEW k \in 0 .. n + 1 PROVE g[k] = Body(g, k)
    <3>1. CASE k = 0
      <4>1. g[k] = f[k] /\ f[k] = First
        BY <2>1, <3>1
      <4>. QED
        BY <3>1, <4>1
    <3>2. CASE k = n + 1
      <4>1. n \in 0 .. n + 1 /\ n # n + 1 /\ k - 1 = n /\ k # 0
        BY <3>2
      <4>2. g[n] = f[n] /\ g[k] = Walked(c, f[n])
        BY <3>2, <4>1
      <4>. HIDE DEF g
      <4>. QED
        BY <4>1, <4>2
    <3>3. CASE k # 0 /\ k # n + 1
      <4>1. k \in 0 .. n /\ k - 1 \in 0 .. n + 1 /\ k - 1 # n + 1
        BY <3>3
      <4>2. g[k] = f[k] /\ g[k - 1] = f[k - 1]
        BY <3>3, <4>1
      <4>3. f[k] = Body(f, k)
        BY <2>1, <4>1
      <4>. HIDE DEF g
      <4>. QED
        BY <3>3, <4>2, <4>3
    <3>. QED
      BY <3>1, <3>2, <3>3
  <2>3. g = [k \in 0 .. n + 1 |-> g[k]]
    OBVIOUS
  <2>. HIDE DEF g
  <2>4. g = [k \in 0 .. n + 1 |-> Body(g, k)]
    <3>. HIDE DEF Body
    <3>. QED
      BY <2>2, <2>3
  <2>. QED
    BY <2>4
<1>. HIDE DEF Some
<1>3. top \in Some
  BY <1>1, <1>2, Inductive
<1>. QED
  BY <1>3 DEF Some, Walks, First

LEMMA VectorIsWalk ==
  ASSUME NEW c, NEW s, BoundAssumption
  PROVE  \E w : Walks(w, WalkBound, c, s) /\ TypeVector(c, s) = w[WalkBound]
<1>. DEFINE w == CHOOSE f : Walks(f, WalkBound, c, s)
<1>1. WalkBound \in Nat
  BY BoundAssumption
<1>2. Walks(w, WalkBound, c, s)
  BY <1>1, WalkExists
<1>3. TypeVector(c, s) = w[WalkBound]
  BY DEF TypeVector, Walks, Walked, Start
<1>. QED
  BY <1>2, <1>3

(* What a walk from a may come to, and that a step stays with it.          *)
Near(c, a) == {e \in TypesIn(c) : e[1] \in {"ptr", "struct"} => e[2] \in ReachableStructs(c, a)}
Full(c, a) == {s \in ReachableStructs(c, a) : c.body[s] # Opaque}
Symbols(c) == {Symbol(c, e, v) : e \in TypesIn(c), v \in Seq(StructsOf(c))}
Distinct(v) == \A j, k \in DOMAIN v : v[j] = v[k] => j = k

WalkOK(c, a, w) ==
  /\ w.stack \in Seq(Near(c, a))
  /\ w.visited \in Seq(Full(c, a)) /\ Distinct(w.visited)
  /\ w.result \in Seq(Symbols(c))

LEMMA TypeFacts ==
  ASSUME NEW c, NEW e \in TypesIn(c)
  PROVE  /\ e[1] \in {"int", "float", "ptr", "struct"}
         /\ e[1] \in {"ptr", "struct"} => Len(e) = 2 /\ e = <<e[1], e[2]>> /\ e[2] \in StructsOf(c)
         /\ e[1] \notin {"ptr", "struct"} => Len(e) = 1 /\ e = <<e[1]>>
<1>1. CASE e \in {<<"int">>, <<"float">>}
  BY <1>1
<1>2. CASE \E kind \in {"ptr", "struct"}, s \in StructsOf(c) : e = <<kind, s>>
  BY <1>2
<1>. QED
  BY <1>1, <1>2 DEF TypesIn

LEMMA ReachableFacts ==
  ASSUME NEW c, NEW a
  PROVE  /\ ReachableStructs(c, a) \subseteq StructsOf(c)
         /\ a \in StructsOf(c) => a \in ReachableStructs(c, a)
         /\ \A s \in ReachableStructs(c, a) : Points(c, s) \subseteq ReachableStructs(c, a)
         /\ \A S \in SUBSET StructsOf(c) :
              a \in S /\ (\A u \in S : Points(c, u) \subseteq S) => ReachableStructs(c, a) \subseteq S
BY DEF ReachableStructs, Points

LEMMA BodyNear ==
  ASSUME NEW c \in TypeContexts, NEW a, NEW s \in Full(c, a)
  PROVE  c.body[s] \in Seq(Near(c, a))
<1>. DEFINE b == c.body[s]
<1>1. s \in ReachableStructs(c, a) /\ s \in StructsOf(c) /\ b \in Seq(TypesIn(c))
  BY ReachableFacts, TypeContextsAssumption DEF Full
<1>2. ASSUME NEW k \in DOMAIN b PROVE b[k] \in Near(c, a)
  <2>1. b[k] \in TypesIn(c)
    BY <1>1
  <2>2. ASSUME b[k][1] \in {"ptr", "struct"} PROVE b[k][2] \in ReachableStructs(c, a)
    <3>1. b[k][2] \in StructsOf(c) /\ b[k] = <<b[k][1], b[k][2]>>
      BY <2>1, <2>2, TypeFacts
    <3>2. b[k] \in {<<"ptr", b[k][2]>>, <<"struct", b[k][2]>>}
      BY <2>2, <3>1
    <3>3. b[k][2] \in Points(c, s)
      BY <3>1, <3>2 DEF Points
    <3>. QED
      BY <1>1, <3>3, ReachableFacts
  <2>. QED
    BY <2>1, <2>2 DEF Near
<1>. HIDE DEF b
<1>. QED
  BY <1>1, <1>2 DEF b

LEMMA NumberFacts ==
  ASSUME NEW S, NEW v \in Seq(S), NEW s
  PROVE  /\ (\E k \in DOMAIN v : v[k] = s) =>
              NumberOf(s, v) \in DOMAIN v /\ v[NumberOf(s, v)] = s /\ NumberOf(s, v) <= Len(v)
         /\ ~(\E k \in DOMAIN v : v[k] = s) => NumberOf(s, v) = Len(v) + 1 /\ NumberOf(s, v) > Len(v)
         /\ NumberOf(s, v) \in Nat /\ Len(v) \in Nat /\ DOMAIN v = 1 .. Len(v)
<1>1. Len(v) \in Nat /\ DOMAIN v = 1 .. Len(v)
  OBVIOUS
<1>2. CASE \E k \in DOMAIN v : v[k] = s
  <2>1. NumberOf(s, v) \in DOMAIN v /\ v[NumberOf(s, v)] = s
    BY <1>2 DEF NumberOf
  <2>. QED
    BY <1>1, <1>2, <2>1
<1>3. CASE ~(\E k \in DOMAIN v : v[k] = s)
  <2>1. NumberOf(s, v) = Len(v) + 1
    BY <1>3 DEF NumberOf
  <2>. QED
    BY <1>1, <1>3, <2>1
<1>. QED
  BY <1>2, <1>3

LEMMA NewMeans ==
  ASSUME NEW c, NEW S, NEW v \in Seq(S), NEW e
  PROVE  IsNew(c, e, v) <=> /\ e[1] = "struct" /\ c.body[e[2]] # Opaque
                            /\ \A k \in DOMAIN v : v[k] # e[2]
<1>. DEFINE n == NumberOf(e[2], v)
<1>1. /\ (\E k \in DOMAIN v : v[k] = e[2]) => n <= Len(v)
      /\ ~(\E k \in DOMAIN v : v[k] = e[2]) => n > Len(v)
      /\ n \in Nat /\ Len(v) \in Nat
  BY NumberFacts
<1>. HIDE DEF n
<1>2. n > Len(v) <=> \A k \in DOMAIN v : v[k] # e[2]
  BY <1>1
<1>. QED
  BY <1>2 DEF IsNew, n

(* What a step pushes, and what it has then seen.                          *)
After(c, e, v) == IF IsNew(c, e, v) THEN Append(v, e[2]) ELSE v

Follows(c, e, w, u) ==
  /\ u.stack = Pushed(c, e, w.visited) \o Tail(w.stack)
  /\ u.result = Append(w.result, Symbol(c, e, w.visited))
  /\ u.visited = After(c, e, w.visited)

LEMMA VisitKeepsSymbols ==
  ASSUME NEW c \in TypeContexts, NEW a \in StructsOf(c), NEW w, WalkOK(c, a, w), w.stack # <<>>,
         NEW e, e = Head(w.stack), NEW u, u = Visit(c, w)
  PROVE  /\ e \in Near(c, a) /\ Pushed(c, e, w.visited) \in Seq(Near(c, a))
         /\ Follows(c, e, w, u)
         /\ WalkOK(c, a, u)
<1>. DEFINE v == w.visited
            N == Near(c, a)
            F == Full(c, a)
<1>1. /\ w.stack \in Seq(N) /\ v \in Seq(F) /\ Distinct(v) /\ w.result \in Seq(Symbols(c))
  BY DEF WalkOK
<1>2. e \in N /\ Tail(w.stack) \in Seq(N)
  <2>. HIDE DEF N
  <2>. QED
    BY <1>1
<1>3. /\ u.stack = Pushed(c, e, v) \o Tail(w.stack)
      /\ u.result = Append(w.result, Symbol(c, e, v))
      /\ u.visited = After(c, e, v)
  BY DEF Visit, After
<1>4. Pushed(c, e, v) \in Seq(N)
  <2>1. CASE e[1] = "ptr"
    <3>1. e[2] \in StructsOf(c) /\ e[2] \in ReachableStructs(c, a)
      BY <1>2, <2>1, TypeFacts DEF Near
    <3>2. <<"struct", e[2]>> \in N
      BY <3>1 DEF Near, TypesIn
    <3>. HIDE DEF N
    <3>3. << <<"struct", e[2]>> >> \in Seq(N)
      BY <3>2
    <3>. QED
      BY <2>1, <3>3 DEF Pushed
  <2>2. CASE e[1] # "ptr" /\ IsNew(c, e, v)
    <3>1. e[2] \in F
      BY <1>2, <2>2 DEF IsNew, Near, Full
    <3>2. c.body[e[2]] \in Seq(N)
      BY <3>1, BodyNear
    <3>. QED
      BY <2>2, <3>2 DEF Pushed
  <2>3. CASE e[1] # "ptr" /\ ~IsNew(c, e, v)
    BY <2>3 DEF Pushed
  <2>. QED
    BY <2>1, <2>2, <2>3
<1>5. u.stack \in Seq(N)
  <2>1. \A S : \A p, q \in Seq(S) : p \o q \in Seq(S)
    BY ConcatProperties
  <2>. HIDE DEF N, v
  <2>. QED
    BY <1>2, <1>3, <1>4, <2>1
<1>6. u.visited \in Seq(F) /\ Distinct(u.visited)
  <2>1. CASE IsNew(c, e, v)
    <3>1. e[2] \in F
      BY <1>2, <2>1 DEF IsNew, Near, Full
    <3>2. \A k \in DOMAIN v : v[k] # e[2]
      <4>. HIDE DEF F, v
      <4>1. v \in Seq(F)
        BY <1>1
      <4>. QED
        BY ONLY <2>1, <4>1, NewMeans
    <3>3. u.visited = Append(v, e[2])
      BY <1>3, <2>1 DEF After
    <3>. DEFINE r == Append(v, e[2])
    <3>. HIDE DEF F, v
    <3>4. r \in Seq(F) /\ DOMAIN r = 1 .. Len(v) + 1 /\ DOMAIN v = 1 .. Len(v) /\ Len(v) \in Nat
          /\ r[Len(v) + 1] = e[2] /\ \A k \in 1 .. Len(v) : r[k] = v[k]
      BY <1>1, <3>1
    <3>. HIDE DEF r
    <3>5. ASSUME NEW j \in DOMAIN r, NEW k \in DOMAIN r, r[j] = r[k] PROVE j = k
      <4>1. j \in 1 .. Len(v) \/ j = Len(v) + 1
        BY <3>4
      <4>2. k \in 1 .. Len(v) \/ k = Len(v) + 1
        BY <3>4
      <4>. QED
        BY <1>1, <3>2, <3>4, <3>5, <4>1, <4>2 DEF Distinct
    <3>. QED
      BY <3>3, <3>4, <3>5 DEF Distinct, r
  <2>2. CASE ~IsNew(c, e, v)
    BY <1>1, <1>3, <2>2 DEF After
  <2>. QED
    BY <2>1, <2>2
<1>7. u.result \in Seq(Symbols(c))
  <2>1. e \in TypesIn(c) /\ v \in Seq(StructsOf(c))
    <3>1. F \subseteq StructsOf(c)
      BY ReachableFacts DEF Full
    <3>. HIDE DEF F, v
    <3>2. v \in Seq(StructsOf(c))
      BY <1>1, <3>1
    <3>. QED
      BY <1>2, <3>2 DEF Near
  <2>2. Symbol(c, e, v) \in Symbols(c)
    BY <2>1 DEF Symbols
  <2>. DEFINE T == Symbols(c)
              x == Symbol(c, e, v)
  <2>. HIDE DEF T, x
  <2>3. Append(w.result, x) \in Seq(T)
    BY <1>1, <2>2 DEF T, x
  <2>. QED
    BY <1>3, <2>3 DEF T, x
<1>. QED
  BY <1>2, <1>3, <1>4, <1>5, <1>6, <1>7 DEF WalkOK, Follows

(* Every step takes the walk nearer its end: a struct is seen once, and a  *)
(* pointer gives way to a struct.                                          *)
Left(w, most, all) ==
  2 * Len(w.stack) - (IF w.stack # <<>> /\ Head(w.stack)[1] = "struct" THEN 1 ELSE 0)
    + (2 * most) * (all - Len(w.visited))

LEMMA SeenAtMost ==
  ASSUME NEW c \in TypeContexts, NEW v \in Seq(StructsOf(c)), Distinct(v)
  PROVE  Len(v) <= Len(c.structs) /\ Len(c.structs) \in Nat /\ Len(v) \in Nat
<1>. DEFINE n == Len(v)
            m == Len(c.structs)
            D == StructsOf(c)
<1>1. /\ c.structs \in Seq(D) /\ n \in Nat /\ m \in Nat
      /\ DOMAIN v = 1 .. n /\ DOMAIN c.structs = 1 .. m
  BY TypeContextsAssumption
<1>2. \A s \in D : \E k \in 1 .. m : c.structs[k] = s
  BY <1>1 DEF StructsOf
<1>. DEFINE at == [k \in 1 .. n |-> CHOOSE j \in 1 .. m : c.structs[j] = v[k]]
<1>3. \A k \in 1 .. n : v[k] \in D
  BY <1>1
<1>4. ASSUME NEW k \in 1 .. n PROVE at[k] \in 1 .. m /\ c.structs[at[k]] = v[k]
  BY <1>2, <1>3
<1>. HIDE DEF n, m
<1>5. at \in Injection(1 .. n, 1 .. m)
  <2>1. at = [k \in 1 .. n |-> at[k]]
    OBVIOUS
  <2>. HIDE DEF at
  <2>2. at \in [1 .. n -> 1 .. m]
    BY <1>4, <2>1
  <2>3. \A j, k \in 1 .. n : at[j] = at[k] => j = k
    BY <1>1, <1>4 DEF Distinct
  <2>. QED
    BY <2>2, <2>3 DEF Injection, IsInjective
<1>. HIDE DEF at
<1>6. /\ IsFiniteSet(1 .. n) /\ Cardinality(1 .. n) = n
      /\ IsFiniteSet(1 .. m) /\ Cardinality(1 .. m) = m
  <2>1. 1 \in Int /\ n \in Int /\ m \in Int
    BY <1>1
  <2>2. /\ IsFiniteSet(1 .. n) /\ Cardinality(1 .. n) = IF 1 > n THEN 0 ELSE n - 1 + 1
        /\ IsFiniteSet(1 .. m) /\ Cardinality(1 .. m) = IF 1 > m THEN 0 ELSE m - 1 + 1
    BY ONLY <2>1, FS_Interval
  <2>. QED
    BY <1>1, <2>2
<1>7. Cardinality(1 .. n) <= Cardinality(1 .. m)
  BY <1>5, <1>6, FS_Injection
<1>. QED
  BY <1>1, <1>6, <1>7 DEF n, m

LEMMA Products ==
  ASSUME NEW d \in Nat
  PROVE  /\ \A x \in Nat : d * x \in Nat
         /\ \A x \in Int : d * x \in Int /\ d * (x - 1) = d * x - d
OBVIOUS

LEMMA LeftFacts ==
  ASSUME NEW c \in TypeContexts, NEW a \in StructsOf(c), NEW w, WalkOK(c, a, w), NEW most \in Nat
  PROVE  /\ Len(w.visited) \in Nat /\ Len(w.visited) <= Len(c.structs) /\ Len(c.structs) \in Nat
         /\ Len(w.stack) \in Nat /\ (w.stack # <<>> => Len(w.stack) >= 1)
         /\ Left(w, most, Len(c.structs)) \in Nat
         /\ w.stack # <<>> => Left(w, most, Len(c.structs)) >= 1
<1>. DEFINE all == Len(c.structs)
            n == Len(w.visited)
            h == Len(w.stack)
            one == IF w.stack # <<>> /\ Head(w.stack)[1] = "struct" THEN 1 ELSE 0
<1>1. n \in Nat /\ n <= all /\ all \in Nat
  <2>1. w.visited \in Seq(Full(c, a)) /\ Distinct(w.visited) /\ Full(c, a) \subseteq StructsOf(c)
    BY ReachableFacts DEF WalkOK, Full
  <2>2. w.visited \in Seq(StructsOf(c))
    BY ONLY <2>1
  <2>. QED
    BY <2>1, <2>2, SeenAtMost
<1>2. h \in Nat /\ (w.stack # <<>> => h >= 1)
  <2>. DEFINE N == Near(c, a)
  <2>1. w.stack \in Seq(N)
    BY DEF WalkOK
  <2>. HIDE DEF N
  <2>. QED
    BY <2>1
<1>3. one \in {0, 1} /\ (w.stack = <<>> => one = 0)
  OBVIOUS
<1>. HIDE DEF all, n, h, one
<1>4. (2 * most) * (all - n) \in Nat
  BY <1>1, Products
<1>. DEFINE r == (2 * most) * (all - n)
<1>. HIDE DEF r
<1>5. 2 * h - one + r \in Nat /\ (w.stack # <<>> => 2 * h - one + r >= 1)
  BY <1>2, <1>3, <1>4 DEF r
<1>. QED
  BY <1>1, <1>2, <1>5 DEF Left, all, n, h, one, r

LEMMA Nearer ==
  ASSUME NEW c \in TypeContexts, NEW a \in StructsOf(c), NEW w, WalkOK(c, a, w), w.stack # <<>>,
         NEW most \in Nat, \A s \in StructsOf(c) : c.body[s] # Opaque => Len(c.body[s]) <= most,
         NEW u, u = Visit(c, w)
  PROVE  Left(u, most, Len(c.structs)) + 1 <= Left(w, most, Len(c.structs))
<1>0. PICK e : e = Head(w.stack)
  OBVIOUS
<1>1a. /\ e \in Near(c, a) /\ Pushed(c, e, w.visited) \in Seq(Near(c, a))
       /\ Follows(c, e, w, u) /\ WalkOK(c, a, u)
  BY <1>0, VisitKeepsSymbols
<1>. DEFINE all == Len(c.structs)
            v == w.visited
            rest == Tail(w.stack)
            p == Pushed(c, e, v)
            N == Near(c, a)
            One(s) == IF s # <<>> /\ Head(s)[1] = "struct" THEN 1 ELSE 0
            R(x) == (2 * most) * (all - x)
<1>1. /\ e \in N /\ p \in Seq(N) /\ u.stack = p \o rest
      /\ u.visited = After(c, e, v) /\ WalkOK(c, a, u)
  BY ONLY <1>1a DEF Follows
<1>2. /\ Len(v) \in Nat /\ all \in Nat /\ Len(w.stack) \in Nat /\ Len(w.stack) >= 1
      /\ Len(u.visited) \in Nat /\ Len(u.stack) \in Nat
  BY <1>1, LeftFacts
<1>3. rest \in Seq(N) /\ Len(rest) = Len(w.stack) - 1 /\ Len(p) \in Nat
      /\ Len(p \o rest) = Len(p) + Len(rest)
  <2>1. w.stack \in Seq(N)
    BY DEF WalkOK
  <2>. HIDE DEF N, p
  <2>2. rest \in Seq(N) /\ Len(rest) = Len(w.stack) - 1 /\ Len(p) \in Nat
    BY <1>1, <2>1
  <2>. QED
    BY <1>1, <2>2, ConcatProperties
<1>4. \A s : One(s) \in {0, 1}
  OBVIOUS
<1>5. Left(w, most, all) = 2 * Len(w.stack) - One(w.stack) + R(Len(v))
      /\ Left(u, most, all) = 2 * Len(u.stack) - One(u.stack) + R(Len(u.visited))
  BY DEF Left
<1>6. R(Len(v)) \in Int /\ R(Len(v) + 1) = R(Len(v)) - 2 * most
  <2>1. all - Len(v) \in Int /\ all - (Len(v) + 1) = (all - Len(v)) - 1 /\ 2 * most \in Nat
    BY <1>2
  <2>2. (2 * most) * ((all - Len(v)) - 1) = (2 * most) * (all - Len(v)) - 2 * most
    BY <2>1, Products
  <2>3. (2 * most) * (all - Len(v)) \in Int
    BY <2>1, Products
  <2>. QED
    BY ONLY <2>1, <2>2, <2>3
<1>7. One(w.stack) = IF e[1] = "struct" THEN 1 ELSE 0
  BY <1>0
<1>. HIDE DEF One, R, p, rest, v, all
<1>8. CASE e[1] = "ptr"
  <2>1. p = << <<"struct", e[2]>> >> /\ u.visited = v
    BY <1>1, <1>8 DEF p, Pushed, After, IsNew
  <2>2. Len(p) = 1 /\ One(u.stack) = 1
    <3>1. Len(p) = 1 /\ p # <<>> /\ Head(p) = <<"struct", e[2]>>
      BY <2>1
    <3>2. Head(p \o rest) = Head(p) /\ p \o rest # <<>>
      <4>. HIDE DEF N
      <4>1. (p \o rest)[1] = p[1] /\ Len(p \o rest) >= 1
        BY <1>1, <1>3, <3>1, ConcatProperties
      <4>2. p \o rest \in Seq(N) /\ p \o rest # <<>>
        <5>1. p \o rest \in Seq(N)
          BY <1>1, <1>3, ConcatProperties
        <5>. DEFINE q == p \o rest
        <5>. HIDE DEF q
        <5>2. q \in Seq(N) /\ Len(q) >= 1 => q # <<>>
          OBVIOUS
        <5>. QED
          BY <4>1, <5>1, <5>2 DEF q
      <4>3. \A q \in Seq(N) : q # <<>> => Head(q) = q[1]
        OBVIOUS
      <4>. QED
        BY <1>1, <3>1, <4>1, <4>2, <4>3
    <3>. QED
      BY <1>1, <3>1, <3>2 DEF One
  <2>3. Len(u.stack) = Len(w.stack) /\ One(w.stack) = 0
    BY <1>1, <1>2, <1>3, <1>7, <1>8, <2>2
  <2>. QED
    BY <1>2, <1>5, <1>6, <2>1, <2>2, <2>3 DEF all
<1>9. CASE e[1] # "ptr" /\ IsNew(c, e, v)
  <2>1. p = c.body[e[2]] /\ Len(u.visited) = Len(v) + 1 /\ e[1] = "struct"
    <3>1. p = c.body[e[2]] /\ u.visited = Append(v, e[2]) /\ e[1] = "struct"
      BY <1>1, <1>9 DEF p, Pushed, After, IsNew
    <3>2. v \in Seq(Full(c, a)) /\ e[2] \in Full(c, a)
      BY <1>1, <1>9 DEF WalkOK, v, IsNew, Near, Full
    <3>. DEFINE F == Full(c, a)
    <3>. HIDE DEF F
    <3>3. Len(Append(v, e[2])) = Len(v) + 1
      BY <3>2 DEF F
    <3>. QED
      BY <3>1, <3>3
  <2>2. Len(p) <= most
    <3>1. e[2] \in StructsOf(c) /\ c.body[e[2]] # Opaque
      BY <1>1, <1>9, TypeFacts DEF IsNew, Near
    <3>. QED
      BY <2>1, <3>1
  <2>3. R(Len(u.visited)) = R(Len(v)) - 2 * most /\ One(w.stack) = 1
    BY <1>6, <1>7, <2>1
  <2>4. Len(u.stack) <= most + Len(w.stack) - 1
    BY <1>1, <1>2, <1>3, <2>2
  <2>5. One(u.stack) \in {0, 1}
    BY <1>4
  <2>6. 2 * Len(u.stack) - One(u.stack) + (R(Len(v)) - 2 * most) + 1 <= 2 * Len(w.stack) - 1 + R(Len(v))
    <3>. DEFINE x == Len(u.stack)
                y == Len(w.stack)
                r == R(Len(v))
                o == One(u.stack)
    <3>1. x \in Nat /\ y \in Nat /\ r \in Int /\ o \in {0, 1} /\ x <= most + y - 1
      BY ONLY <1>2, <1>6, <2>4, <2>5
    <3>. HIDE DEF x, y, r, o
    <3>2. 2 * x - o + (r - 2 * most) + 1 <= 2 * y - 1 + r
      BY ONLY <3>1, most \in Nat
    <3>. QED
      BY ONLY <3>2 DEF x, y, r, o
  <2>. QED
    BY <1>5, <2>3, <2>6 DEF all
<1>10. CASE e[1] # "ptr" /\ ~IsNew(c, e, v)
  <2>1. p = <<>> /\ u.visited = v
    BY <1>1, <1>10 DEF p, Pushed, After
  <2>2. Len(p) = 0 /\ Len(u.stack) = Len(w.stack) - 1
    BY <1>1, <1>2, <1>3, <2>1
  <2>. QED
    BY <1>2, <1>4, <1>5, <1>6, <2>1, <2>2 DEF all
<1>. QED
  BY <1>8, <1>9, <1>10

LEMMA WalkSteps ==
  ASSUME NEW c, NEW a, NEW top \in Nat, NEW w, Walks(w, top, c, a)
  PROVE  /\ w[0] = Start(a)
         /\ \A k \in Nat : k + 1 <= top => w[k + 1] = Walked(c, w[k])
<1>1. 0 \in 0 .. top /\ \A k \in Nat : k + 1 <= top =>
        k + 1 \in 0 .. top /\ k + 1 # 0 /\ (k + 1) - 1 = k
  OBVIOUS
<1>2. \A k \in 0 .. top : w[k] = IF k = 0 THEN Start(a) ELSE Walked(c, w[k - 1])
  BY DEF Walks
<1>. QED
  BY <1>1, <1>2

Most(c, most) == \A s \in StructsOf(c) : c.body[s] # Opaque => Len(c.body[s]) <= most

(* A walk stays with what it may come to, and ends.                        *)
LEMMA WalkHolds ==
  ASSUME NEW c \in TypeContexts, NEW a \in StructsOf(c), NEW top \in Nat, NEW w, Walks(w, top, c, a),
         NEW most \in Nat, Most(c, most)
  PROVE  \A k \in Nat : k <= top =>
           /\ WalkOK(c, a, w[k])
           /\ w[k].stack = <<>> \/ Left(w[k], most, Len(c.structs)) + k <= (2 * most) * Len(c.structs) + 1
<1>. DEFINE all == Len(c.structs)
            Good(k) == /\ WalkOK(c, a, w[k])
                       /\ w[k].stack = <<>> \/ Left(w[k], most, all) + k <= (2 * most) * all + 1
            Reached == {k \in Nat : k <= top => Good(k)}
<1>1. Good(0)
  <2>1. w[0] = Start(a)
    BY WalkSteps
  <2>2. <<"struct", a>> \in Near(c, a)
    BY ReachableFacts DEF Near, TypesIn
  <2>3. WalkOK(c, a, Start(a))
    <3>. DEFINE N == Near(c, a)
    <3>. HIDE DEF N
    <3>1. << <<"struct", a>> >> \in Seq(N)
      BY <2>2 DEF N
    <3>2. \A S : <<>> \in Seq(S)
      OBVIOUS
    <3>3. Distinct(<<>>)
      BY DEF Distinct
    <3>. QED
      BY <3>1, <3>2, <3>3 DEF WalkOK, Start, N
  <2>4. Left(Start(a), most, all) + 0 <= (2 * most) * all + 1
    <3>1. all \in Nat
      BY <2>3, LeftFacts
    <3>2. /\ Start(a).stack = << <<"struct", a>> >> /\ Start(a).visited = <<>>
          /\ Len(<< <<"struct", a>> >>) = 1 /\ Head(<< <<"struct", a>> >>) = <<"struct", a>>
          /\ Len(<<>>) = 0 /\ << <<"struct", a>> >> # <<>> /\ <<"struct", a>>[1] = "struct"
      BY DEF Start
    <3>3. Left(Start(a), most, all) = 2 * 1 - 1 + (2 * most) * (all - 0)
      BY ONLY <3>2 DEF Left
    <3>4. all - 0 = all /\ (2 * most) * all \in Nat
      <4>. HIDE DEF all
      <4>1. (2 * most) * all \in Nat
        BY <3>1, Products
      <4>. QED
        BY <3>1, <4>1
    <3>. DEFINE r == (2 * most) * all
    <3>. HIDE DEF r
    <3>5. Left(Start(a), most, all) = 2 * 1 - 1 + r /\ r \in Nat
      BY <3>3, <3>4 DEF r
    <3>6. Left(Start(a), most, all) + 0 <= r + 1
      BY <3>5
    <3>. QED
      BY <3>6 DEF r
  <2>. QED
    BY <2>1, <2>3, <2>4
<1>2. ASSUME NEW k \in Nat, k + 1 <= top, Good(k) PROVE Good(k + 1)
  <2>1. w[k + 1] = Walked(c, w[k])
    <3>1. \A j \in Nat : j + 1 <= top => w[j + 1] = Walked(c, w[j])
      BY WalkSteps
    <3>. QED
      BY <1>2, <3>1
  <2>2. CASE w[k].stack = <<>>
    BY <1>2, <2>1, <2>2 DEF Walked
  <2>3. CASE w[k].stack # <<>>
    <3>. DEFINE x == w[k]
    <3>1. w[k + 1] = Visit(c, x)
      BY <2>1, <2>3 DEF Walked
    <3>. HIDE DEF x
    <3>2. WalkOK(c, a, x) /\ x.stack # <<>>
      BY <1>2, <2>3 DEF x
    <3>3. WalkOK(c, a, Visit(c, x))
      BY <3>2, VisitKeepsSymbols
    <3>4. Left(Visit(c, x), most, all) + 1 <= Left(x, most, all)
      BY <3>2, Nearer DEF Most
    <3>5. Left(x, most, all) \in Nat /\ Left(Visit(c, x), most, all) \in Nat /\ all \in Nat
      BY <3>2, <3>3, LeftFacts
    <3>6. Left(x, most, all) + k <= (2 * most) * all + 1
      BY <1>2, <2>3 DEF x
    <3>7. (2 * most) * all \in Nat
      BY <3>5, Products
    <3>8. Left(Visit(c, x), most, all) + (k + 1) <= (2 * most) * all + 1
      <4>. DEFINE r == (2 * most) * all
                  l == Left(x, most, all)
                  m == Left(Visit(c, x), most, all)
      <4>1. l \in Nat /\ m \in Nat /\ r \in Nat /\ m + 1 <= l /\ l + k <= r + 1
        BY <3>4, <3>5, <3>6, <3>7
      <4>. HIDE DEF r, l, m
      <4>2. m + (k + 1) <= r + 1
        BY <4>1
      <4>. QED
        BY <4>2 DEF r, m
    <3>. QED
      BY <3>1, <3>3, <3>8
  <2>. QED
    BY <2>2, <2>3
<1>. HIDE DEF Good
<1>3. 0 \in Reached
  BY <1>1
<1>4. ASSUME NEW k \in Nat, k \in Reached PROVE k + 1 \in Reached
  <2>1. ASSUME k + 1 <= top PROVE Good(k + 1)
    BY <1>2, <1>4, <2>1
  <2>. QED
    BY <2>1
<1>. HIDE DEF Reached
<1>5. \A k \in Nat : k \in Reached
  BY <1>3, <1>4, Inductive
<1>. QED
  BY <1>5 DEF Reached, Good

LEMMA WalkEnds ==
  ASSUME NEW c \in TypeContexts, NEW a \in StructsOf(c), NEW w, Walks(w, WalkBound, c, a)
  PROVE  /\ WalkBound \in Nat
         /\ \A k \in Nat : k <= WalkBound => WalkOK(c, a, w[k])
         /\ w[WalkBound].stack = <<>>
<1>1. PICK most \in 0 .. WalkBound :
        /\ Most(c, most) /\ (2 * most) * Len(c.structs) + 1 <= WalkBound
  BY BoundAssumption DEF Most
<1>2. WalkBound \in Nat /\ most \in Nat /\ WalkBound <= WalkBound
  BY BoundAssumption
<1>3. \A k \in Nat : k <= WalkBound =>
        /\ WalkOK(c, a, w[k])
        /\ w[k].stack = <<>> \/ Left(w[k], most, Len(c.structs)) + k <= (2 * most) * Len(c.structs) + 1
  BY <1>1, <1>2, WalkHolds
<1>. DEFINE x == w[WalkBound]
<1>4. ASSUME x.stack # <<>> PROVE FALSE
  <2>1. /\ WalkOK(c, a, x)
        /\ x.stack = <<>> \/ Left(x, most, Len(c.structs)) + WalkBound <= (2 * most) * Len(c.structs) + 1
    BY ONLY <1>2, <1>3
  <2>. HIDE DEF x
  <2>2. Left(x, most, Len(c.structs)) >= 1 /\ Left(x, most, Len(c.structs)) \in Nat
        /\ Len(c.structs) \in Nat
    BY <1>2, <1>4, <2>1, LeftFacts
  <2>3. (2 * most) * Len(c.structs) \in Nat
    BY <1>2, <2>2, Products
  <2>. DEFINE r == (2 * most) * Len(c.structs)
              l == Left(x, most, Len(c.structs))
  <2>4. r \in Nat /\ l \in Nat /\ l >= 1 /\ l + WalkBound <= r + 1 /\ r + 1 <= WalkBound
    BY <1>1, <1>4, <2>1, <2>2, <2>3
  <2>. HIDE DEF r, l
  <2>. QED
    BY <1>2, <2>4
<1>. QED
  BY <1>2, <1>3, <1>4

(* What is written down is not taken back: the vector holds at each place  *)
(* the symbol of the step that filled it.                                  *)
Extends(t, s) == Len(s) <= Len(t) /\ \A place \in 1 .. Len(s) : t[place] = s[place]

LEMMA StepExtends ==
  ASSUME NEW S, NEW s \in Seq(S), NEW x \in S
  PROVE  /\ Append(s, x) \in Seq(S) /\ Extends(Append(s, x), s) /\ Extends(s, s)
         /\ Len(Append(s, x)) = Len(s) + 1 /\ Append(s, x)[Len(s) + 1] = x
         /\ Len(s) \in Nat
<1>1. Len(s) \in Nat /\ Len(Append(s, x)) = Len(s) + 1 /\ Append(s, x) \in Seq(S)
      /\ Append(s, x)[Len(s) + 1] = x
      /\ \A k \in 1 .. Len(s) : Append(s, x)[k] = s[k]
  OBVIOUS
<1>. QED
  BY <1>1 DEF Extends

LEMMA ExtendsOn ==
  ASSUME NEW S, NEW r \in Seq(S), NEW s \in Seq(S), NEW t \in Seq(S), Extends(t, s), Extends(s, r)
  PROVE  Extends(t, r)
<1>1. Len(r) \in Nat /\ Len(s) \in Nat /\ Len(t) \in Nat
  OBVIOUS
<1>2. Len(r) <= Len(s) /\ Len(s) <= Len(t)
  BY DEF Extends
<1>3. \A k \in 1 .. Len(r) : k \in 1 .. Len(s)
  BY <1>1, <1>2
<1>4. \A k \in 1 .. Len(r) : t[k] = r[k]
  BY <1>3 DEF Extends
<1>. QED
  BY <1>1, <1>2, <1>4 DEF Extends

LEMMA ResultsExtend ==
  ASSUME NEW c \in TypeContexts, NEW a \in StructsOf(c), NEW w, Walks(w, WalkBound, c, a),
         NEW j \in Nat
  PROVE  \A k \in Nat : j <= k /\ k <= WalkBound => Extends(w[k].result, w[j].result)
<1>. DEFINE Good(k) == j <= k /\ k <= WalkBound => Extends(w[k].result, w[j].result)
            Reached == {k \in Nat : Good(k)}
            T == Symbols(c)
<1>1. WalkBound \in Nat /\ \A k \in Nat : k <= WalkBound => WalkOK(c, a, w[k])
  BY WalkEnds
<1>2. \A k \in Nat : k <= WalkBound => w[k].result \in Seq(T)
  BY <1>1 DEF WalkOK
<1>. HIDE DEF T
<1>3. \A k \in Nat : k <= WalkBound => Extends(w[k].result, w[k].result)
  <2>1. \A s \in Seq(T) : Extends(s, s)
    BY DEF Extends
  <2>. QED
    BY <1>2, <2>1
<1>4. \A k \in Nat : k + 1 <= WalkBound => Extends(w[k + 1].result, w[k].result)
  <2>. SUFFICES ASSUME NEW k \in Nat, k + 1 <= WalkBound
                PROVE  Extends(w[k + 1].result, w[k].result)
    OBVIOUS
  <2>. DEFINE x == w[k]
  <2>1. w[k + 1] = Walked(c, x) /\ k <= WalkBound
    BY <1>1, WalkSteps
  <2>2. WalkOK(c, a, x) /\ x.result \in Seq(T) /\ Extends(x.result, x.result)
    BY <1>1, <1>2, <1>3, <2>1
  <2>. HIDE DEF x
  <2>3. CASE x.stack = <<>>
    BY <2>1, <2>2, <2>3 DEF Walked, x
  <2>4. CASE x.stack # <<>>
    <3>1. PICK e : e = Head(x.stack)
      OBVIOUS
    <3>2. PICK u : u = Visit(c, x)
      OBVIOUS
    <3>3. Follows(c, e, x, u) /\ WalkOK(c, a, u)
      BY <2>2, <2>4, <3>1, <3>2, VisitKeepsSymbols
    <3>4. u.result = Append(x.result, Symbol(c, e, x.visited)) /\ u.result \in Seq(T)
      BY <3>3 DEF Follows, WalkOK, T
    <3>5. \A s \in Seq(T) : \A y : Append(s, y) \in Seq(T) => Extends(Append(s, y), s)
      <4>. SUFFICES ASSUME NEW s \in Seq(T), NEW y, Append(s, y) \in Seq(T)
                    PROVE  Extends(Append(s, y), s)
        OBVIOUS
      <4>1. Len(s) \in Nat /\ Len(Append(s, y)) = Len(s) + 1
            /\ \A l \in 1 .. Len(s) : Append(s, y)[l] = s[l]
        OBVIOUS
      <4>. QED
        BY <4>1 DEF Extends
    <3>6. Extends(u.result, x.result)
      BY <2>2, <3>4, <3>5
    <3>. QED
      BY <2>1, <2>4, <3>2, <3>6 DEF Walked, x
  <2>. QED
    BY <2>3, <2>4
<1>5. 0 \in Reached
  BY <1>3
<1>6. ASSUME NEW k \in Nat, k \in Reached PROVE k + 1 \in Reached
  <2>. SUFFICES ASSUME j <= k + 1, k + 1 <= WalkBound
                PROVE  Extends(w[k + 1].result, w[j].result)
    OBVIOUS
  <2>1. CASE j = k + 1
    BY <1>3, <2>1
  <2>2. CASE j <= k
    <3>1. k <= WalkBound /\ j <= WalkBound
      BY <1>1, <2>2
    <3>2. Extends(w[k].result, w[j].result)
      BY <1>6, <2>2, <3>1
    <3>3. Extends(w[k + 1].result, w[k].result)
      BY <1>4
    <3>4. w[k + 1].result \in Seq(T) /\ w[k].result \in Seq(T) /\ w[j].result \in Seq(T)
      BY <1>2, <3>1
    <3>. QED
      BY ONLY <3>2, <3>3, <3>4, ExtendsOn
  <2>. QED
    BY <2>1, <2>2
<1>. HIDE DEF Reached
<1>7. \A k \in Nat : k \in Reached
  BY <1>5, <1>6, Inductive
<1>. QED
  BY <1>7 DEF Reached

LEMMA VectorHolds ==
  ASSUME NEW c \in TypeContexts, NEW a \in StructsOf(c), NEW w, Walks(w, WalkBound, c, a),
         NEW k \in Nat, k + 1 <= WalkBound, w[k].stack # <<>>, NEW e, e = Head(w[k].stack)
  PROVE  /\ w[WalkBound].result[Len(w[k].result) + 1] = Symbol(c, e, w[k].visited)
         /\ w[k + 1].result = Append(w[k].result, Symbol(c, e, w[k].visited))
<1>. DEFINE x == w[k]
            T == Symbols(c)
<1>1. WalkBound \in Nat /\ WalkOK(c, a, x)
  BY WalkEnds
<1>2. w[k + 1] = Visit(c, x)
  <2>1. w[k + 1] = Walked(c, w[k])
    BY <1>1, WalkSteps
  <2>. QED
    BY <2>1 DEF Walked
<1>. HIDE DEF x
<1>3. Follows(c, e, x, w[k + 1]) /\ WalkOK(c, a, w[k + 1])
  <2>1. PICK u : u = Visit(c, x)
    OBVIOUS
  <2>2. Follows(c, e, x, u) /\ WalkOK(c, a, u)
    BY <1>1, <2>1, VisitKeepsSymbols DEF x
  <2>. QED
    BY <1>2, <2>1, <2>2
<1>4. PICK y : y = Symbol(c, e, x.visited)
  OBVIOUS
<1>5. w[k + 1].result = Append(x.result, y) /\ x.result \in Seq(T) /\ w[k + 1].result \in Seq(T)
  BY <1>1, <1>3, <1>4 DEF Follows, WalkOK
<1>6. Extends(w[WalkBound].result, w[k + 1].result)
  <2>1. k + 1 \in Nat /\ WalkBound <= WalkBound
    BY <1>1
  <2>. QED
    BY <1>1, <2>1, ResultsExtend
<1>. HIDE DEF T
<1>7. Len(w[k + 1].result) = Len(x.result) + 1 /\ Len(x.result) \in Nat
      /\ w[k + 1].result[Len(x.result) + 1] = y
  BY <1>5
<1>8. Len(x.result) + 1 \in 1 .. Len(w[k + 1].result)
  BY <1>7
<1>9. w[WalkBound].result[Len(x.result) + 1] = y
  BY <1>6, <1>7, <1>8 DEF Extends
<1>. QED
  BY <1>4, <1>5, <1>9 DEF x

----------------------------------------------------------------------------
(***************************************************************************)
(* Two walks side by side. They write the same symbol just when the types  *)
(* at the top of their stacks are alike, and then they push as much.       *)
(***************************************************************************)
BothOpaque(c, s, t) == c.body[s] = Opaque /\ c.body[t] = Opaque /\ c.base[s] = c.base[t]

AlikeStructs(c, s, v, t, x) ==
  \/ BothOpaque(c, s, t)
  \/ /\ c.body[s] # Opaque /\ c.body[t] # Opaque
     /\ Len(c.body[s]) = Len(c.body[t])
     /\ NumberOf(s, v) = NumberOf(t, x)

Alike(c, e, v, d, x) ==
  \/ e[1] = "ptr" /\ d[1] = "ptr"
  \/ e = d /\ e[1] # "ptr" /\ e[1] # "struct"
  \/ e[1] = "struct" /\ d[1] = "struct" /\ AlikeStructs(c, e[2], v, d[2], x)

Tuples == /\ \A x, y : <<x>> = <<y>> <=> x = y
          /\ \A x, y, z : <<x>> # <<y, z>>
          /\ \A x, y, z, u : <<x>> # <<y, z, u>>
          /\ \A x, y, z, u, v : <<x, y>> # <<z, u, v>>
          /\ \A x, y, z, u : <<x, y>> = <<z, u>> <=> x = z /\ y = u
          /\ \A x, y, z, u, v, w : <<x, y, z>> = <<u, v, w>> <=> x = u /\ y = v /\ z = w

LEMMA TupleFacts == Tuples
BY DEF Tuples

LEMMA AlikeSymbols ==
  ASSUME NEW c, NEW e \in TypesIn(c), NEW d \in TypesIn(c), NEW v, NEW x
  PROVE  Symbol(c, e, v) = Symbol(c, d, x) <=> Alike(c, e, v, d, x)
<1>1. /\ e[1] \notin {"ptr", "struct"} => e[1] \in {"int", "float"} /\ e = <<e[1]>>
      /\ d[1] \notin {"ptr", "struct"} => d[1] \in {"int", "float"} /\ d = <<d[1]>>
  BY TypeFacts
<1>. DEFINE s == e[2]
            t == d[2]
            m == Len(c.body[s])
            n == Len(c.body[t])
            j == NumberOf(s, v)
            k == NumberOf(t, x)
<1>2. /\ e[1] = "ptr" => Symbol(c, e, v) = <<"ptr">>
      /\ e[1] # "ptr" /\ e[1] # "struct" => Symbol(c, e, v) = e
      /\ e[1] = "struct" /\ c.body[s] = Opaque => Symbol(c, e, v) = <<"opaque", c.base[s]>>
      /\ e[1] = "struct" /\ c.body[s] # Opaque => Symbol(c, e, v) = <<"struct", m, j>>
  BY DEF Symbol
<1>3. /\ d[1] = "ptr" => Symbol(c, d, x) = <<"ptr">>
      /\ d[1] # "ptr" /\ d[1] # "struct" => Symbol(c, d, x) = d
      /\ d[1] = "struct" /\ c.body[t] = Opaque => Symbol(c, d, x) = <<"opaque", c.base[t]>>
      /\ d[1] = "struct" /\ c.body[t] # Opaque => Symbol(c, d, x) = <<"struct", n, k>>
  BY DEF Symbol
<1>. HIDE DEF m, n, j, k
<1>4. CASE e[1] = "struct" /\ d[1] = "struct"
  <2>1. Alike(c, e, v, d, x) <=> AlikeStructs(c, s, v, t, x)
    BY <1>4 DEF Alike
  <2>2. CASE c.body[s] = Opaque /\ c.body[t] = Opaque
    BY <1>2, <1>3, <1>4, <2>1, <2>2, TupleFacts DEF AlikeStructs, BothOpaque, Tuples
  <2>3. CASE c.body[s] # Opaque /\ c.body[t] # Opaque
    BY <1>2, <1>3, <1>4, <2>1, <2>3, TupleFacts DEF AlikeStructs, BothOpaque, Tuples, m, n, j, k
  <2>4. CASE ~(c.body[s] = Opaque <=> c.body[t] = Opaque)
    BY <1>2, <1>3, <1>4, <2>1, <2>4, TupleFacts DEF AlikeStructs, BothOpaque, Tuples
  <2>. QED
    BY <2>2, <2>3, <2>4
<1>5. CASE e[1] = "struct" /\ d[1] # "struct"
  BY <1>1, <1>2, <1>3, <1>5, TupleFacts DEF Alike, Tuples
<1>6. CASE e[1] # "struct" /\ d[1] = "struct"
  BY <1>1, <1>2, <1>3, <1>6, TupleFacts DEF Alike, Tuples
<1>7. CASE e[1] # "struct" /\ d[1] # "struct"
  BY <1>1, <1>2, <1>3, <1>7, TupleFacts DEF Alike, Tuples
<1>. QED
  BY <1>4, <1>5, <1>6, <1>7

LEMMA Shifted ==
  ASSUME NEW S, NEW s \in Seq(S), NEW p \in Seq(S), s # <<>>, NEW q, q = p \o Tail(s)
  PROVE  /\ q \in Seq(S) /\ Len(q) = Len(p) + Len(s) - 1 /\ DOMAIN q = 1 .. Len(q)
         /\ DOMAIN s = 1 .. Len(s) /\ DOMAIN p = 1 .. Len(p)
         /\ Len(p) \in Nat /\ Len(s) \in Nat /\ Len(s) >= 1 /\ Head(s) = s[1]
         /\ \A k \in 1 .. Len(p) : q[k] = p[k]
         /\ \A k \in 2 .. Len(s) : q[Len(p) + k - 1] = s[k]
<1>1. /\ Tail(s) \in Seq(S) /\ Len(Tail(s)) = Len(s) - 1 /\ Len(s) \in Nat /\ Len(s) >= 1
      /\ Head(s) = s[1] /\ Len(p) \in Nat /\ DOMAIN s = 1 .. Len(s) /\ DOMAIN p = 1 .. Len(p)
      /\ \A k \in 1 .. Len(s) - 1 : Tail(s)[k] = s[k + 1]
  OBVIOUS
<1>. DEFINE t == Tail(s)
<1>. HIDE DEF t
<1>2. /\ q \in Seq(S) /\ Len(q) = Len(p) + Len(t)
      /\ \A k \in 1 .. Len(p) + Len(t) : q[k] = IF k <= Len(p) THEN p[k] ELSE t[k - Len(p)]
  BY <1>1, ConcatProperties DEF t
<1>3. DOMAIN q = 1 .. Len(q)
  BY <1>2
<1>4. \A k \in 1 .. Len(p) : k \in 1 .. Len(p) + Len(t) /\ k <= Len(p)
  BY <1>1 DEF t
<1>5. \A k \in 2 .. Len(s) : /\ Len(p) + k - 1 \in 1 .. Len(p) + Len(t) /\ ~(Len(p) + k - 1 <= Len(p))
                             /\ (Len(p) + k - 1) - Len(p) = k - 1
                             /\ k - 1 \in 1 .. Len(s) - 1 /\ (k - 1) + 1 = k
  BY <1>1 DEF t
<1>6. \A k \in 2 .. Len(s) : q[Len(p) + k - 1] = s[k]
  <2>1. \A k \in 2 .. Len(s) : q[Len(p) + k - 1] = t[k - 1]
    BY <1>2, <1>5
  <2>2. \A k \in 2 .. Len(s) : t[k - 1] = s[k]
    BY <1>1, <1>5 DEF t
  <2>. QED
    BY <2>1, <2>2
<1>7. Len(q) = Len(p) + Len(s) - 1
  BY <1>1, <1>2 DEF t
<1>. QED
  BY <1>1, <1>2, <1>3, <1>4, <1>6, <1>7

(* The places of two stacks as high as each other.                         *)
Waits(s, t, e, d) == \E k \in DOMAIN s : s[k] = e /\ t[k] = d

Advanced(s, p, q, t, o, r) ==
  /\ Len(q) = Len(r)
  /\ \A e, d : Waits(s, t, e, d) => Waits(q, r, e, d) \/ (e = Head(s) /\ d = Head(t))
  /\ \A k \in DOMAIN p : Waits(q, r, p[k], o[k])
  /\ \A e, d : Waits(q, r, e, d) => Waits(s, t, e, d) \/ Waits(p, o, e, d)

LEMMA WaitsOn ==
  ASSUME NEW S, NEW s \in Seq(S), NEW p \in Seq(S), s # <<>>, NEW q, q = p \o Tail(s),
         NEW T, NEW t \in Seq(T), NEW o \in Seq(T), t # <<>>, NEW r, r = o \o Tail(t),
         Len(s) = Len(t), Len(p) = Len(o)
  PROVE  Advanced(s, p, q, t, o, r)
<1>1. /\ Len(q) = Len(p) + Len(s) - 1 /\ DOMAIN q = 1 .. Len(q)
      /\ DOMAIN s = 1 .. Len(s) /\ DOMAIN p = 1 .. Len(p)
      /\ Len(p) \in Nat /\ Len(s) \in Nat /\ Len(s) >= 1 /\ Head(s) = s[1]
      /\ \A k \in 1 .. Len(p) : q[k] = p[k]
      /\ \A k \in 2 .. Len(s) : q[Len(p) + k - 1] = s[k]
  BY ONLY s \in Seq(S), p \in Seq(S), s # <<>>, q = p \o Tail(s), Shifted
<1>2. /\ Len(r) = Len(o) + Len(t) - 1 /\ DOMAIN r = 1 .. Len(r)
      /\ Head(t) = t[1]
      /\ \A k \in 1 .. Len(o) : r[k] = o[k]
      /\ \A k \in 2 .. Len(t) : r[Len(o) + k - 1] = t[k]
  BY Shifted
<1>3. ASSUME NEW e, NEW d, Waits(s, t, e, d)
      PROVE  Waits(q, r, e, d) \/ (e = Head(s) /\ d = Head(t))
  <2>1. PICK k \in 1 .. Len(s) : s[k] = e /\ t[k] = d
    BY <1>1, <1>3 DEF Waits
  <2>2. CASE k = 1
    BY <1>1, <1>2, <2>1, <2>2
  <2>3. CASE k # 1
    <3>1. k \in 2 .. Len(s) /\ Len(p) + k - 1 \in 1 .. Len(q)
      BY <1>1, <2>1, <2>3
    <3>2. q[Len(p) + k - 1] = e /\ r[Len(p) + k - 1] = d
      BY <1>1, <1>2, <2>1, <3>1
    <3>. QED
      BY <1>1, <3>1, <3>2 DEF Waits
  <2>. QED
    BY <2>2, <2>3
<1>4. ASSUME NEW k \in DOMAIN p PROVE Waits(q, r, p[k], o[k])
  <2>1. k \in 1 .. Len(p) /\ k \in DOMAIN q
    BY <1>1
  <2>2. q[k] = p[k] /\ r[k] = o[k]
    BY <1>1, <1>2, <2>1
  <2>. QED
    BY <2>1, <2>2 DEF Waits
<1>5. ASSUME NEW e, NEW d, Waits(q, r, e, d)
      PROVE  Waits(s, t, e, d) \/ Waits(p, o, e, d)
  <2>1. PICK k \in 1 .. Len(q) : q[k] = e /\ r[k] = d
    BY <1>1, <1>5 DEF Waits
  <2>2. CASE k <= Len(p)
    <3>1. k \in 1 .. Len(p)
      BY <1>1, <2>1, <2>2
    <3>2. p[k] = e /\ o[k] = d
      BY <1>1, <1>2, <2>1, <3>1
    <3>. QED
      BY <1>1, <3>1, <3>2 DEF Waits
  <2>3. CASE ~(k <= Len(p))
    <3>. DEFINE l == k - Len(p) + 1
    <3>1. l \in 2 .. Len(s) /\ l \in 2 .. Len(t) /\ Len(p) + l - 1 = k /\ Len(o) + l - 1 = k
          /\ l \in 1 .. Len(s)
      BY <1>1, <2>1, <2>3
    <3>. HIDE DEF l
    <3>2. q[Len(p) + l - 1] = s[l] /\ r[Len(o) + l - 1] = t[l]
      BY <1>1, <1>2, <3>1
    <3>3. s[l] = e /\ t[l] = d
      BY <2>1, <3>1, <3>2
    <3>. QED
      BY <1>1, <3>1, <3>3 DEF Waits
  <2>. QED
    BY <2>2, <2>3
<1>6. Len(q) = Len(r)
  BY <1>1, <1>2
<1>. QED
  BY <1>3, <1>4, <1>5, <1>6 DEF Advanced

BothNew(c, e, v, d, x) ==
  /\ IsNew(c, e, v) <=> IsNew(c, d, x)
  /\ Len(Pushed(c, e, v)) = Len(Pushed(c, d, x))
  /\ IsNew(c, e, v) => /\ e[1] = "struct" /\ d[1] = "struct"
                       /\ c.body[e[2]] # Opaque /\ c.body[d[2]] # Opaque
                       /\ Len(c.body[e[2]]) = Len(c.body[d[2]])
                       /\ Pushed(c, e, v) = c.body[e[2]] /\ Pushed(c, d, x) = c.body[d[2]]

LEMMA AlikeAdvance ==
  ASSUME NEW c, NEW S, NEW v \in Seq(S), NEW x \in Seq(S), Len(v) = Len(x),
         NEW e, NEW d, Alike(c, e, v, d, x)
  PROVE  BothNew(c, e, v, d, x)
<1>. SUFFICES /\ IsNew(c, e, v) <=> IsNew(c, d, x)
              /\ Len(Pushed(c, e, v)) = Len(Pushed(c, d, x))
              /\ IsNew(c, e, v) => /\ e[1] = "struct" /\ d[1] = "struct"
                                   /\ c.body[e[2]] # Opaque /\ c.body[d[2]] # Opaque
                                   /\ Len(c.body[e[2]]) = Len(c.body[d[2]])
                                   /\ Pushed(c, e, v) = c.body[e[2]] /\ Pushed(c, d, x) = c.body[d[2]]
  BY DEF BothNew
<1>1. CASE e[1] = "ptr" /\ d[1] = "ptr"
  <2>1. ~IsNew(c, e, v) /\ ~IsNew(c, d, x)
    BY <1>1 DEF IsNew
  <2>2. Pushed(c, e, v) = << <<"struct", e[2]>> >> /\ Pushed(c, d, x) = << <<"struct", d[2]>> >>
    BY <1>1 DEF Pushed
  <2>3. Len(Pushed(c, e, v)) = 1 /\ Len(Pushed(c, d, x)) = 1
    BY <2>2
  <2>. QED
    BY <2>1, <2>3
<1>2. CASE e = d /\ e[1] # "ptr" /\ e[1] # "struct"
  <2>1. ~IsNew(c, e, v) /\ ~IsNew(c, d, x)
    BY <1>2 DEF IsNew
  <2>2. Pushed(c, e, v) = <<>> /\ Pushed(c, d, x) = <<>>
    BY <1>2, <2>1 DEF Pushed
  <2>. QED
    BY <2>1, <2>2
<1>3. CASE e[1] = "struct" /\ d[1] = "struct" /\ AlikeStructs(c, e[2], v, d[2], x)
  <2>1. CASE BothOpaque(c, e[2], d[2])
    <3>1. ~IsNew(c, e, v) /\ ~IsNew(c, d, x)
      BY <2>1 DEF IsNew, BothOpaque
    <3>2. Pushed(c, e, v) = <<>> /\ Pushed(c, d, x) = <<>>
      BY <1>3, <3>1 DEF Pushed
    <3>. QED
      BY <3>1, <3>2
  <2>2. CASE /\ c.body[e[2]] # Opaque /\ c.body[d[2]] # Opaque
             /\ Len(c.body[e[2]]) = Len(c.body[d[2]]) /\ NumberOf(e[2], v) = NumberOf(d[2], x)
    <3>1. IsNew(c, e, v) <=> IsNew(c, d, x)
      BY <1>3, <2>2 DEF IsNew
    <3>2. CASE IsNew(c, e, v)
      <4>1. Pushed(c, e, v) = c.body[e[2]] /\ Pushed(c, d, x) = c.body[d[2]]
        BY <1>3, <3>1, <3>2 DEF Pushed
      <4>. QED
        BY <1>3, <2>2, <3>1, <4>1
    <3>3. CASE ~IsNew(c, e, v)
      <4>1. Pushed(c, e, v) = <<>> /\ Pushed(c, d, x) = <<>>
        BY <1>3, <3>1, <3>3 DEF Pushed
      <4>. QED
        BY <3>1, <3>3, <4>1
    <3>. QED
      BY <3>2, <3>3
  <2>. QED
    BY <1>3, <2>1, <2>2 DEF AlikeStructs
<1>. QED
  BY <1>1, <1>2, <1>3 DEF Alike

LEMMA AfterFacts ==
  ASSUME NEW c, NEW S, NEW v \in Seq(S), NEW e, After(c, e, v) \in Seq(S)
  PROVE  /\ Len(v) \in Nat /\ DOMAIN v = 1 .. Len(v)
         /\ \A k \in DOMAIN v : k \in DOMAIN After(c, e, v) /\ After(c, e, v)[k] = v[k]
         /\ IsNew(c, e, v) => /\ Len(After(c, e, v)) = Len(v) + 1
                              /\ DOMAIN After(c, e, v) = 1 .. Len(v) + 1
                              /\ After(c, e, v)[Len(v) + 1] = e[2]
         /\ ~IsNew(c, e, v) => After(c, e, v) = v
<1>1. CASE IsNew(c, e, v)
  <2>1. After(c, e, v) = Append(v, e[2])
    BY <1>1 DEF After
  <2>2. /\ Len(v) \in Nat /\ DOMAIN v = 1 .. Len(v) /\ Len(Append(v, e[2])) = Len(v) + 1
        /\ DOMAIN Append(v, e[2]) = 1 .. Len(v) + 1 /\ Append(v, e[2])[Len(v) + 1] = e[2]
        /\ \A k \in 1 .. Len(v) : Append(v, e[2])[k] = v[k]
    OBVIOUS
  <2>. QED
    BY <1>1, <2>1, <2>2
<1>2. CASE ~IsNew(c, e, v)
  BY <1>2 DEF After
<1>. QED
  BY <1>1, <1>2

Level(u, w) ==
  u.result = w.result /\ Len(u.stack) = Len(w.stack) /\ Len(u.visited) = Len(w.visited)

(* Where both walks are, and what they do next.                            *)
Abreast(c, a, b, u, w, e, d) ==
  /\ WalkOK(c, a, u) /\ WalkOK(c, b, w) /\ u.stack # <<>> /\ w.stack # <<>> /\ Level(u, w)
  /\ e = Head(u.stack) /\ d = Head(w.stack) /\ Alike(c, e, u.visited, d, w.visited)

(* The two walks a step later: their stacks and what they have visited.    *)
Stacks(c, u, w, e, d, s, t) ==
  /\ \A x, y : Waits(u.stack, w.stack, x, y) => Waits(s, t, x, y) \/ (x = e /\ y = d)
  /\ \A k \in DOMAIN Pushed(c, e, u.visited) :
       Waits(s, t, Pushed(c, e, u.visited)[k], Pushed(c, d, w.visited)[k])
  /\ \A x, y : Waits(s, t, x, y) =>
       \/ Waits(u.stack, w.stack, x, y)
       \/ Waits(Pushed(c, e, u.visited), Pushed(c, d, w.visited), x, y)

Visits(v, x, v2, x2, s, t, new) ==
  /\ DOMAIN v = 1 .. Len(v) /\ Len(v) \in Nat /\ Len(x) = Len(v)
  /\ \A k \in DOMAIN v : k \in DOMAIN v2 /\ v2[k] = v[k] /\ x2[k] = x[k]
  /\ new => /\ DOMAIN v2 = 1 .. Len(v) + 1
            /\ v2[Len(v) + 1] = s /\ x2[Len(v) + 1] = t
  /\ ~new => v2 = v /\ x2 = x

LEMMA VisitBoth ==
  ASSUME NEW c \in TypeContexts, NEW a \in StructsOf(c), NEW b \in StructsOf(c), NEW u, NEW w,
         NEW e, NEW d, Abreast(c, a, b, u, w, e, d),
         NEW m, m = Visit(c, u), NEW n, n = Visit(c, w)
  PROVE  /\ e \in Near(c, a) /\ d \in Near(c, b)
         /\ WalkOK(c, a, m) /\ WalkOK(c, b, n) /\ Level(m, n)
         /\ Stacks(c, u, w, e, d, m.stack, n.stack)
         /\ Visits(u.visited, w.visited, m.visited, n.visited, e[2], d[2], IsNew(c, e, u.visited))
<1>. DEFINE v == u.visited
            x == w.visited
            S == TypesIn(c)
            D == StructsOf(c)
            p == Pushed(c, e, v)
            o == Pushed(c, d, x)
<1>1. /\ WalkOK(c, a, u) /\ WalkOK(c, b, w) /\ u.stack # <<>> /\ w.stack # <<>> /\ Level(u, w)
      /\ e = Head(u.stack) /\ d = Head(w.stack) /\ Alike(c, e, v, d, x)
  BY DEF Abreast
<1>2. e \in Near(c, a) /\ p \in Seq(Near(c, a)) /\ Follows(c, e, u, m) /\ WalkOK(c, a, m)
  BY <1>1, VisitKeepsSymbols
<1>3. d \in Near(c, b) /\ o \in Seq(Near(c, b)) /\ Follows(c, d, w, n) /\ WalkOK(c, b, n)
  BY <1>1, VisitKeepsSymbols
<1>4. \A z \in D : \A y : WalkOK(c, z, y) => y.stack \in Seq(S) /\ y.visited \in Seq(D)
  <2>. SUFFICES ASSUME NEW z \in D, NEW y, WalkOK(c, z, y)
                PROVE  y.stack \in Seq(S) /\ y.visited \in Seq(D)
    OBVIOUS
  <2>. DEFINE N == Near(c, z)
              F == Full(c, z)
  <2>1. N \subseteq S /\ F \subseteq D
    BY ReachableFacts DEF Near, Full
  <2>2. y.stack \in Seq(N) /\ y.visited \in Seq(F)
    BY DEF WalkOK
  <2>. HIDE DEF N, F, S, D
  <2>. QED
    BY <2>1, <2>2
<1>5. p \in Seq(S) /\ o \in Seq(S)
  <2>. DEFINE N == Near(c, a)
              O == Near(c, b)
  <2>1. N \subseteq S /\ O \subseteq S
    BY DEF Near
  <2>. HIDE DEF N, O, S, p, o
  <2>2. p \in Seq(N) /\ o \in Seq(O)
    BY <1>2, <1>3 DEF N, O, p, o
  <2>. QED
    BY <2>1, <2>2
<1>6. /\ u.stack \in Seq(S) /\ w.stack \in Seq(S) /\ v \in Seq(D) /\ x \in Seq(D)
      /\ m.visited \in Seq(D) /\ n.visited \in Seq(D)
  BY <1>1, <1>2, <1>3, <1>4
<1>7. (IsNew(c, e, v) <=> IsNew(c, d, x)) /\ Len(p) = Len(o)
  <2>1. Len(v) = Len(x) /\ Alike(c, e, v, d, x)
    BY <1>1 DEF Level
  <2>. HIDE DEF v, x, D
  <2>2. BothNew(c, e, v, d, x)
    BY ONLY <1>6, <2>1, AlikeAdvance
  <2>. QED
    BY <2>2 DEF BothNew
<1>8. Symbol(c, e, v) = Symbol(c, d, x)
  <2>1. e \in S /\ d \in S
    BY <1>2, <1>3 DEF Near
  <2>. QED
    BY <1>1, <2>1, AlikeSymbols
<1>9. Len(m.stack) = Len(n.stack) /\ Stacks(c, u, w, e, d, m.stack, n.stack)
  <2>. DEFINE s == u.stack
              t == w.stack
              q == m.stack
              r == n.stack
  <2>1. q = p \o Tail(s) /\ r = o \o Tail(t) /\ Len(s) = Len(t) /\ s # <<>> /\ t # <<>>
        /\ s \in Seq(S) /\ t \in Seq(S) /\ e = Head(s) /\ d = Head(t)
    BY <1>1, <1>2, <1>3, <1>6 DEF Follows, Level
  <2>. HIDE DEF S, D, p, o, s, t, q, r
  <2>2. Advanced(s, p, q, t, o, r)
    BY ONLY <1>5, <1>7, <2>1, WaitsOn
  <2>. QED
    BY <2>1, <2>2 DEF Advanced, Stacks, p, o, s, t, q, r
<1>10. Visits(v, x, m.visited, n.visited, e[2], d[2], IsNew(c, e, v))
       /\ Len(m.visited) = Len(n.visited)
  <2>. DEFINE f == After(c, e, v)
              g == After(c, d, x)
  <2>1. m.visited = f /\ n.visited = g /\ f \in Seq(D) /\ g \in Seq(D) /\ Len(x) = Len(v)
    BY <1>1, <1>2, <1>3, <1>6 DEF Follows, Level
  <2>2. /\ Len(v) \in Nat /\ DOMAIN v = 1 .. Len(v)
        /\ \A k \in DOMAIN v : k \in DOMAIN f /\ f[k] = v[k]
        /\ IsNew(c, e, v) => Len(f) = Len(v) + 1 /\ DOMAIN f = 1 .. Len(v) + 1 /\ f[Len(v) + 1] = e[2]
        /\ ~IsNew(c, e, v) => f = v
    BY <1>6, <2>1, AfterFacts
  <2>3. /\ DOMAIN x = 1 .. Len(x)
        /\ \A k \in DOMAIN x : g[k] = x[k]
        /\ IsNew(c, d, x) => Len(g) = Len(x) + 1 /\ g[Len(x) + 1] = d[2]
        /\ ~IsNew(c, d, x) => g = x
    BY <1>6, <2>1, AfterFacts
  <2>. HIDE DEF f, g, v, x
  <2>4. Visits(v, x, f, g, e[2], d[2], IsNew(c, e, v))
    BY <1>7, <2>1, <2>2, <2>3 DEF Visits
  <2>5. Len(f) = Len(g)
    BY <1>7, <2>1, <2>2, <2>3
  <2>. QED
    BY <2>1, <2>4, <2>5 DEF v, x
<1>11. m.result = n.result
  <2>1. u.result = w.result
    BY <1>1 DEF Level
  <2>. QED
    BY <1>2, <1>3, <1>8, <2>1 DEF Follows
<1>. QED
  BY <1>2, <1>3, <1>9, <1>10, <1>11 DEF Level

(***************************************************************************)
(* Walks that write the same: each pair of elements in the same place of   *)
(* structs of the same number is matched, or still on the stacks.          *)
(***************************************************************************)
SameStruct(c, v, x, s, t) == (\E k \in DOMAIN v : v[k] = s /\ x[k] = t) \/ BothOpaque(c, s, t)

Matched(c, v, x, e, d) ==
  e[1] = d[1] /\ (e[1] \in {"ptr", "struct"} => SameStruct(c, v, x, e[2], d[2]))

Pointee(e) == <<"struct", e[2]>>

Tracked(c, u, w, e, d) ==
  \/ Matched(c, u.visited, w.visited, e, d)
  \/ Waits(u.stack, w.stack, e, d)
  \/ e[1] = "ptr" /\ d[1] = "ptr" /\ Waits(u.stack, w.stack, Pointee(e), Pointee(d))

BodiesTracked(c, u, w, s, t) ==
  /\ Len(c.body[s]) = Len(c.body[t])
  /\ \A j \in DOMAIN c.body[s] : Tracked(c, u, w, c.body[s][j], c.body[t][j])

Agreeing(c, a, b, u, w) ==
  /\ Level(u, w)
  /\ Tracked(c, u, w, <<"struct", a>>, <<"struct", b>>)
  /\ \A k \in DOMAIN u.visited : BodiesTracked(c, u, w, u.visited[k], w.visited[k])

LEMMA HeadSettled ==
  ASSUME NEW c \in TypeContexts, NEW a \in StructsOf(c), NEW b \in StructsOf(c), NEW u, NEW w,
         NEW e, NEW d, Abreast(c, a, b, u, w, e, d),
         NEW m, m = Visit(c, u), NEW n, n = Visit(c, w)
  PROVE  /\ Tracked(c, m, n, e, d)
         /\ e[1] = "struct" => Matched(c, m.visited, n.visited, e, d)
<1>. DEFINE v == u.visited
            x == w.visited
            f == m.visited
            g == n.visited
            new == IsNew(c, e, v)
<1>1. /\ Stacks(c, u, w, e, d, m.stack, n.stack) /\ Visits(v, x, f, g, e[2], d[2], new)
  BY VisitBoth
<1>2. /\ Alike(c, e, v, d, x) /\ v \in Seq(Full(c, a)) /\ x \in Seq(Full(c, b)) /\ Len(v) = Len(x)
  BY DEF Abreast, WalkOK, Level
<1>3. CASE e[1] = "ptr" /\ d[1] = "ptr"
  <2>1. Pushed(c, e, v) = << Pointee(e) >> /\ Pushed(c, d, x) = << Pointee(d) >>
    BY <1>3 DEF Pushed, Pointee
  <2>2. 1 \in DOMAIN Pushed(c, e, v) /\ Pushed(c, e, v)[1] = Pointee(e) /\ Pushed(c, d, x)[1] = Pointee(d)
    BY <2>1
  <2>3. Waits(m.stack, n.stack, Pointee(e), Pointee(d))
    BY <1>1, <2>2 DEF Stacks
  <2>. QED
    BY <1>3, <2>3 DEF Tracked
<1>4. CASE e = d /\ e[1] # "ptr" /\ e[1] # "struct"
  BY <1>4 DEF Tracked, Matched
<1>5. CASE e[1] = "struct" /\ d[1] = "struct" /\ AlikeStructs(c, e[2], v, d[2], x)
  <2>1. SameStruct(c, f, g, e[2], d[2])
    <3>1. CASE BothOpaque(c, e[2], d[2])
      BY <3>1 DEF SameStruct
    <3>2. CASE c.body[e[2]] # Opaque /\ NumberOf(e[2], v) = NumberOf(d[2], x)
      <4>1. CASE new
        <5>1. Len(v) + 1 \in DOMAIN f /\ f[Len(v) + 1] = e[2] /\ g[Len(v) + 1] = d[2]
          BY <1>1, <4>1 DEF Visits
        <5>. QED
          BY <5>1 DEF SameStruct
      <4>2. CASE ~new
        <5>1. f = v /\ g = x
          BY <1>1, <4>2 DEF Visits
        <5>. DEFINE k == NumberOf(e[2], v)
        <5>2. k \in DOMAIN v /\ v[k] = e[2] /\ k <= Len(v)
          <6>1. \E l \in DOMAIN v : v[l] = e[2]
            BY <1>2, <1>5, <3>2, <4>2, NewMeans
          <6>. QED
            BY ONLY <1>2, <6>1, NumberFacts
        <5>3. x[k] = d[2]
          <6>1. NumberOf(d[2], x) <= Len(x)
            BY <1>2, <3>2, <5>2
          <6>. HIDE DEF v, x, k
          <6>2. ASSUME ~(\E l \in DOMAIN x : x[l] = d[2]) PROVE FALSE
            <7>1. NumberOf(d[2], x) = Len(x) + 1 /\ Len(x) \in Nat
              BY ONLY <1>2, <6>2, NumberFacts
            <7>. QED
              BY <6>1, <7>1
          <6>3. x[NumberOf(d[2], x)] = d[2]
            BY ONLY <1>2, <6>2, NumberFacts
          <6>. QED
            BY <3>2, <6>3 DEF k
        <5>. QED
          BY <5>1, <5>2, <5>3 DEF SameStruct
      <4>. QED
        BY <4>1, <4>2
    <3>. QED
      BY <1>5, <3>1, <3>2 DEF AlikeStructs
  <2>2. Matched(c, f, g, e, d)
    BY <1>5, <2>1 DEF Matched
  <2>. QED
    BY <2>2 DEF Tracked
<1>. QED
  BY <1>2, <1>3, <1>4, <1>5 DEF Alike

LEMMA TrackedOn ==
  ASSUME NEW c \in TypeContexts, NEW a \in StructsOf(c), NEW b \in StructsOf(c), NEW u, NEW w,
         NEW e, NEW d, Abreast(c, a, b, u, w, e, d),
         NEW m, m = Visit(c, u), NEW n, n = Visit(c, w)
  PROVE  /\ \A y, z : Tracked(c, u, w, y, z) => Tracked(c, m, n, y, z)
         /\ IsNew(c, e, u.visited) => BodiesTracked(c, m, n, e[2], d[2])
<1>. DEFINE v == u.visited
            x == w.visited
            f == m.visited
            g == n.visited
            new == IsNew(c, e, v)
<1>1. /\ Stacks(c, u, w, e, d, m.stack, n.stack) /\ Visits(v, x, f, g, e[2], d[2], new)
  BY VisitBoth
<1>2. /\ Tracked(c, m, n, e, d)
      /\ e[1] = "struct" => Matched(c, f, g, e, d)
  BY HeadSettled
<1>3. \A y, z : Matched(c, v, x, y, z) => Matched(c, f, g, y, z)
  <2>1. \A s, t : SameStruct(c, v, x, s, t) => SameStruct(c, f, g, s, t)
    <3>. SUFFICES ASSUME NEW s, NEW t, SameStruct(c, v, x, s, t) PROVE SameStruct(c, f, g, s, t)
      OBVIOUS
    <3>1. CASE BothOpaque(c, s, t)
      BY <3>1 DEF SameStruct
    <3>2. CASE \E k \in DOMAIN v : v[k] = s /\ x[k] = t
      <4>1. PICK k \in DOMAIN v : v[k] = s /\ x[k] = t
        BY <3>2
      <4>2. k \in DOMAIN f /\ f[k] = s /\ g[k] = t
        BY <1>1, <4>1 DEF Visits
      <4>. QED
        BY <4>2 DEF SameStruct
    <3>. QED
      BY <3>1, <3>2 DEF SameStruct
  <2>. QED
    BY <2>1 DEF Matched
<1>4. ASSUME NEW y, NEW z, Tracked(c, u, w, y, z) PROVE Tracked(c, m, n, y, z)
  <2>1. CASE Matched(c, v, x, y, z)
    BY <1>3, <2>1 DEF Tracked
  <2>2. CASE Waits(u.stack, w.stack, y, z)
    <3>1. Waits(m.stack, n.stack, y, z) \/ (y = e /\ z = d)
      BY <1>1, <2>2 DEF Stacks
    <3>2. CASE Waits(m.stack, n.stack, y, z)
      BY <3>2 DEF Tracked
    <3>3. CASE y = e /\ z = d
      BY <1>2, <3>3
    <3>. QED
      BY <3>1, <3>2, <3>3
  <2>3. CASE y[1] = "ptr" /\ z[1] = "ptr" /\ Waits(u.stack, w.stack, Pointee(y), Pointee(z))
    <3>1. Waits(m.stack, n.stack, Pointee(y), Pointee(z)) \/ (Pointee(y) = e /\ Pointee(z) = d)
      BY <1>1, <2>3 DEF Stacks
    <3>2. CASE Waits(m.stack, n.stack, Pointee(y), Pointee(z))
      BY <2>3, <3>2 DEF Tracked
    <3>3. CASE Pointee(y) = e /\ Pointee(z) = d
      <4>1. e[1] = "struct" /\ e[2] = y[2] /\ d[2] = z[2]
        BY <3>3 DEF Pointee
      <4>2. SameStruct(c, f, g, y[2], z[2])
        BY <1>2, <4>1 DEF Matched
      <4>3. Matched(c, f, g, y, z)
        BY <2>3, <4>2 DEF Matched
      <4>. QED
        BY <4>3 DEF Tracked
    <3>. QED
      BY <3>1, <3>2, <3>3
  <2>. QED
    BY <1>4, <2>1, <2>2, <2>3 DEF Tracked
<1>5. ASSUME new PROVE BodiesTracked(c, m, n, e[2], d[2])
  <2>1. Alike(c, e, v, d, x) /\ v \in Seq(Full(c, a)) /\ x \in Seq(Full(c, b)) /\ Len(v) = Len(x)
    BY DEF Abreast, WalkOK, Level
  <2>2. BothNew(c, e, v, d, x)
    <3>. DEFINE D == StructsOf(c)
                F == Full(c, a)
                G == Full(c, b)
    <3>1. F \subseteq D /\ G \subseteq D
      BY ReachableFacts DEF Full
    <3>. HIDE DEF D, F, G, v, x
    <3>2. v \in Seq(D) /\ x \in Seq(D)
      BY <2>1, <3>1 DEF F, G
    <3>. QED
      BY ONLY <2>1, <3>2, AlikeAdvance
  <2>3. /\ Pushed(c, e, v) = c.body[e[2]] /\ Pushed(c, d, x) = c.body[d[2]]
        /\ Len(c.body[e[2]]) = Len(c.body[d[2]])
    BY <1>5, <2>2 DEF BothNew
  <2>4. \A j \in DOMAIN c.body[e[2]] : Waits(m.stack, n.stack, c.body[e[2]][j], c.body[d[2]][j])
    BY <1>1, <2>3 DEF Stacks
  <2>. QED
    BY <2>3, <2>4 DEF BodiesTracked, Tracked
<1>. QED
  BY <1>4, <1>5

LEMMA AgreeingStep ==
  ASSUME NEW c \in TypeContexts, NEW a \in StructsOf(c), NEW b \in StructsOf(c), NEW u, NEW w,
         NEW e, NEW d, Abreast(c, a, b, u, w, e, d), Agreeing(c, a, b, u, w),
         NEW m, m = Visit(c, u), NEW n, n = Visit(c, w)
  PROVE  Agreeing(c, a, b, m, n)
<1>. DEFINE v == u.visited
            x == w.visited
            f == m.visited
            g == n.visited
            new == IsNew(c, e, v)
<1>1. /\ \A y, z : Tracked(c, u, w, y, z) => Tracked(c, m, n, y, z)
      /\ new => BodiesTracked(c, m, n, e[2], d[2])
  BY TrackedOn
<1>2. Level(m, n) /\ Visits(v, x, f, g, e[2], d[2], new)
  BY VisitBoth
<1>3. \A s, t : BodiesTracked(c, u, w, s, t) => BodiesTracked(c, m, n, s, t)
  BY <1>1 DEF BodiesTracked
<1>4. ASSUME NEW k \in DOMAIN f PROVE BodiesTracked(c, m, n, f[k], g[k])
  <2>1. CASE k \in DOMAIN v
    <3>1. f[k] = v[k] /\ g[k] = x[k]
      BY <1>2, <2>1 DEF Visits
    <3>. QED
      BY <1>3, <2>1, <3>1 DEF Agreeing
  <2>2. CASE k \notin DOMAIN v
    <3>1. new
      BY <1>2, <2>2, <1>4 DEF Visits
    <3>2. k = Len(v) + 1
      BY <1>2, <1>4, <2>2, <3>1 DEF Visits
    <3>3. f[k] = e[2] /\ g[k] = d[2]
      BY <1>2, <3>1, <3>2 DEF Visits
    <3>. QED
      BY <1>1, <3>1, <3>3
  <2>. QED
    BY <2>1, <2>2
<1>. QED
  BY <1>1, <1>2, <1>4 DEF Agreeing

LEMMA WalksAgree ==
  ASSUME NEW c \in TypeContexts, NEW a \in StructsOf(c), NEW b \in StructsOf(c),
         NEW u, Walks(u, WalkBound, c, a), NEW w, Walks(w, WalkBound, c, b),
         u[WalkBound].result = w[WalkBound].result
  PROVE  Agreeing(c, a, b, u[WalkBound], w[WalkBound])
<1>. DEFINE Reached == {k \in Nat : k <= WalkBound => Agreeing(c, a, b, u[k], w[k])}
<1>1. /\ WalkBound \in Nat
      /\ \A k \in Nat : k <= WalkBound => WalkOK(c, a, u[k]) /\ WalkOK(c, b, w[k])
  BY WalkEnds
<1>2. 0 \in Reached
  <2>1. u[0] = Start(a) /\ w[0] = Start(b)
    BY <1>1, WalkSteps
  <2>2. Level(Start(a), Start(b))
    BY DEF Level, Start
  <2>3. 1 \in DOMAIN << <<"struct", a>> >> /\ << <<"struct", a>> >>[1] = <<"struct", a>>
        /\ << <<"struct", b>> >>[1] = <<"struct", b>>
    OBVIOUS
  <2>4. Waits(Start(a).stack, Start(b).stack, <<"struct", a>>, <<"struct", b>>)
    BY <2>3 DEF Waits, Start
  <2>5. Start(a).visited = <<>> /\ DOMAIN <<>> = {}
    BY DEF Start
  <2>6. Agreeing(c, a, b, Start(a), Start(b))
    BY <2>2, <2>4, <2>5 DEF Agreeing, Tracked
  <2>. QED
    BY <2>1, <2>6
<1>3. ASSUME NEW k \in Nat, k \in Reached PROVE k + 1 \in Reached
  <2>. SUFFICES ASSUME k + 1 <= WalkBound PROVE Agreeing(c, a, b, u[k + 1], w[k + 1])
    OBVIOUS
  <2>1. k <= WalkBound
    BY <1>1
  <2>2. PICK p, q : p = u[k] /\ q = w[k]
    OBVIOUS
  <2>3. Agreeing(c, a, b, p, q) /\ WalkOK(c, a, p) /\ WalkOK(c, b, q)
    BY <1>1, <1>3, <2>1, <2>2
  <2>4. u[k + 1] = Walked(c, p) /\ w[k + 1] = Walked(c, q)
    <3>1. u[k + 1] = Walked(c, u[k])
      BY <1>1, WalkSteps
    <3>2. w[k + 1] = Walked(c, w[k])
      BY <1>1, WalkSteps
    <3>. QED
      BY <2>2, <3>1, <3>2
  <2>5. p.stack = <<>> <=> q.stack = <<>>
    <3>1. p.stack \in Seq(Near(c, a)) /\ q.stack \in Seq(Near(c, b)) /\ Len(p.stack) = Len(q.stack)
      BY <2>3 DEF WalkOK, Agreeing, Level
    <3>2. \A S : \A s \in Seq(S) : s = <<>> <=> Len(s) = 0
      OBVIOUS
    <3>. QED
      BY <3>1, <3>2
  <2>6. CASE p.stack = <<>>
    BY <2>3, <2>4, <2>5, <2>6 DEF Walked
  <2>7. CASE p.stack # <<>>
    <3>1. PICK e, d, m, n : /\ e = Head(p.stack) /\ d = Head(q.stack)
                            /\ m = Visit(c, p) /\ n = Visit(c, q)
      OBVIOUS
    <3>2. u[k + 1] = m /\ w[k + 1] = n
      BY <2>4, <2>5, <2>7, <3>1 DEF Walked
    <3>3. u[WalkBound].result[Len(p.result) + 1] = Symbol(c, e, p.visited)
      BY <2>2, <2>7, <3>1, VectorHolds
    <3>4. w[WalkBound].result[Len(q.result) + 1] = Symbol(c, d, q.visited)
      BY <2>2, <2>5, <2>7, <3>1, VectorHolds
    <3>5. Symbol(c, e, p.visited) = Symbol(c, d, q.visited)
      BY <2>3, <3>3, <3>4 DEF Agreeing, Level
    <3>6. e \in TypesIn(c) /\ d \in TypesIn(c)
      <4>1. e \in Near(c, a)
        BY <2>3, <2>7, <3>1, VisitKeepsSymbols
      <4>2. d \in Near(c, b)
        BY <2>3, <2>5, <2>7, <3>1, VisitKeepsSymbols
      <4>. QED
        BY <4>1, <4>2 DEF Near
    <3>7. Alike(c, e, p.visited, d, q.visited)
      BY <3>5, <3>6, AlikeSymbols
    <3>8. Abreast(c, a, b, p, q, e, d)
      BY <2>3, <2>5, <2>7, <3>1, <3>7 DEF Abreast, Agreeing
    <3>. QED
      BY <2>3, <3>1, <3>2, <3>8, AgreeingStep
  <2>. QED
    BY <2>6, <2>7
<1>. HIDE DEF Reached
<1>4. \A k \in Nat : k \in Reached
  BY <1>2, <1>3, Inductive
<1>5. WalkBound \in Reached /\ WalkBound <= WalkBound
  BY <1>1, <1>4
<1>. QED
  BY <1>5 DEF Reached

LEMMA EqualMakesIsomorphic ==
  ASSUME NEW c \in TypeContexts, NEW a \in StructsOf(c), NEW b \in StructsOf(c),
         NEW m, NEW n, WalkOK(c, a, m), WalkOK(c, b, n), Agreeing(c, a, b, m, n),
         m.stack = <<>>
  PROVE  Isomorphic(c, a, b)
<1>. DEFINE v == m.visited
            x == n.visited
            R == ReachableStructs(c, a)
            Q == ReachableStructs(c, b)
            Body(s) == c.body[s]
            Same(s, t) == SameStruct(c, v, x, s, t)
<1>1. /\ v \in Seq(Full(c, a)) /\ x \in Seq(Full(c, b)) /\ Distinct(v) /\ Distinct(x)
      /\ Len(v) = Len(x) /\ DOMAIN v = DOMAIN x
      /\ \A k \in DOMAIN v : v[k] \in Full(c, a) /\ x[k] \in Full(c, b)
  <2>. DEFINE F == Full(c, a)
              G == Full(c, b)
  <2>1. v \in Seq(F) /\ x \in Seq(G) /\ Distinct(v) /\ Distinct(x) /\ Len(v) = Len(x)
    BY DEF WalkOK, Agreeing, Level
  <2>. HIDE DEF F, G, v, x
  <2>2. DOMAIN v = 1 .. Len(v) /\ DOMAIN x = 1 .. Len(x)
    BY <2>1
  <2>3. \A k \in DOMAIN v : v[k] \in F /\ x[k] \in G
    BY <2>1, <2>2
  <2>. QED
    BY <2>1, <2>2, <2>3 DEF F, G
<1>2. \A e, d : Tracked(c, m, n, e, d) => Matched(c, v, x, e, d)
  <2>1. \A t, e, d : ~Waits(<<>>, t, e, d)
    BY DEF Waits
  <2>. QED
    BY <2>1 DEF Tracked
<1>3. \A k \in DOMAIN v : /\ Len(Body(v[k])) = Len(Body(x[k]))
                          /\ \A j \in DOMAIN Body(v[k]) : Matched(c, v, x, Body(v[k])[j], Body(x[k])[j])
  BY <1>2 DEF Agreeing, BodiesTracked
<1>4. Same(a, b)
  <2>1. Matched(c, v, x, <<"struct", a>>, <<"struct", b>>)
    BY <1>2 DEF Agreeing
  <2>. QED
    BY <2>1 DEF Matched
<1>5. a \in R /\ b \in Q /\ R \subseteq StructsOf(c) /\ Q \subseteq StructsOf(c)
  BY ReachableFacts
<1>6. \A k \in DOMAIN v : /\ Body(v[k]) \in Seq(Near(c, a)) /\ Body(x[k]) \in Seq(Near(c, b))
                          /\ v[k] \in R /\ x[k] \in Q /\ Body(v[k]) # Opaque /\ Body(x[k]) # Opaque
  BY <1>1, BodyNear DEF Full
<1>7. \A k \in DOMAIN v : \A j \in DOMAIN Body(v[k]) :
        LET e == Body(v[k])[j]
            d == Body(x[k])[j]
        IN /\ e \in Near(c, a) /\ d \in Near(c, b) /\ e[1] = d[1]
           /\ e[1] \in {"ptr", "struct"} => Same(e[2], d[2]) /\ e[2] \in R /\ d[2] \in Q
  <2>. SUFFICES ASSUME NEW k \in DOMAIN v, NEW j \in DOMAIN Body(v[k])
                PROVE  LET e == Body(v[k])[j]
                           d == Body(x[k])[j]
                       IN /\ e \in Near(c, a) /\ d \in Near(c, b) /\ e[1] = d[1]
                          /\ e[1] \in {"ptr", "struct"} => Same(e[2], d[2]) /\ e[2] \in R /\ d[2] \in Q
    OBVIOUS
  <2>1. PICK e, d : e = Body(v[k])[j] /\ d = Body(x[k])[j]
    OBVIOUS
  <2>2. e \in Near(c, a) /\ d \in Near(c, b)
    <3>. DEFINE N == Near(c, a)
                O == Near(c, b)
                s == Body(v[k])
                t == Body(x[k])
    <3>1. s \in Seq(N) /\ t \in Seq(O) /\ Len(s) = Len(t) /\ j \in DOMAIN s /\ e = s[j] /\ d = t[j]
      BY <1>3, <1>6, <2>1
    <3>. HIDE DEF N, O, s, t
    <3>. QED
      BY <3>1 DEF N, O
  <2>3. Matched(c, v, x, e, d)
    BY <1>3, <2>1
  <2>. QED
    BY <2>1, <2>2, <2>3 DEF Matched, Near
<1>8. \A s \in R : (\E k \in DOMAIN v : v[k] = s) \/ (\E t \in Q : BothOpaque(c, s, t))
  <2>. DEFINE Met(s) == (\E k \in DOMAIN v : v[k] = s) \/ (\E t \in Q : BothOpaque(c, s, t))
              S == {s \in R : Met(s)}
  <2>1. \A s, t : t \in Q /\ Same(s, t) => Met(s)
    BY DEF SameStruct
  <2>2. a \in S
    BY <1>4, <1>5, <2>1
  <2>3. ASSUME NEW s \in S, NEW t \in Points(c, s) PROVE t \in S
    <3>1. t \in R
      BY <2>3, ReachableFacts
    <3>2. PICK j \in DOMAIN Body(s) : Body(s)[j] \in {<<"ptr", t>>, <<"struct", t>>}
      BY <2>3 DEF Points
    <3>3. Body(s) # Opaque
      <4>1. ASSUME Body(s) = Opaque PROVE FALSE
        <5>1. j = 1 /\ Body(s)[j] = <<"opaque">>
          BY <3>2, <4>1 DEF Opaque
        <5>. QED
          BY <3>2, <5>1, TupleFacts DEF Tuples
      <4>. QED
        BY <4>1
    <3>4. PICK k \in DOMAIN v : v[k] = s
      BY <2>3, <3>3 DEF BothOpaque
    <3>5. PICK e, d : e = Body(v[k])[j] /\ d = Body(x[k])[j]
      OBVIOUS
    <3>6. e[1] \in {"ptr", "struct"} /\ e[2] = t
      BY <3>2, <3>4, <3>5
    <3>7. Same(e[2], d[2]) /\ d[2] \in Q
      BY <1>7, <3>2, <3>4, <3>5, <3>6
    <3>. QED
      BY <2>1, <3>1, <3>6, <3>7
  <2>. HIDE DEF Met
  <2>4. S \in SUBSET StructsOf(c) /\ a \in S /\ \A s \in S : Points(c, s) \subseteq S
    BY <1>5, <2>2, <2>3
  <2>5. R \subseteq S
    BY <2>4, ReachableFacts
  <2>. QED
    BY <2>5 DEF Met
<1>. DEFINE InPlace(s) == CHOOSE k \in DOMAIN v : v[k] = s
            To(s) == IF Body(s) # Opaque THEN x[InPlace(s)]
                     ELSE IF s = a THEN b ELSE CHOOSE t \in Q : BothOpaque(c, s, t)
            f == [s \in R |-> To(s)]
<1>9. \A k \in DOMAIN v : InPlace(v[k]) = k /\ To(v[k]) = x[k]
  <2>1. \A k \in DOMAIN v : InPlace(v[k]) = k
    BY <1>1 DEF Distinct
  <2>. HIDE DEF InPlace
  <2>. QED
    BY <1>6, <2>1
<1>10. \A s \in R : Body(s) = Opaque => To(s) \in Q /\ BothOpaque(c, s, To(s))
  <2>. SUFFICES ASSUME NEW s \in R, Body(s) = Opaque PROVE To(s) \in Q /\ BothOpaque(c, s, To(s))
    OBVIOUS
  <2>1. CASE s = a
    <3>1. BothOpaque(c, a, b)
      BY <1>4, <1>6, <2>1 DEF SameStruct
    <3>. QED
      BY <1>5, <2>1, <3>1
  <2>2. CASE s # a
    <3>1. \E t \in Q : BothOpaque(c, s, t)
      BY <1>6, <1>8
    <3>2. To(s) = CHOOSE t \in Q : BothOpaque(c, s, t)
      BY <2>2
    <3>. QED
      BY <3>1, <3>2
  <2>. QED
    BY <2>1, <2>2
<1>11. \A s \in R : Body(s) # Opaque => \E k \in DOMAIN v : v[k] = s /\ To(s) = x[k]
  BY <1>8, <1>9 DEF BothOpaque
<1>. HIDE DEF To
<1>12. f \in [R -> Q] /\ \A s \in R : f[s] = To(s)
  <2>1. \A s \in R : To(s) \in Q
    BY <1>6, <1>10, <1>11
  <2>. QED
    BY <2>1
<1>. HIDE DEF f
<1>13. f[a] = b
  <2>1. CASE Body(a) = Opaque
    BY <1>5, <1>12, <2>1 DEF To
  <2>2. CASE Body(a) # Opaque
    <3>1. PICK k \in DOMAIN v : v[k] = a /\ x[k] = b
      BY <1>4, <2>2 DEF SameStruct, BothOpaque
    <3>. QED
      BY <1>5, <1>9, <1>12, <3>1
  <2>. QED
    BY <2>1, <2>2
<1>14. ASSUME NEW s \in R PROVE Corresponds(c, f, s)
  <2>1. CASE Body(s) = Opaque
    <3>1. Body(f[s]) = Opaque /\ c.base[s] = c.base[f[s]]
      BY <1>10, <1>12, <2>1 DEF BothOpaque
    <3>. QED
      BY <2>1, <3>1 DEF Corresponds
  <2>2. CASE Body(s) # Opaque
    <3>1. PICK k \in DOMAIN v : v[k] = s /\ f[s] = x[k]
      BY <1>11, <1>12, <2>2
    <3>2. Body(s) # Opaque /\ Body(f[s]) # Opaque /\ Len(Body(s)) = Len(Body(f[s]))
      BY <1>3, <1>6, <3>1
    <3>3. ASSUME NEW j \in DOMAIN Body(s)
          PROVE  /\ Body(s)[j][1] = Body(f[s])[j][1]
                 /\ Len(Body(s)[j]) = 2 => f[Body(s)[j][2]] = Body(f[s])[j][2] \/
                      (c.body[Body(s)[j][2]] = Opaque /\ c.body[Body(f[s])[j][2]] = Opaque
                        /\ c.base[Body(s)[j][2]] = c.base[Body(f[s])[j][2]])
      <4>1. PICK e, d : e = Body(s)[j] /\ d = Body(f[s])[j]
        OBVIOUS
      <4>2. /\ e \in Near(c, a) /\ e[1] = d[1]
            /\ e[1] \in {"ptr", "struct"} => Same(e[2], d[2]) /\ e[2] \in R
        BY <1>7, <3>1, <3>3, <4>1
      <4>3. Len(e) = 2 => e[1] \in {"ptr", "struct"}
        BY <4>2, TypeFacts DEF Near
      <4>4. ASSUME Same(e[2], d[2]), e[2] \in R
            PROVE  f[e[2]] = d[2] \/ BothOpaque(c, e[2], d[2])
        <5>1. CASE \E l \in DOMAIN v : v[l] = e[2] /\ x[l] = d[2]
          BY <1>9, <1>12, <4>4, <5>1
        <5>. QED
          BY <4>4, <5>1 DEF SameStruct
      <4>5. e[1] = d[1] /\ (Len(e) = 2 => f[e[2]] = d[2] \/ BothOpaque(c, e[2], d[2]))
        BY <4>2, <4>3, <4>4
      <4>. QED
        BY <4>1, <4>5 DEF BothOpaque
    <3>. QED
      BY <3>2, <3>3 DEF Corresponds
  <2>. QED
    BY <2>1, <2>2
<1>15. ASSUME NEW s \in R, NEW t \in R, c.body[s] # Opaque, f[s] = f[t] PROVE s = t
  <2>1. PICK k \in DOMAIN v : v[k] = s /\ f[s] = x[k]
    BY <1>11, <1>12, <1>15
  <2>2. c.body[t] # Opaque
    <3>1. c.body[f[s]] # Opaque
      BY <1>6, <2>1
    <3>. QED
      BY <1>10, <1>12, <1>15, <3>1 DEF BothOpaque
  <2>3. PICK l \in DOMAIN v : v[l] = t /\ f[t] = x[l]
    BY <1>11, <1>12, <2>2
  <2>4. k = l
    BY <1>1, <1>15, <2>1, <2>3 DEF Distinct
  <2>. QED
    BY <2>1, <2>3, <2>4
<1>. QED
  BY <1>12, <1>13, <1>14, <1>15 DEF Isomorphic

(***************************************************************************)
(* Walks of isomorphic structs: what the one visits and has yet to visit   *)
(* is the image of what the other does.                                    *)
(***************************************************************************)
Related(c, f, e, d) ==
  e[1] = d[1] /\ (e[1] \in {"ptr", "struct"} => f[e[2]] = d[2] \/ BothOpaque(c, e[2], d[2]))

IsIsomorphism(c, a, b, f) ==
  /\ f \in [ReachableStructs(c, a) -> ReachableStructs(c, b)] /\ f[a] = b
  /\ \A s \in ReachableStructs(c, a) : Corresponds(c, f, s)
  /\ \A s, t \in ReachableStructs(c, a) : c.body[s] # Opaque /\ f[s] = f[t] => s = t

Image(c, f, u, w) ==
  /\ Level(u, w)
  /\ \A k \in DOMAIN u.visited : w.visited[k] = f[u.visited[k]]
  /\ \A y, z : Waits(u.stack, w.stack, y, z) => Related(c, f, y, z)

RelatedBodies(c, f, s, t) ==
  /\ c.body[t] # Opaque /\ Len(c.body[s]) = Len(c.body[t])
  /\ \A y, z : Waits(c.body[s], c.body[t], y, z) => Related(c, f, y, z)

LEMMA BodiesRelated ==
  ASSUME NEW c \in TypeContexts, NEW a \in StructsOf(c), NEW b \in StructsOf(c), NEW f,
         IsIsomorphism(c, a, b, f), NEW s \in ReachableStructs(c, a), NEW t, f[s] = t,
         c.body[s] # Opaque
  PROVE  RelatedBodies(c, f, s, t)
<1>1. Corresponds(c, f, s)
  BY DEF IsIsomorphism
<1>2. /\ c.body[t] # Opaque /\ Len(c.body[s]) = Len(c.body[t])
      /\ \A k \in DOMAIN c.body[s] :
           /\ c.body[s][k][1] = c.body[t][k][1]
           /\ Len(c.body[s][k]) = 2 => f[c.body[s][k][2]] = c.body[t][k][2] \/
                BothOpaque(c, c.body[s][k][2], c.body[t][k][2])
  BY <1>1 DEF Corresponds, BothOpaque
<1>3. ASSUME NEW y, NEW z, Waits(c.body[s], c.body[t], y, z) PROVE Related(c, f, y, z)
  <2>1. PICK k \in DOMAIN c.body[s] : c.body[s][k] = y /\ c.body[t][k] = z
    BY <1>3 DEF Waits
  <2>2. y[1] = z[1] /\ (Len(y) = 2 => f[y[2]] = z[2] \/ BothOpaque(c, y[2], z[2]))
    BY <1>2, <2>1
  <2>3. y \in TypesIn(c)
    <3>. DEFINE B == c.body[s]
                S == TypesIn(c)
    <3>1. B \in Seq(S)
      BY ReachableFacts, TypeContextsAssumption
    <3>2. k \in DOMAIN B /\ y = B[k]
      BY <2>1
    <3>. HIDE DEF S, B
    <3>. QED
      BY <3>1, <3>2 DEF S
  <2>4. y[1] \in {"ptr", "struct"} => Len(y) = 2
    BY <2>3, TypeFacts
  <2>. QED
    BY <2>2, <2>4 DEF Related
<1>. QED
  BY <1>2, <1>3 DEF RelatedBodies

MapsTo(f, v, x) == Len(v) = Len(x) /\ \A k \in DOMAIN v : x[k] = f[v[k]]

LEMMA NumbersCorrespond ==
  ASSUME NEW c \in TypeContexts, NEW a \in StructsOf(c), NEW b \in StructsOf(c), NEW f,
         IsIsomorphism(c, a, b, f), NEW v, NEW x,
         v \in Seq(Full(c, a)), x \in Seq(Full(c, b)), Distinct(x), MapsTo(f, v, x),
         NEW s \in ReachableStructs(c, a), NEW t, f[s] = t, c.body[s] # Opaque
  PROVE  NumberOf(s, v) = NumberOf(t, x)
<1>. DEFINE F == Full(c, a)
            G == Full(c, b)
            j == NumberOf(s, v)
            k == NumberOf(t, x)
<1>1. /\ Len(v) \in Nat /\ DOMAIN v = 1 .. Len(v)
      /\ (\E l \in DOMAIN v : v[l] = s) => j \in DOMAIN v /\ v[j] = s
      /\ ~(\E l \in DOMAIN v : v[l] = s) => j = Len(v) + 1
  <2>. HIDE DEF F
  <2>1. v \in Seq(F)
    BY DEF F
  <2>. QED
    BY ONLY <2>1, NumberFacts
<1>2. /\ DOMAIN x = 1 .. Len(x)
      /\ (\E l \in DOMAIN x : x[l] = t) => k \in DOMAIN x /\ x[k] = t
      /\ ~(\E l \in DOMAIN x : x[l] = t) => k = Len(x) + 1
  <2>. HIDE DEF G
  <2>1. x \in Seq(G)
    BY DEF G
  <2>. QED
    BY ONLY <2>1, NumberFacts
<1>. HIDE DEF j, k
<1>3. Len(v) = Len(x) /\ \A l \in DOMAIN v : x[l] = f[v[l]]
  BY DEF MapsTo
<1>4. CASE \E l \in DOMAIN v : v[l] = s
  <2>1. j \in DOMAIN x /\ x[j] = t
    BY <1>1, <1>2, <1>4, <1>3
  <2>2. k \in DOMAIN x /\ x[k] = t
    BY <1>2, <2>1
  <2>. QED
    BY <2>1, <2>2 DEF Distinct, j, k
<1>5. CASE ~(\E l \in DOMAIN v : v[l] = s)
  <2>1. ASSUME NEW l \in DOMAIN x, x[l] = t PROVE FALSE
    <3>1. l \in DOMAIN v /\ f[v[l]] = f[s]
      BY <1>1, <1>2, <1>3, <2>1
    <3>2. v[l] \in F
      <4>. HIDE DEF F
      <4>1. v \in Seq(F)
        BY DEF F
      <4>. QED
        BY <3>1, <4>1
    <3>3. v[l] = s
      BY <3>1, <3>2 DEF IsIsomorphism, Full
    <3>. QED
      BY <1>5, <3>1, <3>3
  <2>2. j = Len(v) + 1 /\ k = Len(x) + 1
    BY <1>1, <1>2, <1>5, <1>3, <2>1
  <2>. QED
    BY <1>3, <2>2 DEF j, k
<1>. QED
  BY <1>4, <1>5

LEMMA ImageAlike ==
  ASSUME NEW c \in TypeContexts, NEW a \in StructsOf(c), NEW b \in StructsOf(c), NEW f,
         IsIsomorphism(c, a, b, f), NEW u, NEW w, WalkOK(c, a, u), WalkOK(c, b, w),
         Image(c, f, u, w), u.stack # <<>>, w.stack # <<>>,
         NEW e, e = Head(u.stack), NEW d, d = Head(w.stack)
  PROVE  /\ Related(c, f, e, d) /\ Abreast(c, a, b, u, w, e, d)
<1>. DEFINE v == u.visited
            x == w.visited
<1>1. e \in Near(c, a) /\ d \in Near(c, b)
  <2>1. e \in Near(c, a)
    BY VisitKeepsSymbols
  <2>2. d \in Near(c, b)
    BY VisitKeepsSymbols
  <2>. QED
    BY <2>1, <2>2
<1>2. Related(c, f, e, d)
  <2>1. u.stack \in Seq(Near(c, a)) /\ w.stack \in Seq(Near(c, b))
    BY DEF WalkOK
  <2>2. \A S : \A s \in Seq(S) : s # <<>> => 1 \in DOMAIN s /\ Head(s) = s[1]
    OBVIOUS
  <2>3. Waits(u.stack, w.stack, e, d)
    BY <2>1, <2>2 DEF Waits
  <2>. QED
    BY <2>3 DEF Image
<1>3. Alike(c, e, v, d, x)
  <2>1. CASE e[1] = "ptr"
    BY <1>2, <2>1 DEF Related, Alike
  <2>2. CASE e[1] # "ptr" /\ e[1] # "struct"
    <3>1. e = <<e[1]>> /\ d = <<d[1]>> /\ e[1] = d[1]
      BY <1>1, <1>2, <2>2, TypeFacts DEF Related, Near
    <3>. QED
      BY <2>2, <3>1 DEF Alike
  <2>3. CASE e[1] = "struct"
    <3>1. d[1] = "struct" /\ e[2] \in ReachableStructs(c, a)
      BY <1>1, <1>2, <2>3 DEF Related, Near
    <3>2. CASE BothOpaque(c, e[2], d[2])
      BY <2>3, <3>1, <3>2 DEF Alike, AlikeStructs
    <3>3. CASE f[e[2]] = d[2]
      <4>1. CASE c.body[e[2]] = Opaque
        <5>1. Corresponds(c, f, e[2])
          BY <3>1 DEF IsIsomorphism
        <5>2. BothOpaque(c, e[2], d[2])
          BY <3>3, <4>1, <5>1 DEF Corresponds, BothOpaque
        <5>. QED
          BY <2>3, <3>1, <5>2 DEF Alike, AlikeStructs
      <4>2. CASE c.body[e[2]] # Opaque
        <5>1. c.body[d[2]] # Opaque /\ Len(c.body[e[2]]) = Len(c.body[d[2]])
          <6>1. RelatedBodies(c, f, e[2], d[2])
            BY <3>1, <3>3, <4>2, BodiesRelated
          <6>. QED
            BY <6>1 DEF RelatedBodies
        <5>2. /\ v \in Seq(Full(c, a)) /\ x \in Seq(Full(c, b)) /\ Distinct(x) /\ MapsTo(f, v, x)
          BY DEF WalkOK, Image, Level, MapsTo
        <5>. HIDE DEF v, x
        <5>3. NumberOf(e[2], v) = NumberOf(d[2], x)
          BY <3>1, <3>3, <4>2, <5>2, NumbersCorrespond
        <5>. QED
          BY <2>3, <3>1, <4>2, <5>1, <5>3 DEF Alike, AlikeStructs
      <4>. QED
        BY <4>1, <4>2
    <3>. QED
      BY <1>2, <2>3, <3>2, <3>3 DEF Related
  <2>. QED
    BY <2>1, <2>2, <2>3
<1>. QED
  BY <1>2, <1>3 DEF Abreast, Image

LEMMA ImageStep ==
  ASSUME NEW c \in TypeContexts, NEW a \in StructsOf(c), NEW b \in StructsOf(c), NEW f,
         IsIsomorphism(c, a, b, f), NEW u, NEW w, NEW e, NEW d,
         Abreast(c, a, b, u, w, e, d), Image(c, f, u, w), Related(c, f, e, d),
         NEW m, m = Visit(c, u), NEW n, n = Visit(c, w)
  PROVE  Image(c, f, m, n)
<1>. DEFINE v == u.visited
            x == w.visited
            p == Pushed(c, e, v)
            o == Pushed(c, d, x)
            new == IsNew(c, e, v)
<1>1. /\ e \in Near(c, a) /\ Level(m, n)
      /\ Stacks(c, u, w, e, d, m.stack, n.stack)
      /\ Visits(v, x, m.visited, n.visited, e[2], d[2], new)
  BY VisitBoth
<1>2. new => e[2] \in ReachableStructs(c, a) /\ c.body[e[2]] # Opaque /\ f[e[2]] = d[2]
  BY <1>1 DEF IsNew, Near, Related, BothOpaque
<1>3. BothNew(c, e, v, d, x)
  <2>. DEFINE D == StructsOf(c)
              F == Full(c, a)
              G == Full(c, b)
  <2>1. F \subseteq D /\ G \subseteq D
    BY ReachableFacts DEF Full
  <2>2. v \in Seq(F) /\ x \in Seq(G) /\ Len(v) = Len(x) /\ Alike(c, e, v, d, x)
    BY DEF Abreast, WalkOK, Level
  <2>. HIDE DEF D, F, G, v, x
  <2>3. v \in Seq(D) /\ x \in Seq(D)
    BY <2>1, <2>2
  <2>. QED
    BY ONLY <2>2, <2>3, AlikeAdvance
<1>4. ASSUME NEW y, NEW z, Waits(p, o, y, z) PROVE Related(c, f, y, z)
  <2>1. CASE new
    <3>1. Waits(c.body[e[2]], c.body[d[2]], y, z)
      BY <1>3, <1>4, <2>1 DEF BothNew
    <3>2. RelatedBodies(c, f, e[2], d[2])
      BY <1>2, <2>1, BodiesRelated
    <3>. QED
      BY <3>1, <3>2 DEF RelatedBodies
  <2>2. CASE e[1] = "ptr"
    <3>1. p = << Pointee(e) >> /\ o = << Pointee(d) >>
      BY <2>2 DEF Pushed, Pointee, Related
    <3>2. y = Pointee(e) /\ z = Pointee(d)
      BY <1>4, <3>1 DEF Waits
    <3>3. f[e[2]] = d[2] \/ BothOpaque(c, e[2], d[2])
      BY <2>2 DEF Related
    <3>. QED
      BY <3>2, <3>3 DEF Related, Pointee
  <2>3. CASE ~new /\ e[1] # "ptr"
    <3>1. p = <<>>
      BY <2>3 DEF Pushed
    <3>. QED
      BY <1>4, <3>1 DEF Waits
  <2>. QED
    BY <2>1, <2>2, <2>3
<1>5. ASSUME NEW y, NEW z, Waits(m.stack, n.stack, y, z) PROVE Related(c, f, y, z)
  <2>1. Waits(u.stack, w.stack, y, z) \/ Waits(p, o, y, z)
    BY <1>1, <1>5 DEF Stacks
  <2>. QED
    BY <1>4, <2>1 DEF Image
<1>6. ASSUME NEW k \in DOMAIN m.visited PROVE n.visited[k] = f[m.visited[k]]
  <2>1. CASE k \in DOMAIN v
    BY <1>1, <2>1 DEF Visits, Image
  <2>2. CASE k \notin DOMAIN v
    <3>1. new
      BY <1>1, <1>6, <2>2 DEF Visits
    <3>2. k = Len(v) + 1
      BY <1>1, <1>6, <2>2, <3>1 DEF Visits
    <3>. QED
      BY <1>1, <1>2, <3>1, <3>2 DEF Visits
  <2>. QED
    BY <2>1, <2>2
<1>. QED
  BY <1>1, <1>5, <1>6 DEF Image

LEMMA IsomorphicMakesEqual ==
  ASSUME NEW c \in TypeContexts, NEW a \in StructsOf(c), NEW b \in StructsOf(c), NEW f,
         IsIsomorphism(c, a, b, f),
         NEW u, Walks(u, WalkBound, c, a), NEW w, Walks(w, WalkBound, c, b)
  PROVE  u[WalkBound].result = w[WalkBound].result
<1>. DEFINE Reached == {k \in Nat : k <= WalkBound => Image(c, f, u[k], w[k])}
<1>1. /\ WalkBound \in Nat
      /\ \A k \in Nat : k <= WalkBound => WalkOK(c, a, u[k]) /\ WalkOK(c, b, w[k])
  BY WalkEnds
<1>2. 0 \in Reached
  <2>1. u[0] = Start(a) /\ w[0] = Start(b)
    BY <1>1, WalkSteps
  <2>2. Level(Start(a), Start(b))
    BY DEF Level, Start
  <2>3. \A y, z : Waits(<< <<"struct", a>> >>, << <<"struct", b>> >>, y, z) =>
          y = <<"struct", a>> /\ z = <<"struct", b>>
    BY DEF Waits
  <2>4. Related(c, f, <<"struct", a>>, <<"struct", b>>)
    BY DEF Related, IsIsomorphism
  <2>5. Start(a).visited = <<>> /\ DOMAIN <<>> = {}
    BY DEF Start
  <2>6. Image(c, f, Start(a), Start(b))
    <3>1. /\ Start(a).stack = << <<"struct", a>> >> /\ Start(b).stack = << <<"struct", b>> >>
      BY DEF Start
    <3>2. ASSUME NEW y, NEW z, Waits(Start(a).stack, Start(b).stack, y, z) PROVE Related(c, f, y, z)
      <4>1. y = <<"struct", a>> /\ z = <<"struct", b>>
        BY <2>3, <3>1, <3>2
      <4>. QED
        BY <2>4, <4>1
    <3>. QED
      BY <2>2, <2>5, <3>2 DEF Image
  <2>. QED
    BY <2>1, <2>6
<1>3. ASSUME NEW k \in Nat, k \in Reached PROVE k + 1 \in Reached
  <2>. SUFFICES ASSUME k + 1 <= WalkBound PROVE Image(c, f, u[k + 1], w[k + 1])
    OBVIOUS
  <2>1. k <= WalkBound
    BY <1>1
  <2>2. PICK p, q : p = u[k] /\ q = w[k]
    OBVIOUS
  <2>3. Image(c, f, p, q) /\ WalkOK(c, a, p) /\ WalkOK(c, b, q)
    BY <1>1, <1>3, <2>1, <2>2
  <2>4. u[k + 1] = Walked(c, p) /\ w[k + 1] = Walked(c, q)
    <3>1. u[k + 1] = Walked(c, u[k])
      BY <1>1, WalkSteps
    <3>2. w[k + 1] = Walked(c, w[k])
      BY <1>1, WalkSteps
    <3>. QED
      BY <2>2, <3>1, <3>2
  <2>5. p.stack = <<>> <=> q.stack = <<>>
    <3>1. p.stack \in Seq(Near(c, a)) /\ q.stack \in Seq(Near(c, b)) /\ Len(p.stack) = Len(q.stack)
      BY <2>3 DEF WalkOK, Image, Level
    <3>2. \A S : \A s \in Seq(S) : s = <<>> <=> Len(s) = 0
      OBVIOUS
    <3>. QED
      BY <3>1, <3>2
  <2>6. CASE p.stack = <<>>
    BY <2>3, <2>4, <2>5, <2>6 DEF Walked
  <2>7. CASE p.stack # <<>>
    <3>1. PICK e, d, m, n : /\ e = Head(p.stack) /\ d = Head(q.stack)
                            /\ m = Visit(c, p) /\ n = Visit(c, q)
      OBVIOUS
    <3>2. u[k + 1] = m /\ w[k + 1] = n
      BY <2>4, <2>5, <2>7, <3>1 DEF Walked
    <3>3. Related(c, f, e, d) /\ Abreast(c, a, b, p, q, e, d)
      BY <2>3, <2>5, <2>7, <3>1, ImageAlike
    <3>. QED
      BY <2>3, <3>1, <3>2, <3>3, ImageStep
  <2>. QED
    BY <2>6, <2>7
<1>. HIDE DEF Reached
<1>4. \A k \in Nat : k \in Reached
  BY <1>2, <1>3, Inductive
<1>5. WalkBound \in Reached /\ WalkBound <= WalkBound
  BY <1>1, <1>4
<1>. QED
  BY <1>5 DEF Reached, Image, Level

LEMMA ComparisonIsIsomorphism ==
  ASSUME NEW c \in TypeContexts, NEW a \in StructsOf(c), NEW b \in StructsOf(c)
  PROVE  /\ TypeVector(c, a).stack = <<>>
         /\ TypeVector(c, a).result = TypeVector(c, b).result <=> Isomorphic(c, a, b)
<1>1. PICK u : Walks(u, WalkBound, c, a) /\ TypeVector(c, a) = u[WalkBound]
  BY BoundAssumption, VectorIsWalk
<1>2. PICK w : Walks(w, WalkBound, c, b) /\ TypeVector(c, b) = w[WalkBound]
  BY BoundAssumption, VectorIsWalk
<1>3. /\ u[WalkBound].stack = <<>> /\ WalkOK(c, a, u[WalkBound])
  <2>1. /\ WalkBound \in Nat /\ WalkBound <= WalkBound
        /\ \A k \in Nat : k <= WalkBound => WalkOK(c, a, u[k])
        /\ u[WalkBound].stack = <<>>
    BY <1>1, BoundAssumption, WalkEnds
  <2>. QED
    BY ONLY <2>1
<1>4. WalkOK(c, b, w[WalkBound])
  <2>1. /\ WalkBound \in Nat /\ WalkBound <= WalkBound
        /\ \A k \in Nat : k <= WalkBound => WalkOK(c, b, w[k])
    BY <1>2, BoundAssumption, WalkEnds
  <2>. QED
    BY ONLY <2>1
<1>5. ASSUME u[WalkBound].result = w[WalkBound].result PROVE Isomorphic(c, a, b)
  <2>1. Agreeing(c, a, b, u[WalkBound], w[WalkBound])
    BY <1>1, <1>2, <1>5, WalksAgree
  <2>. QED
    BY <1>3, <1>4, <2>1, EqualMakesIsomorphic
<1>6. ASSUME Isomorphic(c, a, b) PROVE u[WalkBound].result = w[WalkBound].result
  <2>1. PICK f : IsIsomorphism(c, a, b, f)
    BY <1>6 DEF Isomorphic, IsIsomorphism
  <2>. QED
    BY <1>1, <1>2, <2>1, IsomorphicMakesEqual
<1>. QED
  BY <1>1, <1>2, <1>3, <1>5, <1>6

(***************************************************************************)
(* For every set of structs, two structs of one module set have the same   *)
(* vector just when they are isomorphic, recursive and opaque ones         *)
(* included, and no walk is cut short.                                     *)
(***************************************************************************)
THEOREM ComparisonIsFaithful == DedupSpec => []EqualIsIsomorphic
<1>1. DedupInit => typeCtx \in TypeContexts
  BY DEF DedupInit
<1>2. typeCtx \in TypeContexts /\ [DedupNext]_dedupVars => (typeCtx \in TypeContexts)'
  BY DEF DedupNext, CollectType, EndCollect, TakeCluster, Partition, NameFirst, NameNext, EndCluster, dedupVars
<1>3. typeCtx \in TypeContexts => EqualIsIsomorphic
  BY ComparisonIsIsomorphism DEF EqualIsIsomorphic, TypesEqual
<1>. QED
  BY <1>1, <1>2, <1>3, PTL DEF DedupSpec

----------------------------------------------------------------------------
(* What the numbers of a module refer to.                                  *)
LEMMA ModuleFacts ==
  ASSUME NEW m, IsModule(m)
  PROVE  /\ Len(m.di) \in Nat /\ DOMAIN m.di = 1 .. Len(m.di)
         /\ m.used \in Seq(0 .. Len(m.di))
         /\ Len(m.types) \in Nat /\ DOMAIN m.types = 1 .. Len(m.types)
         /\ \A d \in DOMAIN m.di :
              /\ Below(m.di[d]) \in Seq(0 .. Len(m.di))
              /\ Refers(m, d) = Elements(Below(m.di[d])) \ {0}
<1>. DEFINE n == Len(m.di)
<1>1. m.di \in Seq(DebugTypes(n)) /\ m.used \in Seq(0 .. n)
  BY DEF IsModule
<1>2. n \in Nat /\ DOMAIN m.di = 1 .. n
  <2>. DEFINE T == DebugTypes(n)
  <2>. HIDE DEF T
  <2>. QED
    BY <1>1
<1>3. Len(m.types) \in Nat /\ DOMAIN m.types = 1 .. Len(m.types)
  BY DEF IsModule
<1>4. ASSUME NEW d \in DOMAIN m.di
      PROVE  /\ Below(m.di[d]) \in Seq(0 .. n)
             /\ Refers(m, d) = Elements(Below(m.di[d])) \ {0}
  <2>. DEFINE T == DebugTypes(n)
  <2>1. m.di[d] \in T
    <3>1. m.di \in Seq(T)
      BY <1>1
    <3>. HIDE DEF T
    <3>. QED
      BY <3>1, <1>2
  <2>. DEFINE t == m.di[d]
  <2>. HIDE DEF t
  <2>2. CASE t.kind = "composite"
    <3>1. t.elements \in Seq(0 .. n)
      <4>1. t.elements \in Seq(1 .. n)
        BY <2>1, <2>2 DEF DebugTypes, t
      <4>. QED
        BY <4>1, <1>2
    <3>2. Below(t) = t.elements
      BY <2>2 DEF Below
    <3>3. Elements(t.elements) \ {0} \subseteq DOMAIN m.di
      BY <3>1, <1>2 DEF Elements
    <3>4. Refers(m, d) = {e \in DOMAIN m.di : e \in Elements(t.elements)}
      BY <2>2 DEF Refers, t
    <3>. QED
      BY <3>1, <3>2, <3>3, <3>4, <1>2 DEF t
  <2>3. CASE t.kind = "function"
    <3>1. t.types \in Seq(0 .. n)
      BY <2>1, <2>3 DEF DebugTypes, t
    <3>2. Below(t) = t.types
      BY <2>3 DEF Below
    <3>3. Elements(t.types) \ {0} \subseteq DOMAIN m.di
      BY <3>1, <1>2 DEF Elements
    <3>4. Refers(m, d) = {e \in DOMAIN m.di : e \in Elements(t.types)}
      BY <2>3 DEF Refers, t
    <3>. QED
      BY <3>1, <3>2, <3>3, <3>4, <1>2 DEF t
  <2>4. CASE t.kind = "derived"
    <3>1. t.base \in 0 .. n
      BY <2>1, <2>4 DEF DebugTypes, t
    <3>2. Below(t) = <<t.base>>
      BY <2>4 DEF Below
    <3>3. Elements(<<t.base>>) = {t.base}
      BY DEF Elements
    <3>4. Refers(m, d) = {e \in DOMAIN m.di : e = t.base}
      BY <2>4 DEF Refers, t
    <3>. QED
      BY <3>1, <3>2, <3>3, <3>4, <1>2 DEF t
  <2>5. CASE t.kind = "basic"
    <3>1. Below(t) = <<>> /\ Refers(m, d) = {}
      BY <2>5 DEF Below, Refers, t
    <3>2. Elements(<<>>) = {}
      BY DEF Elements
    <3>. QED
      BY <3>1, <3>2 DEF t
  <2>6. t.kind \in {"composite", "function", "derived", "basic"}
    BY <2>1 DEF DebugTypes, t
  <2>. QED
    BY <2>2, <2>3, <2>4, <2>5, <2>6
<1>. QED
  BY <1>1, <1>2, <1>3, <1>4

LEMMA ContextFacts ==
  ASSUME NEW c \in Contexts
  PROVE  /\ Len(c) \in Nat /\ DOMAIN c = 1 .. Len(c)
         /\ \A k \in DOMAIN c : IsModule(c[k])
<1>1. c \in Seq(Elements(c)) /\ \A m \in Elements(c) : IsModule(m)
  BY ContextsAssumption
<1>2. \A k \in DOMAIN c : c[k] \in Elements(c)
  BY DEF Elements
<1>3. Len(c) \in Nat /\ DOMAIN c = 1 .. Len(c)
  <2>. DEFINE E == Elements(c)
  <2>. HIDE DEF E
  <2>. QED
    BY <1>1
<1>. QED
  BY <1>1, <1>2, <1>3

LEMMA TypeInContext ==
  ASSUME NEW c \in Contexts, NEW k \in DOMAIN c, NEW ix \in DOMAIN c[k].types
  PROVE  /\ c[k].types[ix] \in Elements(c[k].types)
         /\ ~c[k].types[ix].opaque /\ c[k].types[ix].name # "" =>
              c[k].types[ix].name \in {t.name : t \in Structs(c)}
<1>1. c[k].types[ix] \in Elements(c[k].types)
  BY DEF Elements
<1>2. c[k].types[ix] \in UNION {Elements(c[j].types) : j \in DOMAIN c}
  BY <1>1
<1>. QED
  BY <1>1, <1>2 DEF Structs, AllTypes

(* What an appended and a taken element do to the set of the elements.     *)
LEMMA ElementsOfQueue ==
  ASSUME NEW S, NEW s \in Seq(S), s # <<>>, NEW t \in Seq(S)
  PROVE  /\ Head(s) \in S /\ Tail(s) \in Seq(S) /\ Tail(s) \o t \in Seq(S)
         /\ Elements(s) = {Head(s)} \cup Elements(Tail(s))
         /\ Elements(Tail(s) \o t) = Elements(Tail(s)) \cup Elements(t)
<1>1. Head(s) \in S /\ Tail(s) \in Seq(S) /\ Head(s) = s[1] /\ 1 \in DOMAIN s
  OBVIOUS
<1>2. \A q \in Seq(S) : DOMAIN q = 1 .. Len(q) /\ Len(q) \in Nat
  OBVIOUS
<1>3. Len(Tail(s)) = Len(s) - 1 /\ \A k \in 1 .. Len(s) - 1 : Tail(s)[k] = s[k + 1]
  OBVIOUS
<1>4. Elements(s) = {Head(s)} \cup Elements(Tail(s))
  <2>1. ASSUME NEW k \in DOMAIN s, k # 1
        PROVE  k - 1 \in 1 .. Len(s) - 1 /\ s[k] = Tail(s)[k - 1]
    <3>1. k - 1 \in 1 .. Len(s) - 1 /\ (k - 1) + 1 = k
      BY <1>2, <2>1
    <3>. QED
      BY <3>1, <1>3
  <2>2. \A k \in 1 .. Len(s) - 1 : k + 1 \in DOMAIN s
    BY <1>2
  <2>3. DOMAIN Tail(s) = 1 .. Len(s) - 1
    BY <1>1, <1>2, <1>3
  <2>4. Elements(s) \subseteq {Head(s)} \cup Elements(Tail(s))
    BY <1>1, <2>1, <2>3 DEF Elements
  <2>5. Elements(Tail(s)) \subseteq Elements(s)
    BY <1>3, <2>2, <2>3 DEF Elements
  <2>6. Head(s) \in Elements(s)
    BY <1>1 DEF Elements
  <2>. QED
    BY <2>4, <2>5, <2>6
<1>5. ASSUME NEW p \in Seq(S)
      PROVE  p \o t \in Seq(S) /\ Elements(p \o t) = Elements(p) \cup Elements(t)
  <2>1. /\ p \o t \in Seq(S) /\ Len(p \o t) = Len(p) + Len(t)
        /\ \A k \in 1 .. Len(p) : (p \o t)[k] = p[k]
        /\ \A k \in 1 .. Len(t) : (p \o t)[Len(p) + k] = t[k]
    OBVIOUS
  <2>2. Elements(p) \subseteq Elements(p \o t)
    BY <2>1, <1>2 DEF Elements
  <2>3. \A k \in 1 .. Len(t) : Len(p) + k \in DOMAIN (p \o t)
    BY <2>1, <1>2
  <2>4. Elements(t) \subseteq Elements(p \o t)
    BY <2>1, <2>3, <1>2 DEF Elements
  <2>5. \A k \in DOMAIN (p \o t) :
          \/ k \in 1 .. Len(p)
          \/ k - Len(p) \in 1 .. Len(t) /\ k = Len(p) + (k - Len(p))
    BY <2>1, <1>2
  <2>6. \A k \in DOMAIN (p \o t) : (p \o t)[k] \in Elements(p) \cup Elements(t)
    BY <2>1, <2>5, <1>2 DEF Elements
  <2>7. Elements(p \o t) \subseteq Elements(p) \cup Elements(t)
    BY <2>6 DEF Elements
  <2>. QED
    BY <2>1, <2>2, <2>4, <2>7
<1>. QED
  BY <1>1, <1>4, <1>5

----------------------------------------------------------------------------
(* Where the loops are.                                                    *)
Position ==
  /\ ctx \in Contexts
  /\ module \in 1 .. Len(ctx) + 1 /\ position \in Nat \ {0}
  /\ phase \in {"start", "walk", "record", "emit", "methods"}
  /\ phase \in {"walk", "record", "emit"} => module \in DOMAIN ctx
  /\ phase = "record" => position <= Len(compositeTypes) + 1
  /\ emittedStructs \subseteq {t.name : t \in Structs(ctx)}
  /\ compositeTypes \in Seq(Nat)

(* What has been met and what is still in front: everything met is due,    *)
(* and what is due and has not been met is in the queue.                   *)
Walking(m) ==
  /\ worklist \in Seq(0 .. Len(m.di)) /\ visitedTypes \subseteq DOMAIN m.di
  /\ Elements(m.used) \ {0} \subseteq visitedTypes \cup Elements(worklist)
  /\ \A d \in visitedTypes : Refers(m, d) \subseteq visitedTypes \cup Elements(worklist)
  /\ \A S \in SUBSET DOMAIN m.di :
       Closed(m, S) => visitedTypes \cup (Elements(worklist) \ {0}) \subseteq S
  /\ CompositesOnce(m)

WalkInvariant == Position /\ (phase = "walk" => Walking(ctx[module])) /\ WalkIsComplete /\ ListsFit

(* A type that is null or known leaves the queue, nothing else changes.    *)
LEMMA SkipKeeps ==
  ASSUME NEW m, IsModule(m), Walking(m), worklist # <<>>, Skipped(Head(worklist)),
         worklist' = Tail(worklist), UNCHANGED <<visitedTypes, compositeTypes>>
  PROVE  Walking(m)'
<1>. DEFINE n == Len(m.di)
<1>1. DOMAIN m.di = 1 .. n /\ n \in Nat
  BY ModuleFacts
<1>2. worklist \in Seq(0 .. n)
  BY DEF Walking
<1>3. /\ worklist' \in Seq(0 .. n) /\ Head(worklist) \in 0 .. n
      /\ Elements(worklist) = {Head(worklist)} \cup Elements(worklist')
  <2>1. <<>> \in Seq(0 .. n)
    OBVIOUS
  <2>. QED
    BY <1>2, <2>1, ElementsOfQueue
<1>4. Head(worklist) = 0 \/ Head(worklist) \in visitedTypes
  BY DEF Skipped
<1>5. \A d : 0 \notin Refers(m, d)
  BY <1>1 DEF Refers
<1>6. CompositesOnce(m)'
  BY DEF Walking, CompositesOnce
<1>. QED
  BY <1>3, <1>4, <1>5, <1>6 DEF Walking

(* The type in front is met; what it refers to goes to the back.           *)
LEMMA VisitKeeps ==
  ASSUME NEW m, IsModule(m), Walking(m), compositeTypes \in Seq(Nat),
         worklist # <<>>, ~Skipped(Head(worklist)),
         worklist' = Tail(worklist) \o Below(m.di[Head(worklist)]),
         visitedTypes' = visitedTypes \cup {Head(worklist)},
         compositeTypes' = IF m.di[Head(worklist)].kind = "composite"
                           THEN Append(compositeTypes, Head(worklist)) ELSE compositeTypes
  PROVE  Walking(m)' /\ compositeTypes' \in Seq(Nat)
<1>. DEFINE n == Len(m.di)
            t == Head(worklist)
<1>1. DOMAIN m.di = 1 .. n /\ n \in Nat
  BY ModuleFacts
<1>2. worklist \in Seq(0 .. n) /\ visitedTypes \subseteq DOMAIN m.di
  BY DEF Walking
<1>3. t \in 0 .. n /\ t # 0 /\ t \notin visitedTypes
  BY <1>2 DEF Skipped
<1>4. t \in DOMAIN m.di /\ t \in Nat
  BY <1>1, <1>3
<1>5. /\ Below(m.di[t]) \in Seq(0 .. n)
      /\ Refers(m, t) = Elements(Below(m.di[t])) \ {0}
  BY <1>4, ModuleFacts
<1>6. /\ worklist' \in Seq(0 .. n)
      /\ Elements(worklist) = {t} \cup Elements(Tail(worklist))
      /\ Elements(worklist') = Elements(Tail(worklist)) \cup Elements(Below(m.di[t]))
  BY <1>2, <1>5, ElementsOfQueue
<1>7. Elements(m.used) \ {0} \subseteq visitedTypes' \cup Elements(worklist')
  BY <1>6 DEF Walking
<1>8. \A d \in visitedTypes' : Refers(m, d) \subseteq visitedTypes' \cup Elements(worklist')
  BY <1>5, <1>6 DEF Walking
<1>9. ASSUME NEW S \in SUBSET DOMAIN m.di, Closed(m, S)
      PROVE  visitedTypes' \cup (Elements(worklist') \ {0}) \subseteq S
  <2>1. visitedTypes \cup (Elements(worklist) \ {0}) \subseteq S
    BY <1>9 DEF Walking
  <2>2. t \in S
    BY <2>1, <1>3, <1>6
  <2>3. Refers(m, t) \subseteq S
    BY <2>2, <1>9 DEF Closed
  <2>. QED
    BY <2>1, <2>2, <2>3, <1>5, <1>6
<1>10. CompositesOnce(m)' /\ compositeTypes' \in Seq(Nat)
  <2>1. CompositesOnce(m)
    BY DEF Walking
  <2>2. CASE m.di[t].kind # "composite"
    <3>1. compositeTypes' = compositeTypes
      BY <2>2
    <3>. QED
      BY <2>1, <2>2, <3>1 DEF CompositesOnce
  <2>3. CASE m.di[t].kind = "composite"
    <3>. DEFINE c == compositeTypes
    <3>1. compositeTypes' = Append(c, t)
      BY <2>3
    <3>2. /\ c \in Seq(Nat) /\ Len(c) \in Nat /\ DOMAIN c = 1 .. Len(c)
          /\ Append(c, t) \in Seq(Nat) /\ DOMAIN Append(c, t) = 1 .. Len(c) + 1
          /\ Append(c, t)[Len(c) + 1] = t
          /\ \A k \in 1 .. Len(c) : Append(c, t)[k] = c[k]
      BY <1>4
    <3>. HIDE DEF c, t
    <3>3. 1 .. Len(c) + 1 = (1 .. Len(c)) \cup {Len(c) + 1}
      BY <3>2
    <3>4. t \notin Elements(c)
      BY <2>1, <1>3 DEF CompositesOnce, c
    <3>5. \A k \in DOMAIN c : c[k] \in Elements(c)
      BY DEF Elements
    <3>6. Elements(Append(c, t)) = Elements(c) \cup {t}
      BY <3>2, <3>3 DEF Elements
    <3>7. \A j, k \in DOMAIN Append(c, t) : Append(c, t)[j] = Append(c, t)[k] => j = k
      BY <3>2, <3>3, <3>4, <3>5, <2>1 DEF CompositesOnce, c
    <3>8. Elements(c) \cup {t} = {d \in visitedTypes' : m.di[d].kind = "composite"}
      BY <2>1, <2>3 DEF CompositesOnce, c, t
    <3>. QED
      BY <3>1, <3>2, <3>6, <3>7, <3>8 DEF CompositesOnce
  <2>. QED
    BY <2>2, <2>3
<1>11. visitedTypes' \subseteq DOMAIN m.di
  BY <1>2, <1>4
<1>. QED
  BY <1>6, <1>7, <1>8, <1>9, <1>10, <1>11 DEF Walking

----------------------------------------------------------------------------
LEMMA InvariantInit == Init => WalkInvariant
<1>. SUFFICES ASSUME Init
              PROVE  WalkInvariant
  OBVIOUS
<1>1. Len(ctx) \in Nat
  BY ContextFacts DEF Init
<1>. QED
  BY <1>1 DEF Init, WalkInvariant, Position, WalkIsComplete, ListsFit

LEMMA InvariantStep == WalkInvariant /\ [Next]_vars => WalkInvariant'
<1>. SUFFICES ASSUME WalkInvariant, [Next]_vars
              PROVE  WalkInvariant'
  OBVIOUS
<1>. DEFINE m == ctx[module]
<1>1. Position /\ ctx \in Contexts
  BY DEF WalkInvariant, Position
<1>2. Len(ctx) \in Nat /\ DOMAIN ctx = 1 .. Len(ctx) /\ \A k \in DOMAIN ctx : IsModule(ctx[k])
  BY <1>1, ContextFacts
<1>3. CASE StartModule
  <2>1. module \in DOMAIN ctx /\ IsModule(m)
    BY <1>2, <1>3 DEF StartModule
  <2>2. m.used \in Seq(0 .. Len(m.di))
    BY <2>1, ModuleFacts
  <2>3. Walking(m)'
    <3>1. worklist' = m.used /\ visitedTypes' = {} /\ compositeTypes' = <<>> /\ m' = m
      BY <1>3 DEF StartModule
    <3>2. CompositesOnce(m)'
      BY <3>1 DEF CompositesOnce, Elements
    <3>3. \A S \in SUBSET DOMAIN m.di : Closed(m, S) => Elements(m.used) \ {0} \subseteq S
      BY DEF Closed
    <3>. HIDE DEF m
    <3>. QED
      BY <3>1, <3>2, <3>3, <2>2 DEF Walking, Closed, Refers
  <2>4. Position'
    BY <1>1, <1>3, <2>1 DEF StartModule, Position
  <2>. QED
    BY <1>3, <2>3, <2>4 DEF StartModule, WalkInvariant, WalkIsComplete, ListsFit
<1>4. CASE SkipType
  <2>1. IsModule(m) /\ Walking(m)
    BY <1>1, <1>2, <1>4 DEF SkipType, WalkInvariant, Position
  <2>2. Walking(m)'
    <3>1. /\ worklist # <<>> /\ Skipped(Head(worklist)) /\ worklist' = Tail(worklist)
          /\ UNCHANGED <<visitedTypes, compositeTypes>> /\ m' = m
      BY <1>4 DEF SkipType, Rest
    <3>2. \A M : IsModule(M) /\ Walking(M) => Walking(M)'
      BY <3>1, SkipKeeps
    <3>. QED
      BY <2>1, <3>1, <3>2
  <2>3. Position'
    BY <1>1, <1>4 DEF SkipType, Position
  <2>. QED
    BY <1>4, <2>2, <2>3 DEF SkipType, WalkInvariant, WalkIsComplete, ListsFit
<1>5. CASE VisitType
  <2>1. IsModule(m) /\ Walking(m) /\ compositeTypes \in Seq(Nat)
    BY <1>1, <1>2, <1>5 DEF VisitType, WalkInvariant, Position
  <2>2. Walking(m)' /\ compositeTypes' \in Seq(Nat)
    <3>. DEFINE Step(M) ==
           /\ worklist # <<>> /\ ~Skipped(Head(worklist))
           /\ worklist' = Tail(worklist) \o Below(M.di[Head(worklist)])
           /\ visitedTypes' = visitedTypes \cup {Head(worklist)}
           /\ compositeTypes' = IF M.di[Head(worklist)].kind = "composite"
                                THEN Append(compositeTypes, Head(worklist)) ELSE compositeTypes
    <3>1. Step(m) /\ m' = m
      BY <1>5 DEF VisitType
    <3>2. \A M : IsModule(M) /\ Walking(M) /\ Step(M)
                => Walking(M)' /\ compositeTypes' \in Seq(Nat)
      BY <2>1, VisitKeeps
    <3>. HIDE DEF Step
    <3>. QED
      BY <2>1, <3>1, <3>2
  <2>3. Position'
    BY <1>1, <1>5, <2>2 DEF VisitType, Position
  <2>. QED
    BY <1>5, <2>2, <2>3 DEF VisitType, WalkInvariant, WalkIsComplete, ListsFit
<1>6. CASE EndWalk
  <2>1. Walking(m) /\ worklist = <<>> /\ IsModule(m)
    BY <1>1, <1>2, <1>6 DEF EndWalk, WalkInvariant, Position
  <2>2. /\ Closed(m, visitedTypes)
        /\ \A S \in SUBSET DOMAIN m.di : Closed(m, S) => visitedTypes \subseteq S
        /\ CompositesOnce(m)
    <3>1. Elements(worklist) = {}
      BY <2>1 DEF Elements
    <3>. HIDE DEF m
    <3>. QED
      BY <2>1, <3>1 DEF Walking, Closed
  <2>3. WalkIsComplete'
    <3>1. visitedTypes' = visitedTypes /\ compositeTypes' = compositeTypes /\ m' = m
      BY <1>6 DEF EndWalk, walk
    <3>2. CompositesOnce(m)'
      BY <2>2, <3>1 DEF CompositesOnce
    <3>3. /\ Closed(m', visitedTypes')
          /\ \A S \in SUBSET DOMAIN m'.di : Closed(m', S) => visitedTypes' \subseteq S
      BY <2>2, <3>1
    <3>. QED
      BY <3>2, <3>3 DEF WalkIsComplete, Closed, Refers
  <2>4. Position'
    BY <1>1, <1>6 DEF EndWalk, walk, Position
  <2>. QED
    BY <1>6, <2>3, <2>4 DEF EndWalk, WalkInvariant, ListsFit
<1>7. CASE RecordNames
  <2>1. /\ phase = "record" /\ position <= Len(compositeTypes) /\ position' = position + 1
        /\ UNCHANGED <<ctx, phase, module, compositeTypes, emittedStructs>>
    BY <1>7 DEF RecordNames, walk
  <2>2. compositeTypes \in Seq(Nat) /\ Len(compositeTypes) \in Nat /\ position \in Nat \ {0}
    BY <1>1 DEF Position
  <2>3. position' \in Nat \ {0} /\ position' # 1 /\ position' <= Len(compositeTypes) + 1
    BY <2>1, <2>2
  <2>4. Position'
    BY <1>1, <2>1, <2>3 DEF Position
  <2>. QED
    BY <2>1, <2>3, <2>4 DEF WalkInvariant, WalkIsComplete, ListsFit
<1>8. CASE SanityCheck
  <2>1. ListsFit'
    <3>. DEFINE wrong == {t.name : t \in {u \in Elements(m.types) : DoesNotFit(u)}}
    <3>1. /\ structMemberNames' = [n \in DOMAIN structMemberNames \ wrong |-> structMemberNames[n]]
          /\ m' = m
      BY <1>8 DEF SanityCheck
    <3>2. ASSUME NEW t \in Elements(m.types), t.name \in DOMAIN structMemberNames \ wrong
          PROVE  Len(structMemberNames[t.name]) = t.size
      BY <3>2 DEF DoesNotFit
    <3>. HIDE DEF m, wrong
    <3>3. \A t \in Elements(m.types) :
            At(structMemberNames', t.name) = <<>> \/ Len(structMemberNames'[t.name]) = t.size
      BY <3>1, <3>2 DEF At
    <3>. QED
      BY <3>1, <3>3 DEF ListsFit, m
  <2>2. Position'
    BY <1>1, <1>8 DEF SanityCheck, walk, Position
  <2>. QED
    BY <1>8, <2>1, <2>2 DEF SanityCheck, WalkInvariant, WalkIsComplete
<1>9. CASE EmitStruct
  <2>. DEFINE t == m.types[position]
  <2>1. /\ phase = "emit" /\ position \in DOMAIN m.types /\ position' = position + 1
        /\ \/ ToBeEmitted(t) /\ emittedStructs' = emittedStructs \cup {t.name}
           \/ emittedStructs' = emittedStructs
        /\ UNCHANGED <<ctx, phase, module, structMemberNames, compositeTypes>>
    BY <1>9 DEF EmitStruct, walk
  <2>2. module \in DOMAIN ctx
    BY <1>1, <2>1 DEF Position
  <2>3. ToBeEmitted(t) => t.name \in {s.name : s \in Structs(ctx)}
    BY <1>1, <2>1, <2>2, TypeInContext DEF ToBeEmitted
  <2>4. emittedStructs' \subseteq {s.name : s \in Structs(ctx)}
    <3>1. emittedStructs \subseteq {s.name : s \in Structs(ctx)}
      BY <1>1 DEF Position
    <3>. HIDE DEF t
    <3>. QED
      BY <2>1, <2>3, <3>1
  <2>5. Position'
    BY <1>1, <2>1, <2>4 DEF Position
  <2>. QED
    BY <2>1, <2>5 DEF WalkInvariant, WalkIsComplete, ListsFit
<1>10. CASE EndModule
  <2>1. module \in DOMAIN ctx
    BY <1>1, <1>10 DEF EndModule, Position
  <2>2. Position'
    BY <1>1, <1>2, <1>10, <2>1 DEF EndModule, walk, Position
  <2>. QED
    BY <1>10, <2>2 DEF EndModule, WalkInvariant, WalkIsComplete, ListsFit
<1>11. CASE BeginMethods
  <2>1. Position'
    BY <1>1, <1>11 DEF BeginMethods, walk, Position
  <2>. QED
    BY <1>11, <2>1 DEF BeginMethods, WalkInvariant, WalkIsComplete, ListsFit
<1>12. CASE EmitAccess
  <2>1. phase = "methods" /\ UNCHANGED <<ctx, phase, module, position, emittedStructs, compositeTypes>>
    BY <1>12 DEF EmitAccess, walk
  <2>2. Position'
    BY <1>1, <2>1 DEF Position
  <2>. QED
    BY <2>1, <2>2 DEF WalkInvariant, WalkIsComplete, ListsFit
<1>13. CASE UNCHANGED vars
  <2>1. UNCHANGED <<ctx, phase, module, worklist, visitedTypes, compositeTypes,
                    structMemberNames, position, emittedStructs>>
    BY <1>13 DEF vars, walk
  <2>2. Position'
    BY <1>1, <2>1 DEF Position
  <2>3. (phase = "walk" => Walking(m))'
    BY <2>1 DEF WalkInvariant, Walking, CompositesOnce, Closed, Refers
  <2>4. WalkIsComplete'
    BY <2>1 DEF WalkInvariant, WalkIsComplete, CompositesOnce, Closed, Refers
  <2>. QED
    BY <2>1, <2>2, <2>3, <2>4 DEF WalkInvariant, ListsFit
<1>. QED
  BY <1>3, <1>4, <1>5, <1>6, <1>7, <1>8, <1>9, <1>10, <1>11, <1>12, <1>13 DEF Next

THEOREM InvariantHolds == Spec => []WalkInvariant
BY InvariantInit, InvariantStep, PTL DEF Spec

(* The variables keep their types: positions stay in the lists they walk,  *)
(* the queue has debug types of the module.                                *)
THEOREM TypeCorrect == Spec => []TypeOK
<1>1. WalkInvariant => TypeOK
  <2>. SUFFICES ASSUME WalkInvariant
                PROVE  TypeOK
    OBVIOUS
  <2>1. Position
    BY DEF WalkInvariant
  <2>2. Len(ctx) \in Nat /\ \A k \in DOMAIN ctx : IsModule(ctx[k])
    BY <2>1, ContextFacts DEF Position
  <2>3. phase = "walk" => Elements(worklist) \cup visitedTypes \subseteq 0 .. Len(ctx[module].di)
    <3>. SUFFICES ASSUME phase = "walk"
                  PROVE  Elements(worklist) \cup visitedTypes \subseteq 0 .. Len(ctx[module].di)
      OBVIOUS
    <3>. DEFINE m == ctx[module]
    <3>1. IsModule(m) /\ Walking(m)
      BY <2>1, <2>2 DEF WalkInvariant, Position
    <3>. HIDE DEF m
    <3>2. DOMAIN m.di = 1 .. Len(m.di) /\ Len(m.di) \in Nat
      BY <3>1, ModuleFacts
    <3>3. worklist \in Seq(0 .. Len(m.di)) /\ visitedTypes \subseteq DOMAIN m.di
      BY <3>1 DEF Walking
    <3>4. Elements(worklist) \subseteq 0 .. Len(m.di)
      BY <3>3 DEF Elements
    <3>. QED
      BY <3>2, <3>3, <3>4 DEF m
  <2>4. phase = "record" => position \in 1 .. Len(compositeTypes) + 1
    BY <2>1 DEF Position
  <2>. QED
    BY <2>1, <2>3, <2>4 DEF TypeOK, Position
<1>. QED
  BY <1>1, InvariantHolds, PTL

(* recordStructInformation meets exactly the debug types the module's      *)
(* variables and functions lead to, and each composite once, however the   *)
(* types refer to each other (CPGTypeEmitter.cpp:431-464).                 *)
THEOREM WalkCompletes == Spec => []WalkIsComplete
BY InvariantHolds, PTL DEF WalkInvariant

(* While a module's structs are declared no list of names is one for a     *)
(* struct of another size, whatever earlier modules have left behind       *)
(* (CPGTypeEmitter.cpp:478).                                               *)
THEOREM ListsAreFitting == Spec => []ListsFit
BY InvariantHolds, PTL DEF WalkInvariant
----------------------------------------------------------------------------
(***************************************************************************)
(* Aliases. When a module's walk is over its typedefs have been recorded,  *)
(* and no list of aliases ever gets shorter.                               *)
(***************************************************************************)
LEMMA ReachableIsLeast ==
  ASSUME NEW m, NEW S \in SUBSET DOMAIN m.di, Closed(m, S),
         \A T \in SUBSET DOMAIN m.di : Closed(m, T) => S \subseteq T
  PROVE  S = Reachable(m)
BY DEF Reachable

IsTypedef(m, d) ==
  /\ m.di[d].kind = "derived" /\ m.di[d].tag = "typedef"
  /\ NameOf(m, m.di[d].base) # "" /\ m.di[d].name # ""

Known(m, known, d) ==
  IsTypedef(m, d) => m.di[d].name \in Elements(At(known, NameOf(m, m.di[d].base)))

Lists(known) == \A n \in DOMAIN known : known[n] \in Seq(STRING)

AliasInvariant ==
  /\ Lists(typeAliases)
  /\ phase = "walk" => \A d \in visitedTypes : Known(ctx[module], typeAliases, d)
  /\ phase = "record" =>
       /\ visitedTypes = Reachable(ctx[module])
       /\ CompositesOnce(ctx[module])
  /\ phase \in {"record", "emit"} =>
       \A d \in Reachable(ctx[module]) : Known(ctx[module], typeAliases, d)
  /\ \A k \in DOMAIN ctx : k < module =>
       \A d \in Reachable(ctx[k]) : Known(ctx[k], typeAliases, d)

(* A typedef is recorded, and what was recorded stays.                     *)
LEMMA RecordingAliases ==
  ASSUME NEW m, IsModule(m), NEW d \in DOMAIN m.di, Lists(typeAliases), RecordAlias(m, m.di[d])
  PROVE  /\ Lists(typeAliases')
         /\ Known(m, typeAliases', d)
         /\ \A M, x : Known(M, typeAliases, x) => Known(M, typeAliases', x)
<1>. DEFINE t == m.di[d]
            base == NameOf(m, t.base)
            old == At(typeAliases, base)
<1>1. \A s \in Seq(STRING), a \in STRING :
        /\ Append(s, a) \in Seq(STRING)
        /\ Elements(Append(s, a)) = Elements(s) \cup {a}
  <2>. SUFFICES ASSUME NEW s \in Seq(STRING), NEW a \in STRING
                PROVE  Elements(Append(s, a)) = Elements(s) \cup {a}
    OBVIOUS
  <2>1. /\ Len(s) \in Nat /\ DOMAIN s = 1 .. Len(s) /\ DOMAIN Append(s, a) = 1 .. Len(s) + 1
        /\ Append(s, a)[Len(s) + 1] = a /\ \A k \in 1 .. Len(s) : Append(s, a)[k] = s[k]
    OBVIOUS
  <2>2. 1 .. Len(s) + 1 = (1 .. Len(s)) \cup {Len(s) + 1}
    BY <2>1
  <2>. QED
    BY <2>1, <2>2 DEF Elements
<1>2. CASE IsTypedef(m, d)
  <2>1. t.name \in STRING
    <3>. DEFINE T == DebugTypes(Len(m.di))
    <3>1. m.di \in Seq(T)
      BY DEF IsModule
    <3>2. t \in T
      <4>. HIDE DEF T
      <4>. QED
        BY <3>1
    <3>. QED
      BY <1>2, <3>2 DEF DebugTypes, IsTypedef
  <2>2. old \in Seq(STRING)
    <3>1. <<>> \in Seq(STRING)
      OBVIOUS
    <3>2. \A n : At(typeAliases, n) \in Seq(STRING)
      BY <3>1 DEF Lists, At
    <3>. QED
      BY <3>2
  <2>3. typeAliases' = Set(typeAliases, base, Append(old, t.name))
    BY <1>2 DEF RecordAlias, IsTypedef, PushBack
  <2>4. Append(old, t.name) \in Seq(STRING) /\ Elements(Append(old, t.name)) = Elements(old) \cup {t.name}
    BY <1>1, <2>1, <2>2
  <2>. DEFINE new == Append(old, t.name)
  <2>5. /\ typeAliases' = Set(typeAliases, base, new)
        /\ new \in Seq(STRING) /\ Elements(new) = Elements(old) \cup {t.name}
    BY <2>3, <2>4
  <2>. HIDE DEF new, base, t, old
  <2>6. /\ DOMAIN typeAliases' = DOMAIN typeAliases \cup {base}
        /\ \A n : At(typeAliases', n) = IF n = base THEN new ELSE At(typeAliases, n)
        /\ \A n \in DOMAIN typeAliases' : typeAliases'[n] = IF n = base THEN new ELSE typeAliases[n]
    BY <2>5 DEF Set, At
  <2>7. Lists(typeAliases')
    BY <2>5, <2>6 DEF Lists
  <2>8. \A n : Elements(At(typeAliases, n)) \subseteq Elements(At(typeAliases', n))
    BY <2>5, <2>6 DEF old
  <2>9. t.name \in Elements(At(typeAliases', base))
    BY <2>5, <2>6
  <2>. QED
    BY <2>7, <2>8, <2>9 DEF Known, base, t
<1>3. CASE ~IsTypedef(m, d)
  <2>1. typeAliases' = typeAliases
    BY <1>3 DEF RecordAlias, IsTypedef
  <2>. QED
    BY <1>3, <2>1 DEF Known
<1>. QED
  BY <1>2, <1>3

LEMMA AliasInit == Init => AliasInvariant
<1>. SUFFICES ASSUME Init PROVE AliasInvariant
  OBVIOUS
<1>1. \A k \in DOMAIN ctx : ~(k < module)
  BY ContextFacts DEF Init
<1>. QED
  BY <1>1 DEF Init, AliasInvariant, Lists, Empty

LEMMA AliasStep == WalkInvariant /\ AliasInvariant /\ [Next]_vars => AliasInvariant'
<1>. SUFFICES ASSUME WalkInvariant, AliasInvariant, [Next]_vars PROVE AliasInvariant'
  OBVIOUS
<1>. DEFINE m == ctx[module]
            Before(known) == \A k \in DOMAIN ctx : k < module =>
                               \A d \in Reachable(ctx[k]) : Known(ctx[k], known, d)
<1>1. Position /\ Len(ctx) \in Nat /\ DOMAIN ctx = 1 .. Len(ctx) /\ \A k \in DOMAIN ctx : IsModule(ctx[k])
  BY ContextFacts DEF WalkInvariant, Position
<1>2. Before(typeAliases) /\ Lists(typeAliases)
  BY DEF AliasInvariant
<1>3. CASE StartModule
  BY <1>2, <1>3 DEF StartModule, AliasInvariant
<1>4. CASE SkipType
  BY <1>2, <1>4 DEF SkipType, AliasInvariant
<1>5. CASE VisitType
  <2>. DEFINE t == Head(worklist)
  <2>1. /\ phase = "walk" /\ worklist # <<>> /\ ~Skipped(t)
        /\ visitedTypes' = visitedTypes \cup {t} /\ RecordAlias(m, m.di[t])
        /\ UNCHANGED <<ctx, phase, module>>
    BY <1>5 DEF VisitType
  <2>2. IsModule(m) /\ Walking(m)
    BY <1>1, <2>1 DEF WalkInvariant, Position
  <2>3. t \in DOMAIN m.di
    <3>1. worklist \in Seq(0 .. Len(m.di)) /\ t # 0
      BY <2>1, <2>2 DEF Walking, Skipped
    <3>2. DOMAIN m.di = 1 .. Len(m.di) /\ Len(m.di) \in Nat
      BY <2>2, ModuleFacts
    <3>. QED
      BY <2>1, <3>1, <3>2
  <2>4. /\ Lists(typeAliases')
        /\ Known(m, typeAliases', t)
        /\ \A M, x : Known(M, typeAliases, x) => Known(M, typeAliases', x)
    <3>1. \A M : \A x \in DOMAIN M.di : IsModule(M) /\ RecordAlias(M, M.di[x]) =>
            /\ Lists(typeAliases')
            /\ Known(M, typeAliases', x)
            /\ \A N, y : Known(N, typeAliases, y) => Known(N, typeAliases', y)
      BY <1>2, RecordingAliases
    <3>. HIDE DEF m, t
    <3>. QED
      BY <2>1, <2>2, <2>3, <3>1
  <2>5. \A d \in visitedTypes' : Known(m, typeAliases', d)
    BY <2>1, <2>4 DEF AliasInvariant
  <2>6. Before(typeAliases')
    BY <1>2, <2>4
  <2>. QED
    BY <2>1, <2>4, <2>5, <2>6 DEF AliasInvariant
<1>6. CASE EndWalk
  <2>1. /\ phase = "walk" /\ phase' = "record" /\ worklist = <<>>
        /\ UNCHANGED <<ctx, module, visitedTypes, compositeTypes, typeAliases>>
    BY <1>6 DEF EndWalk, walk
  <2>2. Walking(m) /\ IsModule(m)
    BY <1>1, <2>1 DEF WalkInvariant, Position
  <2>3. /\ Closed(m, visitedTypes) /\ visitedTypes \subseteq DOMAIN m.di
        /\ \A S \in SUBSET DOMAIN m.di : Closed(m, S) => visitedTypes \subseteq S
        /\ CompositesOnce(m)
    <3>1. Elements(worklist) = {}
      BY <2>1 DEF Elements
    <3>. HIDE DEF m
    <3>. QED
      BY <2>2, <3>1 DEF Walking, Closed
  <2>4. visitedTypes = Reachable(m)
    <3>. HIDE DEF m
    <3>. QED
      BY <2>3, ReachableIsLeast
  <2>5. \A d \in Reachable(m) : Known(m, typeAliases, d)
    BY <2>1, <2>4 DEF AliasInvariant
  <2>6. CompositesOnce(m)'
    BY <2>1, <2>3 DEF CompositesOnce
  <2>. QED
    BY <1>2, <2>1, <2>4, <2>5, <2>6 DEF AliasInvariant
<1>7. CASE RecordNames
  <2>1. phase = "record" /\ UNCHANGED <<ctx, phase, module, visitedTypes, compositeTypes, typeAliases>>
    BY <1>7 DEF RecordNames, walk
  <2>2. CompositesOnce(m)'
    BY <2>1 DEF AliasInvariant, CompositesOnce
  <2>. QED
    BY <2>1, <2>2 DEF AliasInvariant
<1>8. CASE SanityCheck
  BY <1>2, <1>8 DEF SanityCheck, walk, AliasInvariant
<1>9. CASE EmitStruct
  BY <1>2, <1>9 DEF EmitStruct, walk, AliasInvariant
<1>10. CASE EndModule
  <2>1. /\ phase = "emit" /\ phase' = "start" /\ module' = module + 1
        /\ UNCHANGED <<ctx, typeAliases>>
    BY <1>10 DEF EndModule, walk
  <2>2. \A k \in DOMAIN ctx : k < module + 1 => k < module \/ k = module
    BY <1>1 DEF Position
  <2>. QED
    BY <1>2, <2>1, <2>2 DEF AliasInvariant
<1>11. CASE BeginMethods \/ EmitAccess
  BY <1>2, <1>11 DEF BeginMethods, EmitAccess, walk, AliasInvariant
<1>12. CASE UNCHANGED vars
  <2>1. UNCHANGED <<ctx, phase, module, visitedTypes, compositeTypes, typeAliases>>
    BY <1>12 DEF vars, walk
  <2>2. phase = "record" => CompositesOnce(m)'
    BY <2>1 DEF AliasInvariant, CompositesOnce
  <2>. QED
    BY <2>1, <2>2 DEF AliasInvariant
<1>. QED
  BY <1>3, <1>4, <1>5, <1>6, <1>7, <1>8, <1>9, <1>10, <1>11, <1>12 DEF Next

----------------------------------------------------------------------------
(***************************************************************************)
(* Names. Where the modules agree on a struct, a module that has it leaves *)
(* the one list of names there is behind, if it is as long as the struct,  *)
(* or none; and a module that does not have it leaves the list alone.      *)
(***************************************************************************)
LEMMA PositionFacts ==
  ASSUME WalkInvariant
  PROVE  /\ ctx \in Contexts
         /\ Len(ctx) \in Nat /\ DOMAIN ctx = 1 .. Len(ctx)
         /\ \A k \in DOMAIN ctx : IsModule(ctx[k])
         /\ module \in Nat \ {0} /\ module <= Len(ctx) + 1 /\ position \in Nat \ {0}
         /\ phase \in {"walk", "record", "emit"} => module \in DOMAIN ctx
         /\ Len(compositeTypes) \in Nat /\ DOMAIN compositeTypes = 1 .. Len(compositeTypes)
         /\ phase = "record" => position <= Len(compositeTypes) + 1
<1>1. Position
  BY DEF WalkInvariant
<1>2. /\ ctx \in Contexts
      /\ module \in 1 .. Len(ctx) + 1 /\ position \in Nat \ {0}
      /\ phase \in {"walk", "record", "emit"} => module \in DOMAIN ctx
      /\ phase = "record" => position <= Len(compositeTypes) + 1
      /\ compositeTypes \in Seq(Nat)
  BY <1>1 DEF Position
<1>3. Len(ctx) \in Nat /\ DOMAIN ctx = 1 .. Len(ctx) /\ \A k \in DOMAIN ctx : IsModule(ctx[k])
  BY <1>2, ContextFacts
<1>4. Len(compositeTypes) \in Nat /\ DOMAIN compositeTypes = 1 .. Len(compositeTypes)
  BY <1>2
<1>5. module \in Nat \ {0} /\ module <= Len(ctx) + 1
  BY <1>2, <1>3
<1>. QED
  BY <1>2, <1>3, <1>4, <1>5

AllDescriptions(c, n) == UNION {Descriptions(c[k], n) : k \in DOMAIN c}

Described(c, n) == CHOOSE d : AllDescriptions(c, n) = {d}

SizeOf(c, n) == (CHOOSE t \in AllTypes(c) : t.name = n).size

Kept(c, n) == IF Len(Described(c, n)) = SizeOf(c, n) THEN Described(c, n) ELSE <<>>

LEMMA AgreedFacts ==
  ASSUME NEW c, NEW n, Agreed(c, n)
  PROVE  /\ \A k \in DOMAIN c : Has(c[k], n) => Descriptions(c[k], n) = {Described(c, n)}
         /\ \A k \in DOMAIN c : Descriptions(c[k], n) # {} => Has(c[k], n)
         /\ \A t \in AllTypes(c) : t.name = n => t.size = SizeOf(c, n)
<1>1. AllDescriptions(c, n) = {Described(c, n)}
  <2>1. \E d : AllDescriptions(c, n) = {d}
    BY DEF Agreed, AllDescriptions
  <2>. QED
    BY <2>1 DEF Described
<1>2. \A k \in DOMAIN c : Descriptions(c[k], n) \subseteq {Described(c, n)}
  BY <1>1 DEF AllDescriptions
<1>3. \A k \in DOMAIN c : Has(c[k], n) <=> Descriptions(c[k], n) # {}
  BY DEF Agreed
<1>4. \A t, u \in AllTypes(c) : t.name = n /\ u.name = n => t.size = u.size
  BY DEF Agreed
<1>5. ASSUME NEW t \in AllTypes(c), t.name = n
      PROVE  t.size = SizeOf(c, n)
  <2>. DEFINE u == CHOOSE u \in AllTypes(c) : u.name = n
  <2>1. u \in AllTypes(c) /\ u.name = n
    BY <1>5
  <2>. HIDE DEF u
  <2>2. t.size = u.size
    BY <1>4, <1>5, <2>1
  <2>. QED
    BY <2>2 DEF SizeOf, u
<1>. QED
  BY <1>2, <1>3, <1>5

(* The names a module's composite gives are a description of its struct.   *)
LEMMA DescriptionsFacts ==
  ASSUME NEW m, NEW n
  PROVE  /\ \A d \in Reachable(m) : m.di[d].kind = "composite" /\ m.di[d].name = n =>
              MemberNames(m, d) \in Descriptions(m, n)
         /\ Descriptions(m, n) # {} =>
              \E d \in Reachable(m) : m.di[d].kind = "composite" /\ m.di[d].name = n
BY DEF Descriptions

HadBefore(c, k, n) == \E j \in DOMAIN c : j < k /\ Has(c[j], n)

NamedUpTo(m, list, p, n) == \E ix \in DOMAIN list : ix < p /\ m.di[list[ix]].name = n

ListOf(n) == At(structMemberNames, n)

NamesKnown(n) ==
  /\ phase \in {"start", "walk", "methods"} /\ HadBefore(ctx, module, n) =>
       ListOf(n) = Kept(ctx, n)
  /\ phase = "record" /\ HadBefore(ctx, module, n) /\ ~Has(ctx[module], n) =>
       ListOf(n) = Kept(ctx, n)
  /\ phase = "record" /\ NamedUpTo(ctx[module], compositeTypes, position, n) =>
       ListOf(n) = Described(ctx, n)
  /\ phase = "emit" /\ HadBefore(ctx, module + 1, n) => ListOf(n) = Kept(ctx, n)

Named(n) == n # ""

NamesInvariant == \A n : Named(n) /\ Agreed(ctx, n) => NamesKnown(n)

LEMMA NamesInit == Init => NamesInvariant
<1>. SUFFICES ASSUME Init PROVE NamesInvariant
  OBVIOUS
<1>1. \A k \in DOMAIN ctx : ~(k < module)
  BY ContextFacts DEF Init
<1>. QED
  BY <1>1 DEF Init, NamesInvariant, NamesKnown, HadBefore

(* What the names of one struct become when those of a composite are set,  *)
(* and after the sanity check.                                             *)
LEMMA RecordingNames ==
  ASSUME AliasInvariant, WalkInvariant, RecordNames,
         NEW n, Named(n), Agreed(ctx, n), NamesKnown(n)
  PROVE  NamesKnown(n)'
<1>. DEFINE m == ctx[module]
            d == compositeTypes[position]
            x == m.di[d].name
<1>1. /\ phase = "record" /\ position <= Len(compositeTypes) /\ position' = position + 1
      /\ UNCHANGED <<ctx, phase, module, compositeTypes>>
  BY DEF RecordNames, walk
<1>2. structMemberNames' = IF x = "" THEN structMemberNames
                           ELSE Set(structMemberNames, x, MemberNames(m, d))
  BY DEF RecordNames, NewNames
<1>3. /\ Len(compositeTypes) \in Nat
      /\ DOMAIN compositeTypes = 1 .. Len(compositeTypes) /\ position \in Nat \ {0}
      /\ module \in DOMAIN ctx
  BY <1>1, PositionFacts
<1>4. position \in DOMAIN compositeTypes
  BY <1>1, <1>3
<1>5. d \in Reachable(m) /\ m.di[d].kind = "composite"
  <2>1. d \in Elements(compositeTypes)
    BY <1>4 DEF Elements
  <2>2. /\ visitedTypes = Reachable(m)
        /\ Elements(compositeTypes) = {e \in visitedTypes : m.di[e].kind = "composite"}
    BY <1>1 DEF AliasInvariant, CompositesOnce
  <2>. HIDE DEF m, d
  <2>. QED
    BY <2>1, <2>2
<1>. HIDE DEF m, d
<1>6. ListOf(n)' = IF x = n THEN MemberNames(m, d) ELSE ListOf(n)
  BY <1>2 DEF ListOf, Set, At, Named
<1>7. x = n => Has(m, n) /\ MemberNames(m, d) = Described(ctx, n)
  <2>. SUFFICES ASSUME x = n PROVE Has(m, n) /\ MemberNames(m, d) = Described(ctx, n)
    OBVIOUS
  <2>1. MemberNames(m, d) \in Descriptions(m, n)
    BY <1>5, DescriptionsFacts
  <2>. QED
    BY <1>3, <2>1, AgreedFacts DEF m
<1>8. \A ix \in DOMAIN compositeTypes : ix < position + 1 => ix < position \/ ix = position
  BY <1>3
<1>9. NamedUpTo(m, compositeTypes, position + 1, n) => NamedUpTo(m, compositeTypes, position, n) \/ x = n
  BY <1>8 DEF NamedUpTo, d
<1>. QED
  BY <1>1, <1>6, <1>7, <1>9 DEF NamesKnown, m

LEMMA CheckingNames ==
  ASSUME AliasInvariant, WalkInvariant, SanityCheck,
         NEW n, Named(n), Agreed(ctx, n), NamesKnown(n)
  PROVE  NamesKnown(n)'
<1>. DEFINE m == ctx[module]
            wrong == {t.name : t \in {u \in Elements(m.types) : DoesNotFit(u)}}
            size == SizeOf(ctx, n)
<1>1. /\ phase = "record" /\ position = Len(compositeTypes) + 1 /\ phase' = "emit"
      /\ UNCHANGED <<ctx, module>>
      /\ structMemberNames' = [x \in DOMAIN structMemberNames \ wrong |-> structMemberNames[x]]
  BY DEF SanityCheck
<1>2. /\ Len(compositeTypes) \in Nat /\ DOMAIN compositeTypes = 1 .. Len(compositeTypes)
      /\ module \in DOMAIN ctx /\ module \in Nat
  BY <1>1, PositionFacts
<1>3. \A t \in Elements(m.types) : t.name = n => t.size = size
  BY <1>2, AgreedFacts DEF AllTypes
<1>4. ListOf(n)' = IF n \in wrong THEN <<>> ELSE ListOf(n)
  <2>. HIDE DEF wrong
  <2>. QED
    BY <1>1 DEF ListOf, At
<1>5. n \in wrong => Has(m, n) /\ Len(ListOf(n)) # size /\ n \in DOMAIN structMemberNames
  BY <1>3 DEF DoesNotFit, Has, ListOf, At
<1>6. Has(m, n) /\ n \in DOMAIN structMemberNames /\ Len(ListOf(n)) # size => n \in wrong
  BY <1>3 DEF DoesNotFit, Has, ListOf, At
<1>7. n \notin DOMAIN structMemberNames => ListOf(n) = <<>>
  BY DEF ListOf, At
<1>8. Has(m, n) => ListOf(n) = Described(ctx, n)
  <2>. SUFFICES ASSUME Has(m, n) PROVE ListOf(n) = Described(ctx, n)
    OBVIOUS
  <2>1. Descriptions(m, n) # {}
    BY <1>2, AgreedFacts
  <2>2. PICK d \in Reachable(m) : m.di[d].kind = "composite" /\ m.di[d].name = n
    BY <2>1, DescriptionsFacts
  <2>3. d \in Elements(compositeTypes)
    <3>1. /\ visitedTypes = Reachable(m)
          /\ Elements(compositeTypes) = {e \in visitedTypes : m.di[e].kind = "composite"}
      BY <1>1 DEF AliasInvariant, CompositesOnce
    <3>. HIDE DEF m
    <3>. QED
      BY <2>2, <3>1
  <2>4. PICK ix \in DOMAIN compositeTypes : compositeTypes[ix] = d
    BY <2>3 DEF Elements
  <2>5. ix < position
    BY <1>1, <1>2
  <2>6. NamedUpTo(m, compositeTypes, position, n)
    BY <2>2, <2>4, <2>5 DEF NamedUpTo
  <2>. QED
    BY <1>1, <2>6 DEF NamesKnown
<1>9. HadBefore(ctx, module + 1, n) => HadBefore(ctx, module, n) \/ Has(m, n)
  <2>1. \A j \in DOMAIN ctx : j < module + 1 => j < module \/ j = module
    BY <1>2, PositionFacts
  <2>. QED
    BY <2>1 DEF HadBefore
<1>10. CASE Has(m, n)
  <2>1. ListOf(n)' = Kept(ctx, n)
    <3>. HIDE DEF wrong
    <3>. QED
      BY <1>4, <1>5, <1>6, <1>7, <1>8, <1>10 DEF Kept
  <2>. QED
    BY <1>1, <2>1 DEF NamesKnown
<1>11. CASE ~Has(m, n)
  <2>. HIDE DEF wrong
  <2>1. ListOf(n)' = ListOf(n)
    BY <1>4, <1>5, <1>11
  <2>2. HadBefore(ctx, module + 1, n) => ListOf(n) = Kept(ctx, n)
    BY <1>1, <1>9, <1>11 DEF NamesKnown
  <2>. QED
    BY <1>1, <2>1, <2>2 DEF NamesKnown
<1>. QED
  BY <1>10, <1>11

LEMMA NamesStep ==
  WalkInvariant /\ AliasInvariant /\ NamesInvariant /\ [Next]_vars => NamesInvariant'
<1>. SUFFICES ASSUME WalkInvariant, AliasInvariant, NamesInvariant, [Next]_vars
              PROVE  NamesInvariant'
  OBVIOUS
<1>1. ctx' = ctx
  BY DEF Next, vars, StartModule, SkipType, VisitType, EndWalk, RecordNames, SanityCheck,
         EmitStruct, EndModule, BeginMethods, EmitAccess
<1>. SUFFICES ASSUME NEW n, Named(n), Agreed(ctx, n), NamesKnown(n)
              PROVE  NamesKnown(n)'
  BY <1>1 DEF NamesInvariant
<1>. DEFINE list == structMemberNames
<1>2. CASE StartModule \/ SkipType \/ VisitType
  BY <1>2 DEF StartModule, SkipType, VisitType, NamesKnown, ListOf
<1>3. CASE EndWalk
  <2>1. \A m, s : ~NamedUpTo(m, s, 1, n) \/ \E ix \in DOMAIN s : ix < 1
    BY DEF NamedUpTo
  <2>2. DOMAIN compositeTypes = 1 .. Len(compositeTypes)
    BY PositionFacts
  <2>3. ~NamedUpTo(ctx[module], compositeTypes, 1, n)
    BY <2>1, <2>2
  <2>. QED
    BY <1>3, <2>3 DEF EndWalk, walk, NamesKnown, ListOf
<1>4. CASE RecordNames
  BY <1>4, RecordingNames
<1>5. CASE SanityCheck
  BY <1>5, CheckingNames
<1>6. CASE EmitStruct
  BY <1>6 DEF EmitStruct, walk, NamesKnown, ListOf
<1>7. CASE EndModule
  BY <1>7 DEF EndModule, walk, NamesKnown, ListOf
<1>8. CASE BeginMethods
  BY <1>8 DEF BeginMethods, walk, NamesKnown, ListOf
<1>9. CASE EmitAccess
  <2>1. PICK t \in Structs(ctx) : list' = Set(list, t.name, At(list, t.name))
    BY <1>9 DEF EmitAccess
  <2>2. ListOf(n)' = ListOf(n)
    BY <2>1 DEF ListOf, Set, At
  <2>. QED
    BY <1>9, <2>2 DEF EmitAccess, walk, NamesKnown
<1>10. CASE UNCHANGED vars
  BY <1>10 DEF vars, walk, NamesKnown, ListOf
<1>. QED
  BY <1>2, <1>3, <1>4, <1>5, <1>6, <1>7, <1>8, <1>9, <1>10 DEF Next


----------------------------------------------------------------------------
(***************************************************************************)
(* Emission. The members of a name that has been met are one block of the  *)
(* list, in order; where the modules agree on the struct the block bears   *)
(* the names that are kept.                                                *)
(***************************************************************************)
BlockAt(c, list, u, b) ==
  /\ {k \in DOMAIN list : list[k].struct = u.name} = b + 1 .. b + u.size
  /\ \A k \in b + 1 .. b + u.size : list[k].order = k - b - 1
  /\ Agreed(c, u.name) =>
       \A k \in b + 1 .. b + u.size : list[k].name = FieldName(Kept(c, u.name), k - b - 1)

Block(c, list, n) == \E u \in Structs(c), b \in 0 .. Len(list) : u.name = n /\ BlockAt(c, list, u, b)

MemberList(list) ==
  /\ list \in Seq(Elements(list))
  /\ \A k \in DOMAIN list :
       list[k] = [struct |-> list[k].struct, order |-> list[k].order, name |-> list[k].name]

Passed(k, ix) == k < module \/ (k = module /\ phase = "emit" /\ ix < position)

FirstToDeclare(c, k, n) == \A j \in 1 .. k - 1 : ~Declares(c[j], n)

AliasesDeclared(c, known, n) ==
  \A k \in DOMAIN c : FirstToDeclare(c, k, n) =>
    \A a \in TypedefsOf(c[k], n) \ {""} : <<a, n>> \in known

EmissionInvariant ==
  /\ MemberList(members)
  /\ \A k \in DOMAIN members : members[k].struct \in emittedStructs
  /\ \A n \in emittedStructs : Block(ctx, members, n) /\ AliasesDeclared(ctx, aliases, n)
  /\ \A k \in DOMAIN ctx : \A ix \in DOMAIN ctx[k].types :
       Passed(k, ix) /\ EveryStruct(ctx[k].types[ix]) => ctx[k].types[ix].name \in emittedStructs
  /\ phase = "methods" => module = Len(ctx) + 1
  /\ phase # "methods" => fields = {}
  /\ FieldsAreMembersWhenAgreed

LEMMA StructFacts ==
  ASSUME NEW c \in Contexts
  PROVE  /\ \A t \in AllTypes(c) : t.size \in Nat
         /\ \A t \in AllTypes(c) : \E k \in DOMAIN c : \E ix \in DOMAIN c[k].types : t = c[k].types[ix]
         /\ \A k \in DOMAIN c : \A ix \in DOMAIN c[k].types :
              c[k].types[ix] \in AllTypes(c) /\ c[k].types[ix] \in Elements(c[k].types)
<1>1. \A k \in DOMAIN c : \A ix \in DOMAIN c[k].types :
        c[k].types[ix] \in AllTypes(c) /\ c[k].types[ix] \in Elements(c[k].types)
  BY DEF AllTypes, Elements
<1>2. \A t \in AllTypes(c) : \E k \in DOMAIN c : \E ix \in DOMAIN c[k].types : t = c[k].types[ix]
  BY DEF AllTypes, Elements
<1>3. ASSUME NEW t \in AllTypes(c)
      PROVE  t.size \in Nat
  <2>1. PICK k \in DOMAIN c : \E ix \in DOMAIN c[k].types : t = c[k].types[ix]
    BY <1>2
  <2>2. c[k].types \in Seq([name : STRING, size : Nat, opaque : BOOLEAN])
    BY ContextFacts DEF IsModule
  <2>. DEFINE T == [name : STRING, size : Nat, opaque : BOOLEAN]
  <2>3. t \in T
    <3>1. c[k].types \in Seq(T)
      BY <2>2
    <3>. HIDE DEF T
    <3>. QED
      BY <2>1, <3>1
  <2>. QED
    BY <2>3
<1>. QED
  BY <1>1, <1>2, <1>3

(* A block stays where it is, and what is appended for a new name is one.  *)
LEMMA Appended ==
  ASSUME NEW S, NEW T, NEW p \in Seq(S), NEW q \in Seq(T)
  PROVE  /\ Len(p) \in Nat /\ Len(q) \in Nat /\ Len(p \o q) = Len(p) + Len(q)
         /\ DOMAIN p = 1 .. Len(p) /\ DOMAIN q = 1 .. Len(q)
         /\ DOMAIN (p \o q) = 1 .. Len(p) + Len(q)
         /\ \A k \in 1 .. Len(p) : (p \o q)[k] = p[k]
         /\ \A k \in Len(p) + 1 .. Len(p) + Len(q) : (p \o q)[k] = q[k - Len(p)]
         /\ p \o q \in Seq(Elements(p \o q))
<1>1. /\ Len(p) \in Nat /\ Len(q) \in Nat
      /\ DOMAIN p = 1 .. Len(p) /\ DOMAIN q = 1 .. Len(q)
  OBVIOUS
<1>2. p \in Seq(S \cup T) /\ q \in Seq(S \cup T)
  OBVIOUS
<1>3. /\ p \o q \in Seq(S \cup T) /\ Len(p \o q) = Len(p) + Len(q)
      /\ \A k \in 1 .. Len(p) + Len(q) : (p \o q)[k] = IF k <= Len(p) THEN p[k] ELSE q[k - Len(p)]
  BY <1>2, ConcatProperties
<1>4. DOMAIN (p \o q) = 1 .. Len(p) + Len(q)
  <2>. DEFINE r == p \o q
  <2>1. r \in Seq(S \cup T) /\ Len(r) = Len(p) + Len(q)
    BY <1>3
  <2>. HIDE DEF r
  <2>2. DOMAIN r = 1 .. Len(p) + Len(q)
    BY <2>1
  <2>. QED
    BY <2>2 DEF r
<1>5. p \o q \in Seq(Elements(p \o q))
  <2>. DEFINE r == p \o q
  <2>1. r \in Seq(S \cup T)
    BY <1>3
  <2>. HIDE DEF r
  <2>2. \A k \in 1 .. Len(r) : r[k] \in Elements(r)
    BY <2>1 DEF Elements
  <2>3. r \in Seq(Elements(r))
    BY <2>1, <2>2
  <2>. QED
    BY <2>3 DEF r
<1>6. \A k \in 1 .. Len(p) : k \in 1 .. Len(p) + Len(q) /\ k <= Len(p)
  BY <1>1
<1>7. \A k \in Len(p) + 1 .. Len(p) + Len(q) : k \in 1 .. Len(p) + Len(q) /\ ~(k <= Len(p))
  BY <1>1
<1>. QED
  BY <1>1, <1>3, <1>4, <1>5, <1>6, <1>7

(* The same of one sequence after another, each over its own elements.      *)
LEMMA AppendedTo ==
  ASSUME NEW p, NEW q, p \in Seq(Elements(p)), q \in Seq(Elements(q))
  PROVE  /\ Len(p) \in Nat /\ Len(q) \in Nat
         /\ DOMAIN p = 1 .. Len(p) /\ DOMAIN q = 1 .. Len(q)
         /\ DOMAIN (p \o q) = 1 .. Len(p) + Len(q) /\ p \o q \in Seq(Elements(p \o q))
         /\ \A k \in 1 .. Len(p) : (p \o q)[k] = p[k]
         /\ \A k \in Len(p) + 1 .. Len(p) + Len(q) : (p \o q)[k] = q[k - Len(p)]
<1>. DEFINE S == Elements(p)
            T == Elements(q)
<1>. HIDE DEF S, T
<1>1. p \in Seq(S) /\ q \in Seq(T)
  BY DEF S, T
<1>. QED
  BY ONLY <1>1, Appended

LEMMA BlocksStay ==
  ASSUME NEW c \in Contexts, NEW S, NEW T, NEW p \in Seq(S), NEW q \in Seq(T), NEW n,
         \A k \in DOMAIN q : q[k].struct # n, Block(c, p, n)
  PROVE  Block(c, p \o q, n)
<1>1. PICK u \in Structs(c), b \in 0 .. Len(p) : u.name = n /\ BlockAt(c, p, u, b)
  BY DEF Block
<1>2. u.size \in Nat
  BY StructFacts DEF Structs
<1>. DEFINE r == p \o q
<1>3. /\ Len(p) \in Nat /\ Len(q) \in Nat /\ Len(r) = Len(p) + Len(q)
      /\ DOMAIN p = 1 .. Len(p) /\ DOMAIN q = 1 .. Len(q) /\ DOMAIN r = 1 .. Len(p) + Len(q)
      /\ \A k \in 1 .. Len(p) : r[k] = p[k]
      /\ \A k \in Len(p) + 1 .. Len(p) + Len(q) : r[k] = q[k - Len(p)]
  BY Appended
<1>. HIDE DEF r
<1>. DEFINE block == b + 1 .. b + u.size
<1>4. {k \in DOMAIN p : p[k].struct = n} = block
  BY <1>1 DEF BlockAt
<1>. HIDE DEF block
<1>5. {k \in DOMAIN r : r[k].struct = n} = {k \in DOMAIN p : p[k].struct = n}
  <2>1. \A k \in DOMAIN r : k \in DOMAIN p \/ (k \in Len(p) + 1 .. Len(p) + Len(q) /\ k - Len(p) \in DOMAIN q)
    BY <1>3
  <2>2. \A k \in DOMAIN p : k \in DOMAIN r
    BY <1>3
  <2>. QED
    BY <1>3, <2>1, <2>2
<1>6. \A k \in block : k \in 1 .. Len(p) /\ r[k] = p[k]
  BY <1>3, <1>4
<1>7. BlockAt(c, r, u, b)
  BY <1>1, <1>4, <1>5, <1>6 DEF BlockAt, block
<1>8. b \in 0 .. Len(r)
  BY <1>3
<1>. QED
  BY <1>1, <1>7, <1>8 DEF Block, r

LEMMA NewBlock ==
  ASSUME NEW c \in Contexts, NEW S, NEW T, NEW p \in Seq(S), NEW q \in Seq(T), NEW u \in Structs(c),
         \A k \in DOMAIN p : p[k].struct # u.name, Len(q) = u.size,
         \A k \in DOMAIN q : q[k].struct = u.name /\ q[k].order = k - 1,
         Agreed(c, u.name) => \A k \in DOMAIN q : q[k].name = FieldName(Kept(c, u.name), k - 1)
  PROVE  Block(c, p \o q, u.name)
<1>. DEFINE r == p \o q
            b == Len(p)
<1>1. /\ b \in Nat /\ Len(q) \in Nat /\ Len(r) = b + Len(q)
      /\ DOMAIN p = 1 .. b /\ DOMAIN q = 1 .. Len(q) /\ DOMAIN r = 1 .. b + Len(q)
      /\ \A k \in 1 .. b : r[k] = p[k]
      /\ \A k \in b + 1 .. b + Len(q) : r[k] = q[k - b]
  <2>1. p \in Seq(S) /\ q \in Seq(T)
    OBVIOUS
  <2>. QED
    BY ONLY <2>1, Appended
<1>. DEFINE n == u.name
            N(ix) == FieldName(Kept(c, n), ix)
<1>2. Agreed(c, n) => \A k \in DOMAIN q : q[k].name = N(k - 1)
  OBVIOUS
<1>. HIDE DEF r, b, n, N
<1>3. \A k \in b + 1 .. b + Len(q) : k - b \in DOMAIN q /\ (k - b) - 1 = k - b - 1
  BY <1>1
<1>4. \A k \in DOMAIN r : k \in DOMAIN p \/ k \in b + 1 .. b + Len(q)
  BY <1>1
<1>5. \A k \in b + 1 .. b + Len(q) : k \in DOMAIN r
  BY <1>1
<1>6. {k \in DOMAIN r : r[k].struct = n} = b + 1 .. b + Len(q)
  BY <1>1, <1>3, <1>4, <1>5 DEF n
<1>7. \A k \in b + 1 .. b + Len(q) : r[k].order = k - b - 1
  BY <1>1, <1>3
<1>8. Agreed(c, n) => \A k \in b + 1 .. b + Len(q) : r[k].name = N(k - b - 1)
  BY <1>1, <1>2, <1>3
<1>9. BlockAt(c, r, u, b)
  BY <1>6, <1>7, <1>8 DEF BlockAt, n, N
<1>10. b \in 0 .. Len(r)
  BY <1>1
<1>. QED
  BY <1>9, <1>10 DEF Block, r


LEMMA EmissionInit == Init => EmissionInvariant
<1>. SUFFICES ASSUME Init PROVE EmissionInvariant
  OBVIOUS
<1>1. /\ ctx \in Contexts /\ module = 1 /\ phase = "start" /\ members = <<>>
      /\ emittedStructs = {} /\ fields = {}
  BY DEF Init
<1>2. MemberList(members)
  BY <1>1 DEF MemberList
<1>3. \A k \in DOMAIN ctx : \A ix : ~Passed(k, ix)
  BY <1>1, ContextFacts DEF Passed
<1>. QED
  BY <1>1, <1>2, <1>3 DEF EmissionInvariant, FieldsAreMembersWhenAgreed

(* The names of a struct's members are those that are kept.                *)
LEMMA NamesAsKept ==
  ASSUME WalkInvariant, NamesInvariant, phase = "emit",
         NEW n, Named(n), Has(ctx[module], n), Agreed(ctx, n)
  PROVE  ListOf(n) = Kept(ctx, n)
<1>1. module \in DOMAIN ctx /\ module \in Nat
  BY PositionFacts
<1>2. HadBefore(ctx, module + 1, n)
  <2>1. module < module + 1
    BY <1>1
  <2>. QED
    BY <1>1, <2>1 DEF HadBefore
<1>3. NamesKnown(n)
  BY DEF NamesInvariant
<1>. QED
  BY <1>2, <1>3 DEF NamesKnown

(* The first module to declare a struct is one whose typedefs are known by *)
(* the time the struct is met.                                             *)
LEMMA AliasesInTime ==
  ASSUME WalkInvariant, AliasInvariant, phase = "emit",
         NEW n, Named(n), Declares(ctx[module], n)
  PROVE  AliasesDeclared(ctx, {<<a, n>> : a \in Elements(At(typeAliases, n))}, n)
<1>1. module \in DOMAIN ctx /\ module \in Nat /\ module # 0 /\ DOMAIN ctx = 1 .. Len(ctx) /\ Len(ctx) \in Nat
  BY PositionFacts
<1>2. ASSUME NEW k \in DOMAIN ctx, FirstToDeclare(ctx, k, n)
      PROVE  k < module \/ k = module
  <2>1. module \notin 1 .. k - 1
    BY <1>2 DEF FirstToDeclare
  <2>. QED
    BY <1>1, <2>1
<1>. SUFFICES ASSUME NEW k \in DOMAIN ctx, FirstToDeclare(ctx, k, n), NEW a \in TypedefsOf(ctx[k], n) \ {""}
              PROVE  a \in Elements(At(typeAliases, n))
  BY DEF AliasesDeclared
<1>3. \A d \in Reachable(ctx[k]) : Known(ctx[k], typeAliases, d)
  <2>1. CASE k < module
    BY <2>1 DEF AliasInvariant
  <2>2. CASE k = module
    BY <2>2 DEF AliasInvariant
  <2>. QED
    BY <1>2, <2>1, <2>2
<1>. DEFINE m == ctx[k]
<1>4. PICK d \in Reachable(m) :
        /\ m.di[d].kind = "derived" /\ m.di[d].tag = "typedef" /\ NameOf(m, m.di[d].base) = n
        /\ a = m.di[d].name
  BY DEF TypedefsOf
<1>5. Known(m, typeAliases, d)
  BY <1>3
<1>6. a # ""
  OBVIOUS
<1>. HIDE DEF m
<1>7. IsTypedef(m, d)
  BY <1>4, <1>6 DEF IsTypedef, Named
<1>. QED
  BY <1>4, <1>5, <1>7 DEF Known

(* A struct's members: one record for each element.                        *)
LEMMA MembersOfFacts ==
  ASSUME NEW t, t.size \in Nat
  PROVE  /\ MembersOf(t) \in Seq(Elements(MembersOf(t))) /\ Len(MembersOf(t)) = t.size
         /\ DOMAIN MembersOf(t) = 1 .. t.size
         /\ \A k \in 1 .. t.size :
              MembersOf(t)[k] = [struct |-> t.name, order |-> k - 1,
                                 name |-> FieldName(ListOf(t.name), k - 1)]
<1>1. /\ DOMAIN MembersOf(t) = 1 .. t.size
      /\ \A k \in 1 .. t.size :
           MembersOf(t)[k] = [struct |-> t.name, order |-> k - 1,
                              name |-> FieldName(ListOf(t.name), k - 1)]
      /\ MembersOf(t) = [k \in 1 .. t.size |-> MembersOf(t)[k]]
  BY DEF MembersOf, ListOf
<1>. DEFINE q == MembersOf(t)
            S == Elements(q)
<1>2. \A k \in 1 .. t.size : q[k] \in S
  BY <1>1 DEF Elements
<1>3. q = [k \in 1 .. t.size |-> q[k]]
  BY <1>1
<1>. HIDE DEF q, S
<1>4. q \in Seq(S) /\ Len(q) = t.size
  <2>. DEFINE n == t.size
  <2>1. n \in Nat /\ q = [k \in 1 .. n |-> q[k]] /\ \A k \in 1 .. n : q[k] \in S
    BY <1>2, <1>3
  <2>. HIDE DEF n
  <2>2. q \in [1 .. n -> S]
    BY <2>1
  <2>3. q \in Seq(S) /\ Len(q) = n
    BY <2>1, <2>2
  <2>. QED
    BY <2>3 DEF n
<1>. QED
  BY <1>1, <1>4 DEF q, S

LEMMA EmittingStruct ==
  ASSUME WalkInvariant, AliasInvariant, NamesInvariant, EmissionInvariant, phase = "emit",
         NEW t \in Structs(ctx), t \in Elements(ctx[module].types), t.name \notin emittedStructs,
         members' = members \o MembersOf(t),
         aliases' = aliases \cup {<<a, t.name>> : a \in Elements(At(typeAliases, t.name))},
         emittedStructs' = emittedStructs \cup {t.name}, ctx' = ctx
  PROVE  /\ MemberList(members')
         /\ \A k \in DOMAIN members' : members'[k].struct \in emittedStructs'
         /\ \A n \in emittedStructs' : Block(ctx, members', n) /\ AliasesDeclared(ctx, aliases', n)
<1>. DEFINE x == t.name
            q == MembersOf(t)
            N(k) == FieldName(ListOf(x), k - 1)
<1>1. ctx \in Contexts
  BY PositionFacts
<1>2. Named(x) /\ ~t.opaque /\ t \in AllTypes(ctx) /\ t.size \in Nat /\ x \notin emittedStructs
  BY <1>1, StructFacts DEF Structs, Named
<1>3. /\ q \in Seq(Elements(q)) /\ Len(q) = t.size /\ DOMAIN q = 1 .. t.size
      /\ \A k \in DOMAIN q : q[k] = [struct |-> x, order |-> k - 1, name |-> N(k)]
  BY <1>2, MembersOfFacts
<1>5. /\ members \in Seq(Elements(members))
      /\ \A k \in DOMAIN members :
           members[k] = [struct |-> members[k].struct, order |-> members[k].order, name |-> members[k].name]
      /\ \A k \in DOMAIN members : members[k].struct \in emittedStructs
  BY DEF EmissionInvariant, MemberList
<1>. HIDE DEF q, N
<1>4. \A k \in DOMAIN q :
         /\ q[k].struct = x /\ q[k].order = k - 1 /\ q[k].name = N(k)
         /\ q[k] = [struct |-> q[k].struct, order |-> q[k].order, name |-> q[k].name]
  <2>1. \A k : \A s, o, n : q[k] = [struct |-> s, order |-> o, name |-> n] =>
          q[k].struct = s /\ q[k].order = o /\ q[k].name = n
    OBVIOUS
  <2>. HIDE DEF x
  <2>2. ASSUME NEW k \in DOMAIN q
        PROVE  q[k] = [struct |-> x, order |-> k - 1, name |-> N(k)]
    BY <1>3
  <2>. QED
    BY <2>1, <2>2
<1>. DEFINE r == members \o q
<1>6. /\ Len(members) \in Nat /\ Len(q) \in Nat
      /\ DOMAIN members = 1 .. Len(members) /\ DOMAIN q = 1 .. Len(q)
      /\ DOMAIN r = 1 .. Len(members) + Len(q) /\ r \in Seq(Elements(r))
      /\ \A k \in 1 .. Len(members) : r[k] = members[k]
      /\ \A k \in Len(members) + 1 .. Len(members) + Len(q) : r[k] = q[k - Len(members)]
  <2>1. members \in Seq(Elements(members)) /\ q \in Seq(Elements(q))
    BY ONLY <1>3, <1>5
  <2>. QED
    BY ONLY <2>1, AppendedTo
<1>7. members' = r
  BY DEF q
<1>. HIDE DEF r
<1>8. \A k \in DOMAIN r : \/ k \in DOMAIN members /\ r[k] = members[k]
                          \/ k - Len(members) \in DOMAIN q /\ r[k] = q[k - Len(members)]
  BY <1>6
<1>9. \A k \in DOMAIN r : /\ r[k] = [struct |-> r[k].struct, order |-> r[k].order, name |-> r[k].name]
                          /\ r[k].struct \in emittedStructs \cup {x}
  <2>1. ASSUME NEW k \in DOMAIN q
        PROVE  /\ q[k] = [struct |-> q[k].struct, order |-> q[k].order, name |-> q[k].name]
               /\ q[k].struct = x
    BY <1>4
  <2>2. ASSUME NEW k \in DOMAIN r
        PROVE  /\ r[k] = [struct |-> r[k].struct, order |-> r[k].order, name |-> r[k].name]
               /\ r[k].struct \in emittedStructs \cup {x}
    <3>1. CASE k \in DOMAIN members /\ r[k] = members[k]
      BY <1>5, <3>1
    <3>2. CASE k - Len(members) \in DOMAIN q /\ r[k] = q[k - Len(members)]
      BY <2>1, <3>2
    <3>. QED
      BY <1>8, <3>1, <3>2
  <2>. QED
    BY <2>2
<1>10. Has(ctx[module], x) /\ Declares(ctx[module], x)
  BY <1>2 DEF Has, Declares
<1>11. Agreed(ctx, x) => ListOf(x) = Kept(ctx, x)
  <2>. HIDE DEF x
  <2>. QED
    BY <1>2, <1>10, NamesAsKept
<1>12. Block(ctx, r, x)
  <2>1. \A k \in DOMAIN members : members[k].struct # t.name
    BY <1>2, <1>5
  <2>2. \A k \in DOMAIN q : q[k].struct = t.name /\ q[k].order = k - 1
    BY <1>4
  <2>3. Agreed(ctx, t.name) => \A k \in DOMAIN q : q[k].name = FieldName(Kept(ctx, t.name), k - 1)
    BY <1>11, <1>4 DEF N
  <2>. QED
    BY ONLY <1>1, <1>3, <1>5, <2>1, <2>2, <2>3, t \in Structs(ctx), NewBlock DEF r
<1>13. \A n \in emittedStructs : Block(ctx, r, n)
  <2>. SUFFICES ASSUME NEW n \in emittedStructs PROVE Block(ctx, r, n)
    OBVIOUS
  <2>1. Block(ctx, members, n) /\ n # x
    BY <1>2 DEF EmissionInvariant
  <2>2. \A k \in DOMAIN q : q[k].struct # n
    BY <1>4, <2>1
  <2>. QED
    BY ONLY <1>1, <1>3, <1>5, <2>1, <2>2, BlocksStay DEF r
<1>14. AliasesDeclared(ctx, aliases', x)
  <2>1. AliasesDeclared(ctx, {<<a, x>> : a \in Elements(At(typeAliases, x))}, x)
    <3>. HIDE DEF x
    <3>. QED
      BY <1>2, <1>10, AliasesInTime
  <2>. QED
    BY <2>1 DEF AliasesDeclared
<1>15. \A n \in emittedStructs : AliasesDeclared(ctx, aliases', n)
  BY DEF EmissionInvariant, AliasesDeclared
<1>16. MemberList(r)
  BY <1>6, <1>9 DEF MemberList
<1>. QED
  BY <1>7, <1>9, <1>12, <1>13, <1>14, <1>15, <1>16


LEMMA EmitStep ==
  ASSUME WalkInvariant, AliasInvariant, NamesInvariant, EmissionInvariant, EmitStruct
  PROVE  EmissionInvariant'
<1>. DEFINE t == ctx[module].types[position]
<1>1. /\ phase = "emit" /\ position \in DOMAIN ctx[module].types /\ position' = position + 1
      /\ UNCHANGED <<ctx, phase, module, fields>>
  BY DEF EmitStruct
<1>2. module \in DOMAIN ctx /\ ctx \in Contexts /\ position \in Nat
  BY <1>1, PositionFacts
<1>3. IsModule(ctx[module]) /\ DOMAIN ctx[module].types = 1 .. Len(ctx[module].types)
  BY <1>2, ContextFacts, ModuleFacts
<1>4. t \in AllTypes(ctx) /\ t \in Elements(ctx[module].types)
  BY <1>1, <1>2, StructFacts
<1>5. /\ MemberList(members)'
      /\ (\A k \in DOMAIN members : members[k].struct \in emittedStructs)'
      /\ (\A n \in emittedStructs : Block(ctx, members, n) /\ AliasesDeclared(ctx, aliases, n))'
      /\ emittedStructs \subseteq emittedStructs'
      /\ EveryStruct(t) => t.name \in emittedStructs'
  <2>1. CASE ToBeEmitted(t)
    <3>1. /\ emittedStructs' = emittedStructs \cup {t.name}
          /\ aliases' = aliases \cup {<<a, t.name>> : a \in Elements(At(typeAliases, t.name))}
          /\ members' = members \o MembersOf(t)
      BY <2>1 DEF EmitStruct
    <3>2. t \in Structs(ctx) /\ t.name \notin emittedStructs
      BY <1>4, <2>1 DEF Structs, ToBeEmitted
    <3>. HIDE DEF t
    <3>3. /\ MemberList(members')
          /\ \A k \in DOMAIN members' : members'[k].struct \in emittedStructs'
          /\ \A n \in emittedStructs' : Block(ctx, members', n) /\ AliasesDeclared(ctx, aliases', n)
      BY <1>1, <1>4, <3>1, <3>2, EmittingStruct
    <3>. QED
      BY <1>1, <3>1, <3>3
  <2>2. CASE ~ToBeEmitted(t)
    <3>1. UNCHANGED <<emittedStructs, aliases, members>>
      BY <2>2 DEF EmitStruct
    <3>2. EveryStruct(t) => t.name \in emittedStructs
      BY <2>2 DEF EveryStruct, ToBeEmitted
    <3>. QED
      BY <1>1, <3>1, <3>2 DEF EmissionInvariant
  <2>. QED
    BY <2>1, <2>2
<1>6. \A k \in DOMAIN ctx : \A ix \in DOMAIN ctx[k].types :
        Passed(k, ix)' => Passed(k, ix) \/ (k = module /\ ix = position)
  <2>1. \A ix \in DOMAIN ctx[module].types : ix < position + 1 => ix < position \/ ix = position
    BY <1>2, <1>3
  <2>. QED
    BY <1>1, <2>1 DEF Passed
<1>7. \A k \in DOMAIN ctx : \A ix \in DOMAIN ctx[k].types :
        Passed(k, ix)' /\ EveryStruct(ctx[k].types[ix]) => ctx[k].types[ix].name \in emittedStructs'
  BY <1>5, <1>6 DEF EmissionInvariant
<1>8. fields = {}
  BY <1>1 DEF EmissionInvariant
<1>. QED
  BY <1>1, <1>5, <1>7, <1>8 DEF EmissionInvariant, FieldsAreMembersWhenAgreed, EveryStruct

(* An access bears the name its member was declared with.                  *)
LEMMA AccessingMember ==
  ASSUME WalkInvariant, NamesInvariant, EmissionInvariant, phase = "methods",
         NEW t \in Structs(ctx), NEW ix \in Nat, ix < t.size, Agreed(ctx, t.name)
  PROVE  IsMember(<<t.name, ix, FieldName(At(structMemberNames, t.name), ix)>>)
<1>. DEFINE n == t.name
<1>1. ctx \in Contexts /\ module = Len(ctx) + 1 /\ Len(ctx) \in Nat /\ DOMAIN ctx = 1 .. Len(ctx)
  BY PositionFacts DEF EmissionInvariant
<1>2. Named(n) /\ t \in AllTypes(ctx) /\ EveryStruct(t)
  BY DEF Structs, Named, EveryStruct
<1>3. PICK k \in DOMAIN ctx : \E j \in DOMAIN ctx[k].types : t = ctx[k].types[j]
  BY <1>1, <1>2, StructFacts
<1>4. PICK j \in DOMAIN ctx[k].types : t = ctx[k].types[j]
  BY <1>3
<1>5. k < module
  BY <1>1
<1>6. n \in emittedStructs
  BY <1>2, <1>4, <1>5 DEF EmissionInvariant, Passed
<1>7. ListOf(n) = Kept(ctx, n)
  <2>1. Has(ctx[k], n)
    BY <1>1, <1>4, StructFacts DEF Has
  <2>2. HadBefore(ctx, module, n)
    BY <1>5, <2>1 DEF HadBefore
  <2>3. NamesKnown(n)
    BY <1>2 DEF NamesInvariant
  <2>. QED
    BY <2>2, <2>3 DEF NamesKnown
<1>8. PICK u \in Structs(ctx), b \in 0 .. Len(members) : u.name = n /\ BlockAt(ctx, members, u, b)
  BY <1>6 DEF EmissionInvariant, Block
<1>9. u.size = t.size /\ u.size \in Nat
  <2>1. u \in AllTypes(ctx)
    BY <1>8 DEF Structs
  <2>2. \A v \in AllTypes(ctx) : v.name = n => v.size = SizeOf(ctx, n)
    BY AgreedFacts
  <2>3. u.size \in Nat
    BY <1>1, <2>1, StructFacts
  <2>. QED
    BY <1>2, <1>8, <2>1, <2>2, <2>3
<1>. DEFINE e == b + ix + 1
            N(x) == FieldName(Kept(ctx, n), x)
<1>10. /\ {x \in DOMAIN members : members[x].struct = n} = b + 1 .. b + u.size
       /\ \A x \in b + 1 .. b + u.size : members[x].order = x - b - 1 /\ members[x].name = N(x - b - 1)
  BY <1>8 DEF BlockAt
<1>11. members \in Seq(Elements(members)) /\ b \in Nat
  <2>1. members \in Seq(Elements(members))
    BY DEF EmissionInvariant, MemberList
  <2>. DEFINE E == Elements(members)
  <2>. HIDE DEF E
  <2>2. members \in Seq(E)
    BY <2>1 DEF E
  <2>3. Len(members) \in Nat
    BY <2>2
  <2>. QED
    BY <2>1, <2>3
<1>. HIDE DEF N
<1>12. e \in b + 1 .. b + u.size /\ e - b - 1 = ix
  BY <1>9, <1>11
<1>. HIDE DEF e
<1>13. e \in DOMAIN members /\ members[e].struct = n /\ members[e].order = ix /\ members[e].name = N(ix)
  BY <1>10, <1>12
<1>14. members[e] = [struct |-> members[e].struct, order |-> members[e].order, name |-> members[e].name]
  BY <1>13 DEF EmissionInvariant, MemberList
<1>15. members[e] = [struct |-> n, order |-> ix, name |-> N(ix)]
  BY <1>13, <1>14
<1>16. N(ix) = FieldName(At(structMemberNames, n), ix)
  BY <1>7 DEF ListOf, N
<1>. QED
  BY <1>13, <1>15, <1>16 DEF IsMember

LEMMA AccessStep ==
  ASSUME WalkInvariant, NamesInvariant, EmissionInvariant, EmitAccess
  PROVE  EmissionInvariant'
<1>1. PICK t \in Structs(ctx), ix \in 0 .. 3 :
        /\ ix < t.size
        /\ fields' = fields \cup {<<t.name, ix, FieldName(At(structMemberNames, t.name), ix)>>}
  BY DEF EmitAccess
<1>2. /\ phase = "methods" /\ UNCHANGED <<ctx, phase, module, position, emittedStructs, aliases, members>>
  BY DEF EmitAccess
<1>3. FieldsAreMembersWhenAgreed'
  <2>. DEFINE new == <<t.name, ix, FieldName(At(structMemberNames, t.name), ix)>>
  <2>1. \A f : IsMember(f)' <=> IsMember(f)
    BY <1>2 DEF IsMember
  <2>2. IsMember(new) \/ ~Agreed(ctx, new[1])
    <3>1. ix \in Nat /\ new[1] = t.name
      OBVIOUS
    <3>. QED
      BY <1>1, <1>2, <3>1, AccessingMember
  <2>3. \A f \in fields : IsMember(f) \/ ~Agreed(ctx, f[1])
    BY DEF EmissionInvariant, FieldsAreMembersWhenAgreed
  <2>. HIDE DEF new
  <2>. QED
    BY <1>1, <1>2, <2>1, <2>2, <2>3 DEF FieldsAreMembersWhenAgreed, new
<1>. QED
  BY <1>2, <1>3 DEF EmissionInvariant, Passed

LEMMA EmissionStep ==
  WalkInvariant /\ AliasInvariant /\ NamesInvariant /\ EmissionInvariant /\ [Next]_vars
    => EmissionInvariant'
<1>. SUFFICES ASSUME WalkInvariant, AliasInvariant, NamesInvariant, EmissionInvariant, [Next]_vars
              PROVE  EmissionInvariant'
  OBVIOUS
<1>1. CASE StartModule \/ SkipType \/ VisitType \/ EndWalk \/ RecordNames \/ SanityCheck
  <2>1. /\ UNCHANGED <<ctx, module, emittedStructs, aliases, members, fields>>
        /\ phase # "methods" /\ phase # "emit" /\ phase' # "methods"
        /\ phase' = "emit" => position' = 1
    BY <1>1 DEF StartModule, SkipType, VisitType, EndWalk, RecordNames, SanityCheck, walk
  <2>2. \A k \in DOMAIN ctx : \A ix \in DOMAIN ctx[k].types : Passed(k, ix)' => Passed(k, ix)
    <3>1. \A k \in DOMAIN ctx : \A ix \in DOMAIN ctx[k].types : ~(ix < 1)
      <4>1. \A k \in DOMAIN ctx : DOMAIN ctx[k].types = 1 .. Len(ctx[k].types)
        BY PositionFacts, ModuleFacts
      <4>. QED
        BY <4>1
    <3>. QED
      BY <2>1, <3>1 DEF Passed
  <2>3. FieldsAreMembersWhenAgreed'
    BY <2>1 DEF EmissionInvariant, FieldsAreMembersWhenAgreed
  <2>. QED
    BY <2>1, <2>2, <2>3 DEF EmissionInvariant
<1>2. CASE EmitStruct
  BY <1>2, EmitStep
<1>3. CASE EndModule
  <2>1. /\ phase = "emit" /\ phase' = "start" /\ module' = module + 1
        /\ position = Len(ctx[module].types) + 1
        /\ UNCHANGED <<ctx, emittedStructs, aliases, members, fields>>
    BY <1>3 DEF EndModule
  <2>2. module \in DOMAIN ctx /\ module \in Nat /\ DOMAIN ctx = 1 .. Len(ctx)
    BY <2>1, PositionFacts
  <2>3. \A k \in DOMAIN ctx : \A ix \in DOMAIN ctx[k].types : Passed(k, ix)' => Passed(k, ix)
    <3>1. \A ix \in DOMAIN ctx[module].types : ix < position
      <4>1. DOMAIN ctx[module].types = 1 .. Len(ctx[module].types) /\ Len(ctx[module].types) \in Nat
        BY <2>2, PositionFacts, ModuleFacts
      <4>. QED
        BY <2>1, <4>1
    <3>2. \A k \in DOMAIN ctx : k < module + 1 => k < module \/ k = module
      BY <2>2
    <3>. QED
      BY <2>1, <3>1, <3>2 DEF Passed
  <2>4. FieldsAreMembersWhenAgreed'
    BY <2>1 DEF EmissionInvariant, FieldsAreMembersWhenAgreed
  <2>. QED
    BY <2>1, <2>3, <2>4 DEF EmissionInvariant
<1>4. CASE BeginMethods
  <2>1. /\ phase = "start" /\ phase' = "methods" /\ module = Len(ctx) + 1
        /\ UNCHANGED <<ctx, module, position, emittedStructs, aliases, members, fields>>
    BY <1>4 DEF BeginMethods
  <2>2. FieldsAreMembersWhenAgreed'
    BY <2>1 DEF EmissionInvariant, FieldsAreMembersWhenAgreed
  <2>3. \A k \in DOMAIN ctx : \A ix \in DOMAIN ctx[k].types : Passed(k, ix)' => Passed(k, ix)
    BY <2>1 DEF Passed
  <2>. QED
    BY <2>1, <2>2, <2>3 DEF EmissionInvariant
<1>5. CASE EmitAccess
  BY <1>5, AccessStep
<1>6. CASE UNCHANGED vars
  <2>1. UNCHANGED <<ctx, phase, module, position, emittedStructs, aliases, members, fields>>
    BY <1>6 DEF vars
  <2>2. FieldsAreMembersWhenAgreed'
    BY <2>1 DEF EmissionInvariant, FieldsAreMembersWhenAgreed, IsMember
  <2>. QED
    BY <2>1, <2>2 DEF EmissionInvariant, Passed
<1>. QED
  BY <1>1, <1>2, <1>3, <1>4, <1>5, <1>6 DEF Next


LEMMA DeclaredWhenThrough ==
  ASSUME WalkInvariant, EmissionInvariant
  PROVE  StructsAreDeclaredOnce
<1>. SUFFICES ASSUME phase = "start", module = Len(ctx) + 1, NEW t \in Structs(ctx)
              PROVE  DeclaredOnce(t) /\ AliasesDeclared(ctx, aliases, t.name)
  BY DEF StructsAreDeclaredOnce, AliasesDeclared, FirstToDeclare
<1>1. ctx \in Contexts /\ Len(ctx) \in Nat /\ DOMAIN ctx = 1 .. Len(ctx)
  BY PositionFacts
<1>2. t \in AllTypes(ctx) /\ EveryStruct(t)
  BY DEF Structs, EveryStruct
<1>3. PICK k \in DOMAIN ctx : \E ix \in DOMAIN ctx[k].types : t = ctx[k].types[ix]
  BY <1>1, <1>2, StructFacts
<1>4. PICK ix \in DOMAIN ctx[k].types : t = ctx[k].types[ix]
  BY <1>3
<1>5. k < module
  BY <1>1
<1>6. t.name \in emittedStructs
  BY <1>2, <1>4, <1>5 DEF EmissionInvariant, Passed
<1>7. Block(ctx, members, t.name) /\ AliasesDeclared(ctx, aliases, t.name)
  BY <1>6 DEF EmissionInvariant
<1>8. DeclaredOnce(t)
  BY <1>7 DEF Block, BlockAt, DeclaredOnce
<1>. QED
  BY <1>7, <1>8

LEMMA EmissionHolds == Spec => [](WalkInvariant /\ AliasInvariant /\ NamesInvariant /\ EmissionInvariant)
<1>1. Init => WalkInvariant /\ AliasInvariant /\ NamesInvariant /\ EmissionInvariant
  BY InvariantInit, AliasInit, NamesInit, EmissionInit
<1>2. /\ WalkInvariant /\ AliasInvariant /\ NamesInvariant /\ EmissionInvariant
      /\ [Next]_vars
      => (WalkInvariant /\ AliasInvariant /\ NamesInvariant /\ EmissionInvariant)'
  BY InvariantStep, AliasStep, NamesStep, EmissionStep
<1>. QED
  BY <1>1, <1>2, PTL DEF Spec

(* When every module is through, each name of a struct has its members     *)
(* declared once, one for each element in order, and the typedefs of the   *)
(* modules up to the first that declares it are its aliases.               *)
THEOREM DeclaredOnceInOrder == Spec => []StructsAreDeclaredOnce
BY DeclaredWhenThrough, EmissionHolds, PTL

(* Where the modules agree on a struct, an access to a field, made when    *)
(* every module is through, bears the name the member was declared with.   *)
THEOREM AccessesNameMembers == Spec => []FieldsAreMembersWhenAgreed
<1>1. EmissionInvariant => FieldsAreMembersWhenAgreed
  BY DEF EmissionInvariant
<1>. QED
  BY <1>1, EmissionHolds, PTL

==============================================================================
