----------------------------- MODULE PassesProofs -----------------------------
(***************************************************************************)
(* The passes over the bitcode, for every set of functions and of modules. *)
(*                                                                         *)
(* Load inlining: the types of LoadInline, its safety property             *)
(* InlinedReadsUnspoilt, that no load is missed, that the result is        *)
(* reproducible, and that it implements InlineSpec. First the lemmas       *)
(* about the walks through marked instructions they rest on: Up and Down   *)
(* are least closed sets, they are each other's inverse, and marking one   *)
(* more instruction lengthens the walks in a bounded way.                  *)
(*                                                                         *)
(* Transforms: the three properties its run checks. The strings of         *)
(* StringInline are followed from the globals (InlinesAre), to the         *)
(* operands (MarksAreReferences), the metadata (MetadataIsMarks) and the   *)
(* emitted operands (ShownRight); of the walks of OpaqueTypes, what is     *)
(* known is whose they are (OneWalk) and what they leave (VisitsAreComplete). *)
(***************************************************************************)
EXTENDS LoadInline, Transforms, WellFoundedInduction, SequenceTheorems, TLAPS

(* A walk up starts at its instruction.                                    *)
LEMMA UpSelf ==
  ASSUME NEW f, NEW m, NEW i \in Insts(f)
  PROVE  i \in Up(f, m, i)
BY DEF Up

(* A walk up goes on through every marked user.                            *)
LEMMA UpStep ==
  ASSUME NEW f, NEW m, NEW i, NEW k \in Up(f, m, i), NEW u \in Users(f, k) \cap m
  PROVE  u \in Up(f, m, i)
BY DEF Up, ClosedUp, Users

(* A walk up stays in every closed set it starts in.                       *)
LEMMA UpLeast ==
  ASSUME NEW f, NEW m, NEW i, NEW S \in SUBSET Insts(f),
         i \in S, ClosedUp(f, m, S)
  PROVE  Up(f, m, i) \subseteq S
BY DEF Up

(* The same three facts for walks down.                                    *)
LEMMA DownSelf ==
  ASSUME NEW f, NEW m, NEW i \in Insts(f)
  PROVE  i \in Down(f, m, i)
BY DEF Down

LEMMA DownStep ==
  ASSUME NEW f, WellFormed(f), NEW m, NEW i,
         NEW k \in Down(f, m, i), NEW j \in f.args[k] \cap m
  PROVE  j \in Down(f, m, i)
<1>1. k \in Insts(f)
  BY DEF Down
<1>2. j \in Insts(f)
  BY <1>1 DEF WellFormed
<1>. QED
  BY <1>2 DEF Down, ClosedDown

LEMMA DownLeast ==
  ASSUME NEW f, NEW m, NEW i, NEW S \in SUBSET Insts(f),
         i \in S, ClosedDown(f, m, S)
  PROVE  Down(f, m, i) \subseteq S
BY DEF Down

(* The expression of u contains those of the marked operands of u.         *)
LEMMA DownOperand ==
  ASSUME NEW f, WellFormed(f), NEW m, NEW u \in Insts(f), NEW k \in f.args[u] \cap m
  PROVE  Down(f, m, k) \subseteq Down(f, m, u)
<1>1. k \in Down(f, m, u)
  BY DownSelf, DownStep
<1>2. Down(f, m, u) \in SUBSET Insts(f)
  BY DEF Down
<1>3. ClosedDown(f, m, Down(f, m, u))
  BY DownStep DEF ClosedDown
<1>. QED
  BY <1>1, <1>2, <1>3, DownLeast

(* A marked instruction is part of every expression that a walk up from it *)
(* reaches.                                                                *)
LEMMA UpDown ==
  ASSUME NEW f, WellFormed(f), NEW m, NEW i \in Insts(f) \cap m,
         NEW k \in Up(f, m, i)
  PROVE  k \in m /\ i \in Down(f, m, k)
<1>. DEFINE S == {j \in Insts(f) : j \in m /\ i \in Down(f, m, j)}
<1>1. i \in S
  BY DownSelf
<1>2. ASSUME NEW j \in S, NEW u \in Users(f, j) \cap m
      PROVE  u \in S
  <2>1. u \in Insts(f) /\ j \in f.args[u] \cap m
    BY DEF Users
  <2>2. Down(f, m, j) \subseteq Down(f, m, u)
    BY <2>1, DownOperand
  <2>. QED
    BY <2>1, <2>2
<1>3. ClosedUp(f, m, S)
  BY <1>2 DEF ClosedUp
<1>4. Up(f, m, i) \subseteq S
  <2>. HIDE DEF S
  <2>1. S \in SUBSET Insts(f)
    BY DEF S
  <2>. QED
    BY <1>1, <1>3, <2>1, UpLeast
<1>. QED
  BY <1>4

(* Marking n lengthens a walk up by at most the walk up from n, and by     *)
(* that only if the walk already reached a user of n.                      *)
LEMMA UpGrow ==
  ASSUME NEW f, NEW m, NEW i \in Insts(f), NEW n \in Insts(f),
         NEW k \in Up(f, m \cup {n}, i)
  PROVE  \/ k \in Up(f, m, i)
         \/ k \in Up(f, m, n) /\ \E j \in Up(f, m, i) : n \in Users(f, j)
<1>. DEFINE met == \E j \in Up(f, m, i) : n \in Users(f, j)
            S   == Up(f, m, i) \cup {j \in Up(f, m, n) : met}
<1>1. S \in SUBSET Insts(f) /\ i \in S
  BY UpSelf DEF Up
<1>2. ASSUME NEW j \in S, NEW u \in Users(f, j) \cap (m \cup {n})
      PROVE  u \in S
  <2>1. CASE j \in Up(f, m, i) /\ u = n
    BY <2>1, UpSelf
  <2>2. CASE j \in Up(f, m, i) /\ u \in m
    BY <2>2, UpStep
  <2>3. CASE j \in Up(f, m, n) /\ met /\ u = n
    BY <2>3, UpSelf
  <2>4. CASE j \in Up(f, m, n) /\ met /\ u \in m
    BY <2>4, UpStep
  <2>. QED
    BY <2>1, <2>2, <2>3, <2>4
<1>3. ClosedUp(f, m \cup {n}, S)
  BY <1>2 DEF ClosedUp
<1>4. Up(f, m \cup {n}, i) \subseteq S
  <2>. HIDE DEF S
  <2>. QED
    BY <1>1, <1>3, UpLeast
<1>. QED
  BY <1>4

(* The same for the places where an expression is used.                    *)
LEMMA UsesGrow ==
  ASSUME NEW f, NEW m, NEW i \in Insts(f), NEW n \in Insts(f),
         NEW u \in Uses(f, m \cup {n}, i)
  PROVE  \/ u \in Uses(f, m, i)
         \/ u \in Uses(f, m, n) /\ \E j \in Up(f, m, i) : n \in Users(f, j)
<1>1. PICK k \in Up(f, m \cup {n}, i) : u \in Users(f, k)
  BY DEF Uses
<1>. QED
  BY <1>1, UpGrow DEF Uses

(* More marks make longer walks, and more uses.                            *)
LEMMA UpMonotone ==
  ASSUME NEW f, NEW m, NEW mm, m \subseteq mm, NEW i \in Insts(f)
  PROVE  Up(f, m, i) \subseteq Up(f, mm, i) /\ Uses(f, m, i) \subseteq Uses(f, mm, i)
<1>1. Up(f, mm, i) \in SUBSET Insts(f) /\ i \in Up(f, mm, i)
  BY UpSelf DEF Up
<1>2. ClosedUp(f, m, Up(f, mm, i))
  BY UpStep DEF ClosedUp
<1>3. Up(f, m, i) \subseteq Up(f, mm, i)
  BY <1>1, <1>2, UpLeast
<1>. QED
  BY <1>3 DEF Uses

(* What a walk up reaches, but for its start, is a use of its start.       *)
LEMMA UpIsUse ==
  ASSUME NEW f, NEW m, NEW i \in Insts(f), NEW k \in Up(f, m, i), k # i
  PROVE  k \in Uses(f, m, i)
<1>. DEFINE S == {j \in Up(f, m, i) : j = i \/ j \in Uses(f, m, i)}
<1>1. S \in SUBSET Insts(f) /\ i \in S
  BY UpSelf DEF Up
<1>2. ASSUME NEW j \in S, NEW u \in Users(f, j) \cap m PROVE u \in S
  BY UpStep DEF Uses
<1>3. ClosedUp(f, m, S)
  BY <1>2 DEF ClosedUp
<1>4. Up(f, m, i) \subseteq S
  <2>. HIDE DEF S
  <2>. QED
    BY <1>1, <1>3, UpLeast
<1>. QED
  BY <1>4

(* From a part of an expression that is marked a walk up finds the whole.  *)
LEMMA DownUp ==
  ASSUME NEW f, WellFormed(f), NEW m, NEW i \in Insts(f),
         \A j \in (m \cup {i}) \cap Insts(f) : f.kind[j] # "dbg",
         NEW k \in Down(f, m, i)
  PROVE  (k = i \/ k \in m) /\ i \in Up(f, m \cup {i}, k)
<1>. DEFINE mi == m \cup {i}
            S == {j \in Insts(f) : j \in mi /\ i \in Up(f, mi, j)}
<1>1. S \in SUBSET Insts(f) /\ i \in S
  BY UpSelf
<1>2. ASSUME NEW j \in S, NEW a \in f.args[j] \cap m PROVE a \in S
  <2>1. a \in Insts(f) /\ j \in Insts(f)
    BY DEF WellFormed
  <2>2. j \in Users(f, a) \cap mi
    BY <2>1 DEF Users
  <2>3. j \in Up(f, mi, a)
    BY <2>1, <2>2, UpSelf, UpStep
  <2>4. ClosedUp(f, mi, Up(f, mi, a)) /\ Up(f, mi, a) \in SUBSET Insts(f)
    <3>1. ClosedUp(f, mi, Up(f, mi, a))
      BY UpStep DEF ClosedUp
    <3>. QED
      BY <3>1 DEF Up
  <2>5. Up(f, mi, j) \subseteq Up(f, mi, a)
    BY <2>3, <2>4, UpLeast
  <2>. QED
    BY <2>1, <2>5
<1>3. ClosedDown(f, m, S)
  BY <1>2 DEF ClosedDown
<1>4. Down(f, m, i) \subseteq S
  <2>. HIDE DEF S
  <2>. QED
    BY <1>1, <1>3, DownLeast
<1>. QED
  BY <1>4


----------------------------------------------------------------------------

USE DEF Insts

(* No action changes the function, and every function is well formed.      *)
LEMMA WellFormedInit == Init => WellFormed(fn)
BY FunctionsAssumption DEF Init

LEMMA LoadsFacts ==
  ASSUME NEW f
  PROVE  /\ Loads(f) \subseteq Insts(f)
         /\ Forced(f) \subseteq Insts(f)
         /\ Loads(f) \cap Forced(f) = {}
BY DEF Loads, Forced

(* Type correctness of every reachable state.                              *)
THEOREM TypeCorrect == Spec => []TypeOK
<1>1. Init => TypeOK
  <2>. SUFFICES ASSUME Init PROVE TypeOK
    OBVIOUS
  <2>1. WellFormed(fn)
    BY WellFormedInit
  <2>2. fn.n \in Nat
    BY <2>1 DEF WellFormed
  <2>. QED
    BY <2>1, <2>2 DEF Init, TypeOK, NoSpoilers
<1>2. TypeOK /\ [Next]_vars => TypeOK'
  <2>. SUFFICES ASSUME TypeOK, [Next]_vars PROVE TypeOK'
    OBVIOUS
  <2>. USE LoadsFacts
  <2>1. fn.n \in Nat /\ fn.block \in [1 .. fn.n -> Nat]
    BY DEF TypeOK, WellFormed
  <2>2. CASE MarkAddresses
    BY <2>2 DEF MarkAddresses, TypeOK
  <2>3. CASE EnterBlock
    <3>1. fn.block[idx] \in Nat
      BY <2>1, <2>3 DEF EnterBlock, TypeOK
    <3>. QED
      BY <2>3, <3>1 DEF EnterBlock, TypeOK, NoSpoilers
  <2>4. CASE ScanInstruction
    <3>1. idx \in 1 .. fn.n
      BY <2>4 DEF ScanInstruction, InBlock
    <3>2. {l \in {idx} : IsCandidate(l)} \subseteq Loads(fn)
      BY <3>1 DEF IsCandidate, Loads
    <3>3. /\ unspoilt' \subseteq Loads(fn)
          /\ DOMAIN firstSpoiler' \subseteq Loads(fn)
          /\ DOMAIN firstSpoiler \subseteq DOMAIN firstSpoiler'
          /\ firstSpoiler' \in [DOMAIN firstSpoiler' -> 1 .. fn.n + 1]
      BY <2>4, <3>1, <3>2 DEF ScanInstruction, SpoiltBy, Insert, TypeOK
    <3>. QED
      BY <2>1, <2>4, <3>1, <3>3 DEF ScanInstruction, TypeOK
  <2>5. CASE EndScan
    <3>1. /\ DOMAIN firstSpoiler' \subseteq Loads(fn)
          /\ firstSpoiler' \in [DOMAIN firstSpoiler' -> 1 .. fn.n + 1]
      BY <2>5 DEF EndScan, Insert, TypeOK
    <3>. QED
      BY <2>5, <3>1 DEF EndScan, TypeOK
  <2>6. CASE DecideLoad
    BY <2>6 DEF DecideLoad, Lowest, TypeOK
  <2>7. CASE LeaveBlock
    BY <2>7 DEF LeaveBlock, TypeOK
  <2>8. CASE Finish
    BY <2>8 DEF Finish, TypeOK
  <2>9. CASE UNCHANGED vars
    BY <2>9 DEF vars, TypeOK
  <2>. QED
    BY <2>2, <2>3, <2>4, <2>5, <2>6, <2>7, <2>8, <2>9 DEF Next
<1>. QED
  BY <1>1, <1>2, PTL DEF Spec

----------------------------------------------------------------------------
(***************************************************************************)
(* Safety. The one step that matters is DecideLoad: marking l makes every  *)
(* marked load below l live until the last use of l.                       *)
(***************************************************************************)

(* A walk up from a load that has no use outside its block stays in it.    *)
LEMMA UsesInBlock ==
  ASSUME TypeOK, NEW i \in Insts(fn), ~UsedOutsideBlock(i)
  PROVE  \A u \in Uses(fn, marked, i) : fn.block[u] = fn.block[i]
<1>. DEFINE S == {k \in Up(fn, marked, i) : fn.block[k] = fn.block[i]}
<1>1. i \in S
  BY UpSelf
<1>2. S \in SUBSET Insts(fn)
  BY DEF Up
<1>3. \A k \in Up(fn, marked, i) : \A u \in Users(fn, k) : fn.block[u] = fn.block[k]
  BY DEF UsedOutsideBlock
<1>4. ClosedUp(fn, marked, S)
  BY <1>3, UpStep DEF ClosedUp
<1>5. Up(fn, marked, i) \subseteq S
  <2>. HIDE DEF S
  <2>. QED
    BY <1>1, <1>2, <1>4, UpLeast
<1>. QED
  BY <1>3, <1>5 DEF Uses

(* Marking a candidate l after the test usedUntil <= validUntil: the new   *)
(* uses of an older load k are uses of l, which has k in its expression.   *)
LEMMA MarkingIsSafe ==
  ASSUME TypeOK, PassInvariant, phase = "decide",
         NEW l \in DOMAIN firstSpoiler, MayInline(l),
         NEW k \in (marked \cap Loads(fn)) \cup DOMAIN firstSpoiler,
         NEW u \in Uses(fn, marked \cup {l}, k)
  PROVE  /\ fn.block[u] = fn.block[k]
         /\ k \in marked \cup {l} /\ k \in DOMAIN firstSpoiler
              => u <= firstSpoiler[k]
         /\ k \in (marked \cap Loads(fn)) \cup {l} => UnspoiltAt(fn, k, u)
<1>. USE LoadsFacts
<1>1. WellFormed(fn) /\ fn.n \in Nat
  BY DEF TypeOK, WellFormed
<1>2. /\ l \in Insts(fn) /\ k \in Insts(fn) /\ u \in Insts(fn)
      /\ l \in Loads(fn) /\ k \in Loads(fn)
  BY DEF TypeOK, Uses, Users
<1>3. /\ fn.block[l] = blk
      /\ \A j \in Uses(fn, marked, l) : fn.block[j] = blk
      /\ \A j \in Uses(fn, marked, k) : fn.block[j] = fn.block[k]
  BY DEF PassInvariant, NoEscape, SpoilersAreFirst, UnspoiltUntil
<1>4. ASSUME NEW j \in Insts(fn), fn.block[j] = blk
      PROVE  j < idx /\ j \in instNumber
  <2>1. j < idx
    <3>1. CASE idx > fn.n
      BY <1>1, <1>4, <3>1 DEF TypeOK
    <3>2. CASE idx <= fn.n
      <4>1. blk < fn.block[idx] /\ idx \in Insts(fn)
        BY <3>2 DEF PassInvariant, ScanPosition, TypeOK
      <4>2. idx <= j => fn.block[idx] <= fn.block[j]
        BY <1>1, <1>4, <4>1 DEF WellFormed
      <4>3. fn.block[idx] \in Nat /\ blk \in Nat
        BY <1>1, <4>1 DEF WellFormed, TypeOK
      <4>. QED
        BY <1>1, <1>4, <4>1, <4>2, <4>3
    <3>. QED
      BY <1>1, <3>1, <3>2 DEF TypeOK
  <2>. QED
    BY <1>4, <2>1 DEF PassInvariant, ScanPosition
<1>5. ASSUME NEW j \in DOMAIN firstSpoiler, j \in Down(fn, marked, l),
             NEW v \in Uses(fn, marked, l)
      PROVE  v <= firstSpoiler[j]
  <2>1. v \in UseNumbers(l)
    BY <1>3, <1>4, <1>5 DEF UseNumbers, Uses, Users
  <2>2. firstSpoiler[j] \in SpoilNumbers(l)
    BY <1>5 DEF SpoilNumbers
  <2>. QED
    BY <2>1, <2>2 DEF MayInline
<1>6. \/ u \in Uses(fn, marked, k)
      \/ u \in Uses(fn, marked, l) /\ \E j \in Up(fn, marked, k) : l \in Users(fn, j)
  BY <1>2, UsesGrow
<1>7. (\E j \in Up(fn, marked, k) : l \in Users(fn, j)) => fn.block[l] = fn.block[k]
  BY <1>3 DEF Uses
<1>8. fn.block[u] = fn.block[k]
  BY <1>3, <1>6, <1>7
<1>9. ASSUME k \in marked \cup {l}, k \in DOMAIN firstSpoiler
      PROVE  u <= firstSpoiler[k]
  <2>1. CASE k = l
    BY <1>2, <1>5, <1>6, <2>1, DownSelf
  <2>2. CASE k # l /\ u \in Uses(fn, marked, k)
    BY <1>9, <2>2 DEF PassInvariant, UsedBeforeSpoilt
  <2>3. CASE k # l /\ u \in Uses(fn, marked, l) /\ \E j \in Up(fn, marked, k) : l \in Users(fn, j)
    <3>1. PICK j \in Up(fn, marked, k) : l \in Users(fn, j)
      BY <2>3
    <3>2. k \in Insts(fn) \cap marked
      BY <1>2, <1>9, <2>3
    <3>3. j \in marked /\ k \in Down(fn, marked, j)
      BY <1>1, <3>2, <3>1, UpDown
    <3>4. Down(fn, marked, j) \subseteq Down(fn, marked, l)
      BY <1>1, <1>2, <3>1, <3>3, DownOperand DEF Users
    <3>. QED
      BY <1>5, <1>9, <2>3, <3>3, <3>4
  <2>. QED
    BY <1>6, <2>1, <2>2, <2>3
<1>10. ASSUME k \in (marked \cap Loads(fn)) \cup {l}
       PROVE  UnspoiltAt(fn, k, u)
  <2>1. CASE fn.block[k] = blk
    <3>1. k \in DOMAIN firstSpoiler
      BY <1>10, <2>1 DEF PassInvariant, MarkedSoFar
    <3>2. u <= firstSpoiler[k]
      BY <1>9, <1>10, <3>1
    <3>3. UnspoiltUntil(k, firstSpoiler[k])
      BY <3>1 DEF PassInvariant, SpoilersAreFirst
    <3>4. firstSpoiler[k] \in 1 .. fn.n + 1
      BY <3>1 DEF TypeOK
    <3>. QED
      BY <1>1, <1>2, <1>8, <3>2, <3>3, <3>4 DEF UnspoiltUntil, UnspoiltAt
  <2>2. CASE fn.block[k] # blk
    <3>1. k \in marked \cap Loads(fn)
      BY <1>3, <1>10, <2>2
    <3>2. u \in Uses(fn, marked, k)
      BY <1>3, <1>6, <1>7, <2>2
    <3>. QED
      BY <3>1, <3>2 DEF PassInvariant, InlinedReadsUnspoilt, Clean
  <2>. QED
    BY <2>1, <2>2
<1>. QED
  BY <1>8, <1>9, <1>10

LEMMA PassInvariantInit == Init => PassInvariant
<1>. SUFFICES ASSUME Init PROVE PassInvariant
  OBVIOUS
<1>1. fn.n \in Nat
  BY WellFormedInit DEF WellFormed
<1>2. marked = {} /\ unspoilt = {} /\ DOMAIN firstSpoiler = {} /\ idx = 1 /\ phase = "address"
  BY DEF Init, NoSpoilers
<1>3. ScanPosition /\ SpoilersAreFirst /\ UsedBeforeSpoilt
  BY <1>2 DEF ScanPosition, SpoilersAreFirst, UsedBeforeSpoilt
<1>4. MarkedSoFar
  BY <1>2 DEF MarkedSoFar
<1>5. NoEscape /\ InlinedReadsUnspoilt
  BY <1>2 DEF NoEscape, InlinedReadsUnspoilt, Clean
<1>. QED
  BY <1>3, <1>4, <1>5 DEF PassInvariant

LEMMA PassInvariantStep == TypeOK /\ PassInvariant /\ [Next]_vars => PassInvariant'
<1>. SUFFICES ASSUME TypeOK, PassInvariant, [Next]_vars PROVE PassInvariant'
  OBVIOUS
<1>. USE LoadsFacts
<1>1. WellFormed(fn) /\ fn.n \in Nat /\ fn.block \in [Insts(fn) -> Nat]
  BY DEF TypeOK, WellFormed
<1>2. CASE MarkAddresses
  <2>1. /\ marked' \cap Loads(fn') = {}
        /\ unspoilt' = {} /\ DOMAIN firstSpoiler' = {}
        /\ phase' = "block" /\ fn' = fn /\ idx' = 1
    BY <1>2 DEF MarkAddresses, PassInvariant, MarkedSoFar
  <2>2. ScanPosition'
    BY <1>1, <2>1 DEF ScanPosition
  <2>3. (MarkedSoFar /\ SpoilersAreFirst /\ UsedBeforeSpoilt)'
    BY <2>1 DEF MarkedSoFar, SpoilersAreFirst, UsedBeforeSpoilt
  <2>4. (NoEscape /\ InlinedReadsUnspoilt)'
    BY <2>1 DEF NoEscape, InlinedReadsUnspoilt, Clean
  <2>. QED
    BY <2>2, <2>3, <2>4 DEF PassInvariant
<1>3. CASE EnterBlock
  <2>1. /\ phase' = "scan" /\ fn' = fn /\ marked' = marked /\ idx' = idx
        /\ unspoilt' = {} /\ DOMAIN firstSpoiler' = {}
        /\ idx \in Insts(fn) /\ blk' = fn.block[idx] /\ phase = "block"
    BY <1>3 DEF EnterBlock, NoSpoilers, TypeOK
  <2>2. \A i \in Insts(fn) : i < idx => fn.block[i] < fn.block[idx]
    BY <2>1 DEF PassInvariant, ScanPosition
  <2>3. ScanPosition'
    BY <1>1, <2>1, <2>2 DEF ScanPosition
  <2>4. MarkedSoFar'
    BY <2>1, <2>2 DEF MarkedSoFar, PassInvariant
  <2>5. (NoEscape /\ InlinedReadsUnspoilt)'
    BY <2>1 DEF NoEscape, InlinedReadsUnspoilt, PassInvariant
  <2>6. (SpoilersAreFirst /\ UsedBeforeSpoilt)'
    BY <2>1 DEF SpoilersAreFirst, UsedBeforeSpoilt
  <2>. QED
    BY <2>3, <2>4, <2>5, <2>6 DEF PassInvariant
<1>4. CASE ScanInstruction
  <2>1. /\ phase = "scan" /\ phase' = "scan" /\ fn' = fn /\ marked' = marked
        /\ blk' = blk /\ idx' = idx + 1 /\ instNumber' = instNumber \cup {idx}
        /\ idx \in Insts(fn) /\ fn.block[idx] = blk
    BY <1>4 DEF ScanInstruction, InBlock
  <2>. DEFINE candidates == unspoilt \cup {l \in {idx} : IsCandidate(l)}
              spoilt == SpoiltBy(idx, candidates)
  <2>2. /\ unspoilt' = candidates \ spoilt
        /\ DOMAIN firstSpoiler' = DOMAIN firstSpoiler \cup spoilt
        /\ \A l \in DOMAIN firstSpoiler : firstSpoiler'[l] = firstSpoiler[l]
        /\ \A l \in spoilt \ DOMAIN firstSpoiler : firstSpoiler'[l] = idx
    BY <1>4 DEF ScanInstruction, Insert
  <2>3. ScanPosition'
    <3>1. \A i \in Insts(fn) : i < idx + 1 => fn.block[i] <= blk
                /\ (fn.block[i] = blk => i \in instNumber \cup {idx})
      BY <1>1, <2>1 DEF PassInvariant, ScanPosition
    <3>2. idx + 1 <= fn.n => blk <= fn.block[idx + 1]
      BY <1>1, <2>1 DEF WellFormed
    <3>. QED
      BY <2>1, <3>1, <3>2 DEF ScanPosition
  <2>4. MarkedSoFar'
    BY <2>1 DEF PassInvariant, MarkedSoFar, TypeOK
  <2>5. (NoEscape /\ InlinedReadsUnspoilt)'
    <3>1. ASSUME NEW l \in candidates
          PROVE  \A u \in Uses(fn, marked, l) : fn.block[u] = fn.block[l]
      BY <2>1, UsesInBlock DEF IsCandidate, PassInvariant, NoEscape
    <3>2. unspoilt' \cup DOMAIN firstSpoiler' \subseteq candidates \cup DOMAIN firstSpoiler
      BY <2>2 DEF SpoiltBy
    <3>. HIDE DEF candidates
    <3>. QED
      BY <2>1, <3>1, <3>2 DEF PassInvariant, NoEscape, InlinedReadsUnspoilt
  <2>6. SpoilersAreFirst'
    <3>1. ASSUME NEW l \in candidates
          PROVE  /\ fn.block[l] = blk /\ l \in Insts(fn)
                 /\ l <= idx
                 /\ \A w \in Insts(fn) : l < w /\ w < idx => <<w, l>> \notin fn.mods
      BY <1>1, <2>1 DEF PassInvariant, SpoilersAreFirst, UnspoiltUntil, TypeOK
    <3>2. \A l \in unspoilt' : UnspoiltUntil(l, idx)'
      <4>. SUFFICES ASSUME NEW l \in unspoilt'
                    PROVE  /\ fn.block[l] = blk /\ l < idx + 1
                           /\ \A w \in Insts(fn) : l < w /\ w < idx + 1 => <<w, l>> \notin fn.mods
        BY <2>1 DEF UnspoiltUntil
      <4>1. l \in candidates /\ <<idx, l>> \notin fn.mods
        BY <2>2 DEF SpoiltBy
      <4>. HIDE DEF candidates
      <4>2. \A w \in Insts(fn) : w < idx + 1 => w < idx \/ w = idx
        BY <1>1, <2>1
      <4>3. fn.block[l] = blk /\ l < idx + 1
        <5>1. fn.block[l] = blk /\ l \in Insts(fn) /\ l <= idx
          BY <3>1, <4>1
        <5>2. l \in Int /\ idx \in Int
          BY <1>1, <2>1, <5>1
        <5>. QED
          BY <5>1, <5>2
      <4>4. \A w \in Insts(fn) : l < w /\ w < idx + 1 => <<w, l>> \notin fn.mods
        BY <3>1, <4>1, <4>2
      <4>. QED
        BY <4>3, <4>4
    <3>3. \A l \in DOMAIN firstSpoiler' : UnspoiltUntil(l, firstSpoiler[l])' 
      <4>1. ASSUME NEW l \in DOMAIN firstSpoiler
            PROVE  UnspoiltUntil(l, firstSpoiler[l])'
        <5>1. UnspoiltUntil(l, firstSpoiler[l]) /\ firstSpoiler'[l] = firstSpoiler[l]
          BY <2>1, <2>2 DEF PassInvariant, SpoilersAreFirst
        <5>2. firstSpoiler[l] \in 1 .. fn.n + 1
          BY DEF TypeOK
        <5>. QED
          BY <1>1, <2>1, <5>1, <5>2 DEF UnspoiltUntil
      <4>2. ASSUME NEW l \in spoilt, l \notin DOMAIN firstSpoiler
            PROVE  UnspoiltUntil(l, firstSpoiler[l])'
        <5>1. l \in candidates /\ <<idx, l>> \in fn.mods /\ firstSpoiler'[l] = idx
          BY <2>2, <4>2 DEF SpoiltBy
        <5>. HIDE DEF candidates, spoilt
        <5>2. l # idx
          BY <1>1, <5>1 DEF WellFormed, Writers, Loads
        <5>. QED
          BY <1>1, <2>1, <3>1, <5>1, <5>2 DEF UnspoiltUntil
      <4>. QED
        BY <2>2, <4>1, <4>2
    <3>. QED
      BY <2>1, <3>2, <3>3 DEF SpoilersAreFirst
  <2>7. UsedBeforeSpoilt'
    BY <2>1 DEF UsedBeforeSpoilt
  <2>. QED
    BY <2>3, <2>4, <2>5, <2>6, <2>7 DEF PassInvariant
<1>5. CASE EndScan
  <2>1. /\ phase = "scan" /\ phase' = "decide" /\ fn' = fn /\ marked' = marked
        /\ blk' = blk /\ idx' = idx /\ instNumber' = instNumber /\ unspoilt' = unspoilt
        /\ idx \in Insts(fn) => fn.block[idx] # blk
        /\ DOMAIN firstSpoiler' = DOMAIN firstSpoiler \cup unspoilt
        /\ \A l \in DOMAIN firstSpoiler : firstSpoiler'[l] = firstSpoiler[l]
        /\ \A l \in unspoilt \ DOMAIN firstSpoiler : firstSpoiler'[l] = idx
    BY <1>5 DEF EndScan, InBlock, Insert
  <2>2. ScanPosition'
    BY <1>1, <2>1 DEF PassInvariant, ScanPosition, TypeOK
  <2>3. \A l \in marked \cap Loads(fn) : fn.block[l] < blk /\ l < idx
    BY <2>1 DEF PassInvariant, MarkedSoFar
  <2>4. MarkedSoFar'
    BY <1>1, <2>1, <2>3 DEF MarkedSoFar, TypeOK
  <2>5. (NoEscape /\ InlinedReadsUnspoilt)'
    BY <2>1 DEF PassInvariant, NoEscape, InlinedReadsUnspoilt
  <2>6. SpoilersAreFirst'
    <3>1. ASSUME NEW l \in DOMAIN firstSpoiler'
          PROVE  UnspoiltUntil(l, firstSpoiler[l])'
      <4>1. \/ UnspoiltUntil(l, firstSpoiler[l]) /\ firstSpoiler'[l] = firstSpoiler[l]
            \/ UnspoiltUntil(l, idx) /\ firstSpoiler'[l] = idx
        BY <2>1 DEF PassInvariant, SpoilersAreFirst
      <4>. QED
        BY <2>1, <4>1 DEF UnspoiltUntil
    <3>2. ASSUME NEW l \in unspoilt'
          PROVE  UnspoiltUntil(l, idx)'
      BY <2>1 DEF PassInvariant, SpoilersAreFirst, UnspoiltUntil
    <3>. QED
      BY <2>1, <3>1, <3>2 DEF SpoilersAreFirst
  <2>7. UsedBeforeSpoilt'
    <3>1. ASSUME NEW l \in marked \cap DOMAIN firstSpoiler'
          PROVE  FALSE
      <4>1. l \in Loads(fn) /\ fn.block[l] = blk
        BY <2>1, <3>1 DEF TypeOK, PassInvariant, SpoilersAreFirst, UnspoiltUntil
      <4>. QED
        BY <1>1, <2>3, <4>1 DEF TypeOK
    <3>. QED
      BY <2>1, <3>1 DEF UsedBeforeSpoilt
  <2>. QED
    BY <2>2, <2>4, <2>5, <2>6, <2>7 DEF PassInvariant
<1>6. CASE DecideLoad
  <2>1. PICK l \in toInline : marked' = marked \cup {k \in {l} : MayInline(k)}
    BY <1>6 DEF DecideLoad, Lowest
  <2>2. /\ phase = "decide" /\ phase' = phase /\ fn' = fn /\ blk' = blk /\ idx' = idx
        /\ instNumber' = instNumber /\ unspoilt' = unspoilt /\ firstSpoiler' = firstSpoiler
    BY <1>6 DEF DecideLoad
  <2>3. ScanPosition' /\ SpoilersAreFirst'
    BY <2>2 DEF PassInvariant, ScanPosition, SpoilersAreFirst, UnspoiltUntil
  <2>4. CASE ~MayInline(l)
    <3>1. marked' = marked
      BY <2>1, <2>4
    <3>2. (MarkedSoFar /\ NoEscape /\ UsedBeforeSpoilt /\ InlinedReadsUnspoilt)'
      BY <2>2, <3>1 DEF PassInvariant, MarkedSoFar, NoEscape, UsedBeforeSpoilt,
                        InlinedReadsUnspoilt
    <3>. QED
      BY <2>3, <3>2 DEF PassInvariant
  <2>5. CASE MayInline(l)
    <3>1. marked' = marked \cup {l}
      BY <2>1, <2>5
    <3>2. l \in DOMAIN firstSpoiler /\ l \in Loads(fn)
      BY <2>1 DEF TypeOK
    <3>3. unspoilt \subseteq DOMAIN firstSpoiler
      BY <2>2 DEF PassInvariant, SpoilersAreFirst
    <3>4. MarkedSoFar'
      <4>1. UnspoiltUntil(l, firstSpoiler[l]) /\ firstSpoiler[l] \in Int /\ idx \in Int /\ l \in Int
        BY <1>1, <2>2, <3>2 DEF PassInvariant, SpoilersAreFirst, TypeOK
      <4>2. l < idx
        BY <4>1 DEF UnspoiltUntil
      <4>. QED
        BY <2>2, <3>1, <3>2, <4>2 DEF PassInvariant, MarkedSoFar
    <3>5. ASSUME NEW k \in (marked' \cap Loads(fn)) \cup DOMAIN firstSpoiler,
                 NEW u \in Uses(fn, marked', k)
          PROVE  /\ fn.block[u] = fn.block[k]
                 /\ k \in marked' /\ k \in DOMAIN firstSpoiler => u <= firstSpoiler[k]
                 /\ k \in marked' \cap Loads(fn) => UnspoiltAt(fn, k, u)
      BY <2>2, <2>5, <3>1, <3>2, MarkingIsSafe
    <3>6. (NoEscape /\ UsedBeforeSpoilt /\ InlinedReadsUnspoilt)'
      BY <2>2, <3>3, <3>5 DEF NoEscape, UsedBeforeSpoilt, InlinedReadsUnspoilt, Clean
    <3>. QED
      BY <2>3, <3>4, <3>6 DEF PassInvariant
  <2>. QED
    BY <2>4, <2>5
<1>7. CASE LeaveBlock
  <2>1. /\ phase = "decide" /\ phase' = "block" /\ fn' = fn /\ marked' = marked
        /\ blk' = blk /\ idx' = idx /\ unspoilt' = unspoilt /\ firstSpoiler' = firstSpoiler
    BY <1>7 DEF LeaveBlock
  <2>2. ScanPosition'
    <3>. SUFFICES ASSUME idx <= fn.n, NEW i \in Insts(fn), i < idx
                  PROVE  fn.block[i] < fn.block[idx]
      BY <2>1 DEF ScanPosition
    <3>1. fn.block[i] <= blk /\ blk < fn.block[idx]
      BY <2>1 DEF PassInvariant, ScanPosition
    <3>2. fn.block[i] \in Nat /\ fn.block[idx] \in Nat /\ blk \in Nat
      BY <1>1 DEF TypeOK
    <3>. QED
      BY <3>1, <3>2
  <2>3. (MarkedSoFar /\ NoEscape /\ SpoilersAreFirst /\ UsedBeforeSpoilt /\ InlinedReadsUnspoilt)'
    BY <2>1 DEF PassInvariant, MarkedSoFar, NoEscape, SpoilersAreFirst, UsedBeforeSpoilt,
                InlinedReadsUnspoilt
  <2>. QED
    BY <2>2, <2>3 DEF PassInvariant
<1>8. CASE Finish
  BY <1>8 DEF Finish, PassInvariant, ScanPosition, MarkedSoFar, NoEscape, SpoilersAreFirst,
              UsedBeforeSpoilt, InlinedReadsUnspoilt
<1>9. CASE UNCHANGED vars
  BY <1>9 DEF vars, PassInvariant, ScanPosition, MarkedSoFar, NoEscape, SpoilersAreFirst,
              UnspoiltUntil, UsedBeforeSpoilt, InlinedReadsUnspoilt
<1>. QED
  BY <1>2, <1>3, <1>4, <1>5, <1>6, <1>7, <1>8, <1>9 DEF Next

(* What an inlined load reads is never overwritten before its last use.    *)
THEOREM Safety == Spec => []InlinedReadsUnspoilt
<1>1. PassInvariant => InlinedReadsUnspoilt
  BY DEF PassInvariant
<1>. QED
  BY PassInvariantInit, PassInvariantStep, TypeCorrect, <1>1, PTL DEF Spec

(* The same invariant, for whoever builds on the pass.                     *)
THEOREM PassInvariantHolds == Spec => [](TypeOK /\ PassInvariant)
BY PassInvariantInit, PassInvariantStep, TypeCorrect, PTL DEF Spec

----------------------------------------------------------------------------
(***************************************************************************)
(* Nothing is given up, and the order of the decisions is that of the      *)
(* instructions: a load the pass has passed without marking it cannot be   *)
(* marked next to those before it, and more marks do not change that.      *)
(***************************************************************************)
MarkedBefore(l) == {k \in marked : k \in Forced(fn) \/ k < l}

Missed(l) == ~Clean(fn, MarkedBefore(l) \cup {l})

DecidedInOrder ==
  /\ phase # "address" => Forced(fn) \subseteq marked
  /\ phase = "decide" => \A k \in marked \cap DOMAIN firstSpoiler, l \in toInline : k < l

MissedSoFar ==
  /\ phase = "done" => idx = fn.n + 1
  /\ phase \in {"block", "done"} =>
       \A l \in Loads(fn) \ marked : l < idx => Missed(l)
  /\ phase = "scan" =>
       \A l \in Loads(fn) \ marked :
         l < idx => Missed(l) \/ l \in unspoilt \cup DOMAIN firstSpoiler
  /\ phase = "decide" =>
       \A l \in Loads(fn) \ marked : l < idx => Missed(l) \/ l \in toInline

(* What firstSpoiler has spoils, unless it is the end of the block.        *)
SpoilersSpoil ==
  /\ \A i \in instNumber : i < idx
  /\ phase = "scan" => \A l \in DOMAIN firstSpoiler : <<firstSpoiler[l], l>> \in fn.mods
  /\ phase = "decide" =>
       \A l \in DOMAIN firstSpoiler :
         <<firstSpoiler[l], l>> \in fn.mods \/ firstSpoiler[l] = idx

LEMMA StillMissed ==
  ASSUME NEW m, NEW mm, m \subseteq mm, NEW l, ~Clean(fn, m \cup {l})
  PROVE  ~Clean(fn, mm \cup {l})
<1>0. PICK k \in (m \cup {l}) \cap Loads(fn) :
        \E u \in Uses(fn, m \cup {l}, k) : ~UnspoiltAt(fn, k, u)
  BY DEF Clean
<1>1. PICK u \in Uses(fn, m \cup {l}, k) : ~UnspoiltAt(fn, k, u)
  BY <1>0
<1>2. k \in Insts(fn)
  BY LoadsFacts
<1>3. u \in Uses(fn, mm \cup {l}, k)
  BY <1>1, <1>2, UpMonotone
<1>. QED
  BY <1>1, <1>3 DEF Clean

LEMMA MissedStays ==
  ASSUME NEW l, Missed(l), fn' = fn, marked \subseteq marked'
  PROVE  Missed(l)'
<1>. DEFINE before == {k \in marked' : k \in Forced(fn) \/ k < l}
<1>1. ~Clean(fn, MarkedBefore(l) \cup {l}) /\ MarkedBefore(l) \subseteq before
  BY DEF Missed, MarkedBefore
<1>2. Missed(l)' <=> ~Clean(fn, before \cup {l})
  BY DEF Missed, MarkedBefore
<1>. HIDE DEF before
<1>. QED
  BY <1>1, <1>2, StillMissed

(* When a load is met by the scan or decided about only loads before it    *)
(* have been marked.                                                       *)
LEMMA AllBefore ==
  ASSUME TypeOK, PassInvariant, DecidedInOrder, NEW l \in Loads(fn),
         (phase = "scan" /\ l = idx) \/ (phase = "decide" /\ l \in toInline)
  PROVE  MarkedBefore(l) = marked
<1>. USE LoadsFacts
<1>1. /\ WellFormed(fn) /\ fn.n \in Nat /\ blk \in Nat /\ l \in Insts(fn)
      /\ \A k \in Insts(fn) : k \in Nat /\ fn.block[k] \in Nat
  BY DEF TypeOK, WellFormed, Insts
<1>2. ASSUME NEW k \in marked \cap Loads(fn), phase = "decide", l \in toInline
      PROVE  k < l
  <2>1. k < idx /\ (fn.block[k] = blk => k \in DOMAIN firstSpoiler)
    BY <1>2 DEF PassInvariant, MarkedSoFar
  <2>2. CASE k \in DOMAIN firstSpoiler
    BY <1>2, <2>2 DEF DecidedInOrder
  <2>3. CASE k \notin DOMAIN firstSpoiler
    <3>1. fn.block[k] <= blk /\ fn.block[k] # blk
      BY <1>2, <2>1, <2>3 DEF PassInvariant, ScanPosition
    <3>2. fn.block[l] = blk
      BY <1>2 DEF TypeOK, PassInvariant, SpoilersAreFirst, UnspoiltUntil
    <3>3. l < k => fn.block[l] <= fn.block[k]
      BY <1>1, <1>2 DEF WellFormed
    <3>4. k # l /\ ~(l < k)
      BY <1>1, <1>2, <3>1, <3>2, <3>3
    <3>. QED
      BY <1>1, <1>2, <3>4
  <2>. QED
    BY <2>2, <2>3
<1>3. ASSUME NEW k \in marked \cap Loads(fn), phase = "scan", l = idx
      PROVE  k < l
  BY <1>3 DEF PassInvariant, MarkedSoFar
<1>4. marked \subseteq Loads(fn) \cup Forced(fn)
  BY DEF TypeOK
<1>. QED
  BY <1>2, <1>3, <1>4 DEF MarkedBefore

(* A load that is no candidate is used outside its block, or is part of an *)
(* expression that is.                                                     *)
LEMMA EscapeIsMissed ==
  ASSUME TypeOK, NEW l \in Loads(fn), UsedOutsideBlock(l)
  PROVE  ~Clean(fn, marked \cup {l})
<1>. USE LoadsFacts
<1>0. PICK k \in Up(fn, marked, l) : \E u \in Users(fn, k) : fn.block[u] # fn.block[k]
  BY DEF UsedOutsideBlock
<1>1. PICK u \in Users(fn, k) : fn.block[u] # fn.block[k]
  BY <1>0
<1>2. u \in Uses(fn, marked, l)
  BY <1>1 DEF Uses
<1>3. k # l => k \in Uses(fn, marked, l)
  BY UpIsUse
<1>4. PICK v \in Uses(fn, marked, l) : fn.block[v] # fn.block[l]
  BY <1>1, <1>2, <1>3
<1>5. v \in Uses(fn, marked \cup {l}, l)
  BY UpMonotone
<1>. QED
  BY <1>4, <1>5 DEF Clean, UnspoiltAt

(* A candidate that is rejected has something in its expression that would *)
(* be read too late.                                                       *)
LEMMA RejectIsMissed ==
  ASSUME TypeOK, PassInvariant, SpoilersSpoil, phase = "decide", NEW l \in Loads(fn),
         ~MayInline(l)
  PROVE  ~Clean(fn, marked \cup {l})
<1>. USE LoadsFacts
<1>1. WellFormed(fn) /\ fn.n \in Nat
  BY DEF TypeOK, WellFormed
<1>2. PICK u \in UseNumbers(l), k \in Down(fn, marked, l) \cap DOMAIN firstSpoiler :
        ~(u <= firstSpoiler[k])
  BY DEF MayInline, SpoilNumbers
<1>3. /\ k \in Loads(fn) /\ k \in Insts(fn) /\ firstSpoiler[k] \in 1 .. fn.n + 1
      /\ u \in Insts(fn) /\ u \in Uses(fn, marked, l) /\ u < idx /\ idx \in 1 .. fn.n + 1
  BY <1>2 DEF TypeOK, UseNumbers, Uses, Users, SpoilersSpoil
<1>4. \A j \in (marked \cup {l}) \cap Insts(fn) : fn.kind[j] # "dbg"
  BY DEF TypeOK, Loads, Forced
<1>5. k \in marked \cup {l} /\ l \in Up(fn, marked \cup {l}, k)
  BY <1>1, <1>2, <1>4, DownUp
<1>6. u \in Uses(fn, marked \cup {l}, k)
  <2>1. PICK j \in Up(fn, marked, l) : u \in Users(fn, j)
    BY <1>3 DEF Uses
  <2>2. j \in Up(fn, marked \cup {l}, l)
    BY UpMonotone
  <2>3. Up(fn, marked \cup {l}, l) \subseteq Up(fn, marked \cup {l}, k)
    <3>. DEFINE S == Up(fn, marked \cup {l}, k)
    <3>1. ClosedUp(fn, marked \cup {l}, S)
      BY UpStep DEF ClosedUp
    <3>2. S \in SUBSET Insts(fn)
      BY DEF Up
    <3>3. l \in S
      BY <1>5
    <3>. HIDE DEF S
    <3>4. Up(fn, marked \cup {l}, l) \subseteq S
      BY <3>1, <3>2, <3>3, UpLeast
    <3>. QED
      BY <3>4 DEF S
  <2>. QED
    BY <2>1, <2>2, <2>3 DEF Uses
<1>7. <<firstSpoiler[k], k>> \in fn.mods
  BY <1>2, <1>3 DEF SpoilersSpoil
<1>8. firstSpoiler[k] \in Insts(fn)
  BY <1>1, <1>7 DEF WellFormed, Writers
<1>9. k < firstSpoiler[k] /\ firstSpoiler[k] < u
  BY <1>2, <1>3 DEF PassInvariant, SpoilersAreFirst, UnspoiltUntil
<1>10. ~UnspoiltAt(fn, k, u)
  BY <1>7, <1>8, <1>9 DEF UnspoiltAt
<1>. QED
  BY <1>3, <1>5, <1>6, <1>10 DEF Clean

LEMMA SpoilersInit == Init => SpoilersSpoil
BY DEF Init, SpoilersSpoil

LEMMA SpoilersStep == TypeOK /\ SpoilersSpoil /\ [Next]_vars => SpoilersSpoil'
<1>. SUFFICES ASSUME TypeOK, SpoilersSpoil, [Next]_vars PROVE SpoilersSpoil'
  OBVIOUS
<1>1. idx \in Nat
  BY DEF TypeOK, WellFormed
<1>2. CASE EnterBlock
  BY <1>2 DEF EnterBlock, NoSpoilers, SpoilersSpoil
<1>3. CASE ScanInstruction
  <2>. DEFINE candidates == unspoilt \cup {l \in {idx} : IsCandidate(l)}
              spoilt == SpoiltBy(idx, candidates)
  <2>1. /\ phase = "scan" /\ phase' = "scan" /\ fn' = fn /\ idx' = idx + 1
        /\ instNumber' = instNumber \cup {idx}
        /\ DOMAIN firstSpoiler' = DOMAIN firstSpoiler \cup spoilt
        /\ \A l \in DOMAIN firstSpoiler : firstSpoiler'[l] = firstSpoiler[l]
        /\ \A l \in spoilt \ DOMAIN firstSpoiler : firstSpoiler'[l] = idx
    BY <1>3 DEF ScanInstruction, Insert
  <2>2. \A l \in spoilt : <<idx, l>> \in fn.mods
    BY DEF SpoiltBy
  <2>3. \A i \in instNumber : i < idx + 1
    BY <1>1 DEF SpoilersSpoil, TypeOK
  <2>. HIDE DEF spoilt
  <2>. QED
    BY <1>1, <2>1, <2>2, <2>3 DEF SpoilersSpoil
<1>4. CASE EndScan
  BY <1>4 DEF EndScan, Insert, SpoilersSpoil
<1>5. CASE MarkAddresses \/ DecideLoad \/ LeaveBlock \/ Finish \/ UNCHANGED vars
  BY <1>5 DEF MarkAddresses, DecideLoad, LeaveBlock, Finish, vars, SpoilersSpoil
<1>. QED
  BY <1>2, <1>3, <1>4, <1>5 DEF Next

LEMMA MissedInit == Init => MissedSoFar
BY DEF Init, MissedSoFar

LEMMA OrderInit == Init => DecidedInOrder
BY DEF Init, DecidedInOrder

LEMMA OrderStep == TypeOK /\ PassInvariant /\ DecidedInOrder /\ [Next]_vars => DecidedInOrder'
<1>. SUFFICES ASSUME TypeOK, PassInvariant, DecidedInOrder, [Next]_vars PROVE DecidedInOrder'
  OBVIOUS
<1>. USE LoadsFacts
<1>1. CASE MarkAddresses \/ EnterBlock \/ ScanInstruction
  BY <1>1 DEF MarkAddresses, EnterBlock, ScanInstruction, DecidedInOrder
<1>2. CASE EndScan
  <2>1. /\ phase = "scan" /\ phase' = "decide" /\ fn' = fn /\ marked' = marked
        /\ DOMAIN firstSpoiler' = DOMAIN firstSpoiler \cup unspoilt
    BY <1>2 DEF EndScan, Insert
  <2>2. \A l \in DOMAIN firstSpoiler \cup unspoilt : l \in Loads(fn) /\ fn.block[l] = blk
    BY <2>1 DEF TypeOK, PassInvariant, SpoilersAreFirst, UnspoiltUntil
  <2>3. \A l \in marked \cap Loads(fn) : fn.block[l] < blk
    BY <2>1 DEF PassInvariant, MarkedSoFar
  <2>4. ~(blk < blk)
    BY DEF TypeOK
  <2>5. marked' \cap DOMAIN firstSpoiler' = {}
    BY <2>1, <2>2, <2>3, <2>4
  <2>. QED
    BY <2>1, <2>5 DEF DecidedInOrder
<1>3. CASE DecideLoad
  <2>1. PICK l \in Lowest(toInline) :
          marked' = marked \cup {k \in {l} : MayInline(k)} /\ toInline' = toInline \ {l}
    BY <1>3 DEF DecideLoad
  <2>2. UNCHANGED <<fn, phase, firstSpoiler>> /\ phase = "decide"
    BY <1>3 DEF DecideLoad
  <2>3. \A t \in toInline \ {l} : l < t
    BY <2>1 DEF Lowest, TypeOK, Loads, Insts
  <2>. QED
    BY <2>1, <2>2, <2>3 DEF DecidedInOrder
<1>4. CASE LeaveBlock \/ Finish \/ UNCHANGED vars
  BY <1>4 DEF LeaveBlock, Finish, vars, DecidedInOrder
<1>. QED
  BY <1>1, <1>2, <1>3, <1>4 DEF Next

LEMMA MissedStep ==
  TypeOK /\ PassInvariant /\ SpoilersSpoil /\ DecidedInOrder /\ MissedSoFar /\ [Next]_vars
    => MissedSoFar'
<1>. SUFFICES ASSUME TypeOK, PassInvariant, SpoilersSpoil, DecidedInOrder, MissedSoFar, [Next]_vars
              PROVE  MissedSoFar'
  OBVIOUS
<1>. USE LoadsFacts
<1>1. idx \in Nat /\ fn.n \in Nat /\ idx <= fn.n + 1 /\ \A l \in Loads(fn) : l \in Nat /\ l >= 1
  BY DEF TypeOK, WellFormed, Loads
<1>2. ASSUME fn' = fn, marked' = marked PROVE Loads(fn)' = Loads(fn) /\ \A l : Missed(l)' = Missed(l)
  BY <1>2 DEF Missed, MarkedBefore
<1>3. CASE MarkAddresses
  <2>1. idx' = 1 /\ phase' = "block" /\ fn' = fn
    BY <1>3 DEF MarkAddresses, PassInvariant, MarkedSoFar
  <2>2. \A l \in Loads(fn) : ~(l < 1)
    BY <1>1
  <2>. QED
    BY <2>1, <2>2 DEF MissedSoFar
<1>4. CASE EnterBlock
  BY <1>2, <1>4 DEF EnterBlock, MissedSoFar
<1>5. CASE ScanInstruction
  <2>. DEFINE candidates == unspoilt \cup {l \in {idx} : IsCandidate(l)}
              spoilt == SpoiltBy(idx, candidates)
  <2>1. /\ phase = "scan" /\ phase' = "scan" /\ fn' = fn /\ marked' = marked /\ idx' = idx + 1
        /\ unspoilt' = candidates \ spoilt
        /\ DOMAIN firstSpoiler' = DOMAIN firstSpoiler \cup spoilt
    BY <1>5 DEF ScanInstruction, Insert
  <2>2. unspoilt' \cup DOMAIN firstSpoiler' = candidates \cup DOMAIN firstSpoiler
    BY <2>1 DEF SpoiltBy
  <2>3. ASSUME NEW l \in Loads(fn) \ marked, l < idx + 1
        PROVE  Missed(l) \/ l \in candidates \cup DOMAIN firstSpoiler
    <3>1. CASE l = idx
      <4>1. l \in candidates \/ UsedOutsideBlock(l)
        BY <3>1 DEF IsCandidate, Loads
      <4>2. MarkedBefore(l) = marked
        BY <2>1, <3>1, AllBefore
      <4>. QED
        BY <4>1, <4>2, EscapeIsMissed DEF Missed
    <3>2. CASE l # idx
      BY <1>1, <2>1, <2>3, <3>2 DEF MissedSoFar
    <3>. QED
      BY <3>1, <3>2
  <2>. HIDE DEF candidates, spoilt
  <2>. QED
    BY <1>2, <2>1, <2>2, <2>3 DEF MissedSoFar
<1>6. CASE EndScan
  <2>1. /\ phase = "scan" /\ phase' = "decide" /\ fn' = fn /\ marked' = marked /\ idx' = idx
        /\ toInline' = DOMAIN firstSpoiler \cup unspoilt
    BY <1>6 DEF EndScan, Insert
  <2>. QED
    BY <1>2, <2>1 DEF MissedSoFar
<1>7. CASE DecideLoad
  <2>1. PICK l \in toInline : /\ marked' = marked \cup {k \in {l} : MayInline(k)}
                             /\ toInline' = toInline \ {l}
    BY <1>7 DEF DecideLoad, Lowest
  <2>2. phase = "decide" /\ phase' = "decide" /\ fn' = fn /\ idx' = idx /\ l \in Loads(fn)
    BY <1>7, <2>1 DEF DecideLoad, TypeOK
  <2>3. \A k : Missed(k) => Missed(k)'
    BY <2>1, <2>2, MissedStays
  <2>4. l \in marked' \/ Missed(l)
    <3>1. MarkedBefore(l) = marked
      BY <2>1, <2>2, AllBefore
    <3>. QED
      BY <2>1, <2>2, <3>1, RejectIsMissed DEF Missed
  <2>. QED
    BY <2>1, <2>2, <2>3, <2>4 DEF MissedSoFar
<1>8. CASE LeaveBlock
  BY <1>2, <1>8 DEF LeaveBlock, MissedSoFar
<1>9. CASE Finish
  BY <1>1, <1>2, <1>9 DEF Finish, MissedSoFar
<1>10. CASE UNCHANGED vars
  BY <1>2, <1>10 DEF vars, MissedSoFar
<1>. QED
  BY <1>3, <1>4, <1>5, <1>6, <1>7, <1>8, <1>9, <1>10 DEF Next

LEMMA MissedHolds ==
  Spec => [](TypeOK /\ PassInvariant /\ SpoilersSpoil /\ DecidedInOrder /\ MissedSoFar)
BY SpoilersInit, SpoilersStep, OrderInit, OrderStep, MissedInit, MissedStep, PassInvariantHolds,
   PTL DEF Spec

LEMMA AllMissed ==
  ASSUME TypeOK, MissedSoFar, phase = "done", NEW l \in Loads(fn) \ marked
  PROVE  Missed(l)
<1>1. idx = fn.n + 1 /\ fn.n \in Nat /\ l \in 1 .. fn.n
  BY DEF MissedSoFar, TypeOK, WellFormed, Loads
<1>. QED
  BY <1>1 DEF MissedSoFar

(* The test of the pass is not only safe but exact: of the loads it leaves *)
(* alone none could have been inlined next to those it did inline.         *)
THEOREM NothingMissed == Spec => []NoMissedLoad
<1>1. TypeOK /\ MissedSoFar => NoMissedLoad
  <2>. SUFFICES ASSUME TypeOK, MissedSoFar, phase = "done", NEW l \in Loads(fn) \ marked
                PROVE  ~Clean(fn, marked \cup {l})
    BY DEF NoMissedLoad
  <2>1. ~Clean(fn, MarkedBefore(l) \cup {l}) /\ MarkedBefore(l) \subseteq marked
    BY AllMissed DEF Missed, MarkedBefore
  <2>. QED
    BY <2>1, StillMissed
<1>. QED
  BY <1>1, MissedHolds, PTL

(* A set of numbers has a least one: the instruction where two sets of     *)
(* marks first differ.                                                     *)
LEMMA Least ==
  ASSUME NEW S \in SUBSET Nat, S # {}
  PROVE  \E k \in S : \A j \in S : k <= j
<1>1. \E R : IsWellFoundedOn(R, Nat) /\ \A x, y \in Nat : x < y => <<x, y>> \in R
  <2>1. IsWellFoundedOn(OpToRel(<, Nat), Nat)
    BY NatLessThanWellFounded
  <2>2. \A x, y \in Nat : x < y => <<x, y>> \in OpToRel(<, Nat)
    BY DEF OpToRel
  <2>. HIDE DEF OpToRel
  <2>. QED
    BY <2>1, <2>2, Zenon
<1>2. ASSUME NEW R, IsWellFoundedOn(R, Nat), \A x, y \in Nat : x < y => <<x, y>> \in R
      PROVE  \E k \in S : \A j \in S : k <= j
  <2>1. S \subseteq Nat
    OBVIOUS
  <2>2. \E x \in S : \A y \in S : ~ (<<y, x>> \in R)
    <3>1. \A RR, SS, TT : IsWellFoundedOn(RR, SS) /\ TT \subseteq SS /\ TT # {}
              => \E x \in TT : \A y \in TT : ~ (<<y, x>> \in RR)
      BY WFMin, Zenon
    <3>2. IsWellFoundedOn(R, Nat) /\ S \subseteq Nat /\ S # {}
      BY <1>2, <2>1
    <3>. HIDE DEF IsWellFoundedOn
    <3>. QED
      BY <3>1, <3>2, Zenon
  <2>3. \A x, y \in S : ~ (<<y, x>> \in R) => x <= y
    BY <1>2, <2>1
  <2>. QED
    BY <2>2, <2>3
<1>. QED
  BY <1>1, <1>2

LEMMA OneSet ==
  ASSUME WellFormed(fn), NEW m, NEW mm, FirstComeFirstInlined(m), FirstComeFirstInlined(mm)
  PROVE  m = mm
<1>. DEFINE Apart == {k \in Insts(fn) : ~(k \in m <=> k \in mm)}
            Before(s, l) == {k \in s : k \in Forced(fn) \/ k < l}
<1>1. m \subseteq Insts(fn) /\ mm \subseteq Insts(fn) /\ Insts(fn) \subseteq Nat
  BY LoadsFacts DEF FirstComeFirstInlined, WellFormed, Insts
<1>. SUFFICES ASSUME Apart # {} PROVE FALSE
  BY <1>1
<1>2. PICK l \in Apart : \A k \in Apart : l <= k
  <2>1. Apart \in SUBSET Nat
    BY <1>1
  <2>. HIDE DEF Apart
  <2>. QED
    BY <2>1, Least
<1>3. l \in Loads(fn) /\ l \in Nat
  BY <1>1 DEF FirstComeFirstInlined
<1>4. Before(m, l) = Before(mm, l)
  <2>1. \A k \in Insts(fn) : k < l => k \notin Apart
    BY <1>1, <1>2, <1>3
  <2>2. Forced(fn) \subseteq m /\ Forced(fn) \subseteq mm
    BY DEF FirstComeFirstInlined
  <2>. QED
    BY <1>1, <2>1, <2>2
<1>5. /\ l \in m <=> Clean(fn, Before(m, l) \cup {l})
      /\ l \in mm <=> Clean(fn, Before(mm, l) \cup {l})
  BY <1>3 DEF FirstComeFirstInlined
<1>. HIDE DEF Before
<1>. QED
  BY <1>2, <1>4, <1>5

(* The pass ends in one set of marks whatever order its hash tables have:  *)
(* each load has been decided about by the loads before it alone.          *)
THEOREM IsReproducible == Spec => []Reproducible
<1>1. TypeOK /\ PassInvariant /\ DecidedInOrder /\ MissedSoFar => Reproducible
  <2>. SUFFICES ASSUME TypeOK, PassInvariant, DecidedInOrder, MissedSoFar, phase = "done"
                PROVE  {m \in SUBSET Insts(fn) : FirstComeFirstInlined(m)} = {marked}
    BY DEF Reproducible
  <2>1. WellFormed(fn) /\ marked \subseteq Loads(fn) \cup Forced(fn)
    BY DEF TypeOK
  <2>2. Forced(fn) \subseteq marked
    BY DEF DecidedInOrder
  <2>3. ASSUME NEW l \in Loads(fn)
        PROVE  l \in marked <=> Clean(fn, MarkedBefore(l) \cup {l})
    <3>1. CASE l \notin marked
      BY <3>1, AllMissed DEF Missed
    <3>2. CASE l \in marked
      <4>1. MarkedBefore(l) \subseteq marked /\ marked \cup {l} = marked
        BY <3>2 DEF MarkedBefore
      <4>2. Clean(fn, marked)
        BY DEF PassInvariant, InlinedReadsUnspoilt
      <4>3. ~Clean(fn, MarkedBefore(l) \cup {l}) => ~Clean(fn, marked \cup {l})
        BY <4>1, StillMissed
      <4>. QED
        BY <3>2, <4>1, <4>2, <4>3
    <3>. QED
      BY <3>1, <3>2
  <2>4. FirstComeFirstInlined(marked)
    BY <2>1, <2>2, <2>3 DEF FirstComeFirstInlined, MarkedBefore
  <2>5. marked \in SUBSET Insts(fn)
    BY <2>1, LoadsFacts
  <2>. QED
    BY <2>1, <2>4, <2>5, OneSet
<1>. QED
  BY <1>1, MissedHolds, PTL

----------------------------------------------------------------------------
(* InlineSpec speaks of the same trees.                                    *)
LEMMA SameTrees ==
  ASSUME NEW f, NEW m
  PROVE  /\ Promise!Loads(f) = Loads(f)
         /\ Promise!Forced(f) = Forced(f)
         /\ Promise!Clean(f, m) <=> Clean(f, m)
BY DEF Promise!Loads, Loads, Promise!Forced, Forced, Promise!Clean, Clean,
       Promise!Insts, Insts, Promise!Uses, Uses, Promise!Up, Up, Promise!Users, Users,
       Promise!ClosedUp, ClosedUp, Promise!UnspoiltAt, UnspoiltAt

(* Every step of the pass is a step InlineSpec allows, or changes no mark. *)
THEOREM Implements == Spec => ImplementsInlineSpec
<1>1. Init => Promise!AInit
  BY DEF Init, Promise!AInit
<1>2. TypeOK /\ PassInvariant /\ PassInvariant' /\ [Next]_vars
        => [Promise!ANext]_<<fn, marked>>
  <2>. SUFFICES ASSUME TypeOK, PassInvariant, PassInvariant', [Next]_vars
                PROVE  Promise!ANext \/ UNCHANGED <<fn, marked>>
    OBVIOUS
  <2>1. CASE MarkAddresses
    BY <2>1, SameTrees
    DEF MarkAddresses, PassInvariant, MarkedSoFar, Promise!ANext, Promise!InlineAddresses
  <2>2. CASE DecideLoad
    <3>1. PICK l \in toInline : marked' = marked \cup {k \in {l} : MayInline(k)}
      BY <2>2 DEF DecideLoad, Lowest
    <3>2. fn' = fn /\ l \in Loads(fn)
      BY <2>2, <3>1 DEF DecideLoad, TypeOK
    <3>3. CASE marked' = marked
      BY <3>2, <3>3
    <3>4. CASE marked' # marked
      <4>1. marked' = marked \cup {l} /\ l \in Loads(fn) \ marked
        BY <3>1, <3>2, <3>4
      <4>2. Clean(fn, marked')
        BY <3>2 DEF PassInvariant, InlinedReadsUnspoilt
      <4>. QED
        BY <3>2, <4>1, <4>2, SameTrees DEF Promise!ANext, Promise!InlineOneLoad
    <3>. QED
      BY <3>3, <3>4
  <2>3. CASE EnterBlock \/ ScanInstruction \/ EndScan \/ LeaveBlock \/ Finish
    BY <2>3 DEF EnterBlock, ScanInstruction, EndScan, LeaveBlock, Finish
  <2>4. CASE UNCHANGED vars
    BY <2>4 DEF vars
  <2>. QED
    BY <2>1, <2>2, <2>3, <2>4 DEF Next
<1>. QED
  BY <1>1, <1>2, PassInvariantHolds, PTL
  DEF Spec, ImplementsInlineSpec, Promise!ASpec

----------------------------------------------------------------------------
Names == Elements(ctx.globals)
Operands(k) == ctx.instructions[k].operands
Used(k) == ctx.instructions[k].op \in UserInstructions
HasString(v) == \E s \in Names : RefersToString(v, s)

(* The table of inlines, as far as it is about the globals of D.           *)
InlinesAre(D) ==
  /\ DOMAIN inlines = {g \in D : \E s \in Names : IsStringOf(g, s)}
  /\ \A g \in DOMAIN inlines : IsStringOf(g, inlines[g])

Seen == {ctx.globals[k] : k \in 1 .. position - 1}
Resolved == {inlineableGlobals[k] : k \in 1 .. position - 1}
Leading(g) == ctx.init[g].kind \in {"tag", "selector", "cast"}

Collected ==
  CASE stage = "collect" ->
         /\ position \in 1 .. Len(ctx.globals) + 1
         /\ InlinesAre(Strings \cap Seen)
         /\ Elements(inlineableGlobals) = {g \in Seen : Leading(g)}
    [] stage = "resolve" ->
         /\ position \in 1 .. Len(inlineableGlobals) + 1
         /\ InlinesAre(Strings \cup Resolved)
         /\ Elements(inlineableGlobals) = {g \in Names : Leading(g)}
    [] stage = "aborted" -> TRUE
    [] OTHER -> InlinesAre(Names)

(* A string marks an operand exactly if the operand refers to its start.   *)
MarksAreReferences ==
  stage \in {"attach", "emit"} =>
    \A t : t \in inlineInstructions <=>
      \E k \in DOMAIN ctx.instructions, s \in Names :
        \E v \in Elements(Operands(k)) : t = <<k, v, s>> /\ Used(k) /\ RefersToString(v, s)

MetadataIsMarks ==
  stage = "emit" =>
    /\ DOMAIN metadata = {k \in DOMAIN ctx.instructions :
                            Used(k) /\ \E v \in Elements(Operands(k)) : HasString(v)}
    /\ \A k \in DOMAIN metadata : \A j \in DOMAIN Operands(k) :
         /\ metadata[k][j] = None <=> ~HasString(Operands(k)[j])
         /\ \A s \in Names : metadata[k][j] = s <=> RefersToString(Operands(k)[j], s)

ShownRight(k) ==
  /\ Null \notin Elements(shown[k])
  /\ Used(k) =>
       \A j \in DOMAIN shown[k], s \in Names :
         \/ ctx.instructions[k].op = "store" /\ j = 2
         \/ shown[k][j] = <<"string", s>> <=> RefersToString(Operands(k)[j], s)
  /\ k \in asserted <=>
       ctx.instructions[k].op = "store" /\ HasString(Operands(k)[2]) /\ ~HasString(Operands(k)[1])

Emitted ==
  IF stage = "emit"
  THEN /\ position \in Nat \ {0}
       /\ DOMAIN shown = 1 .. position - 1
       /\ asserted \subseteq DOMAIN shown
       /\ \A k \in DOMAIN shown : ShownRight(k)
  ELSE shown = Empty /\ asserted = {}

StringInvariant ==
  /\ HasStrings(ctx)
  /\ stage \in {"collect", "aborted", "resolve", "attach", "emit"}
  /\ stage = "attach" => position = 1
  /\ inlineableGlobals \in Seq(Names)
  /\ Collected /\ MarksAreReferences /\ MetadataIsMarks /\ Emitted

----------------------------------------------------------------------------

LEMMA SameTriples ==
  ASSUME NEW a, NEW b, NEW c, NEW d, NEW e, NEW f
  PROVE  <<a, b, c>> = <<d, e, f>> <=> a = d /\ b = e /\ c = f
OBVIOUS

LEMMA Starts ==
  ASSUME NEW s, NEW zero \in BOOLEAN, NEW t
  PROVE  <<"gep", s, zero>> = <<"gep", t, TRUE>> <=> zero /\ s = t
<1>1. CASE zero = TRUE
  BY <1>1
<1>2. CASE zero = FALSE
  BY <1>2
<1> QED
  BY <1>1, <1>2

(* The lists of a module are sequences, and a global is initialized with   *)
(* one of the initializers StringRef looks into.                           *)
LEMMA Modules ==
  ASSUME HasStrings(ctx)
  PROVE  /\ Len(ctx.globals) \in Nat /\ DOMAIN ctx.globals = 1 .. Len(ctx.globals)
         /\ ctx.globals \in Seq(Names) /\ None \notin Names
         /\ Len(ctx.instructions) \in Nat
         /\ DOMAIN ctx.instructions = 1 .. Len(ctx.instructions)
         /\ \A k \in DOMAIN ctx.instructions :
              /\ ctx.instructions[k].op \in UserInstructions \cup {"other"}
              /\ Len(Operands(k)) \in Nat /\ DOMAIN Operands(k) = 1 .. Len(Operands(k))
              /\ ctx.instructions[k].op = "load" => Len(Operands(k)) = 1
              /\ ctx.instructions[k].op = "store" => Len(Operands(k)) = 2
              /\ \A j \in DOMAIN Operands(k) :
                   Operands(k)[j] \in ValuesOf(Names)
<1> DEFINE values == ValuesOf(Names)
           instructions == [op : UserInstructions \cup {"other"}, operands : Seq(values)]
<1>1. ctx.globals \in Seq(Names) /\ None \notin Names /\ ctx.instructions \in Seq(instructions)
  BY DEF HasStrings, Names
<1>2. \A k \in DOMAIN ctx.instructions : ctx.instructions[k] \in instructions
  <2> HIDE DEF instructions
  <2> QED
    BY <1>1, ElementOfSeq
<1>3. \A k \in DOMAIN ctx.instructions :
        ctx.instructions[k].op \in UserInstructions \cup {"other"} /\ Operands(k) \in Seq(values)
  BY <1>2 DEF Operands
<1>4. \A k \in DOMAIN ctx.instructions :
        /\ ctx.instructions[k].op = "load" => Len(Operands(k)) = 1
        /\ ctx.instructions[k].op = "store" => Len(Operands(k)) = 2
  BY DEF HasStrings, Operands
<1> HIDE DEF values, instructions
<1>5. \A k \in DOMAIN ctx.instructions :
        /\ Len(Operands(k)) \in Nat /\ DOMAIN Operands(k) = 1 .. Len(Operands(k))
        /\ \A j \in DOMAIN Operands(k) : Operands(k)[j] \in values
  BY <1>3
<1>6. /\ Len(ctx.globals) \in Nat /\ DOMAIN ctx.globals = 1 .. Len(ctx.globals)
      /\ Len(ctx.instructions) \in Nat
      /\ DOMAIN ctx.instructions = 1 .. Len(ctx.instructions)
  BY <1>1
<1> QED
  BY <1>1, <1>3, <1>4, <1>5, <1>6 DEF values

LEMMA Initializers ==
  ASSUME HasStrings(ctx), NEW g \in Names
  PROVE  \/ ctx.init[g].kind \in {"cstring", "data", "number", "none"}
         \/ ctx.init[g].kind = "tag" /\ ctx.init[g].of = Local
         \/ /\ ctx.init[g].kind \in {"tag", "selector"}
            /\ \E s \in Names, zero \in BOOLEAN :
                 ctx.init[g].of = <<"gep", s, zero>> /\ ctx.init[s].kind \in {"cstring", "data"}
         \/ /\ ctx.init[g].kind = "cast"
            /\ \E t \in Names : ctx.init[g].of = <<"cast", t, FALSE>>
<1> DEFINE arrays == {s \in Names : ctx.init[s].kind \in {"cstring", "data"}}
<1>1. \/ ctx.init[g].kind \in {"cstring", "data", "number", "none"}
      \/ ctx.init[g].kind = "tag" /\ ctx.init[g].of \in {Local} \cup Into(arrays)
      \/ ctx.init[g].kind = "selector" /\ ctx.init[g].of \in Into(arrays)
      \/ ctx.init[g].kind = "cast" /\ ctx.init[g].of \in Casts(Names)
  BY DEF HasStrings, Names
<1>2. ASSUME ctx.init[g].of \in Into(arrays)
      PROVE  \E s \in Names, zero \in BOOLEAN :
               ctx.init[g].of = <<"gep", s, zero>> /\ ctx.init[s].kind \in {"cstring", "data"}
  BY <1>2 DEF Into
<1>3. ASSUME ctx.init[g].of \in Casts(Names)
      PROVE  \E t \in Names : ctx.init[g].of = <<"cast", t, FALSE>>
  BY <1>3 DEF Casts
<1> HIDE DEF arrays
<1> QED
  BY <1>1, <1>2, <1>3

(* A global is at most one string.                                         *)
LEMMA OneString ==
  ASSUME HasStrings(ctx), NEW g \in Names, NEW s \in Names, NEW t \in Names,
         IsStringOf(g, s), IsStringOf(g, t)
  PROVE  s = t
<1>1. CASE ctx.init[g].kind \in {"cstring", "data", "number", "none"}
  BY <1>1 DEF IsStringOf
<1>2. CASE ctx.init[g].kind \in {"tag", "selector"}
  <2>1. <<"gep", s, TRUE>> = <<"gep", t, TRUE>>
    BY <1>2 DEF IsStringOf, Strings
  <2> QED
    BY <2>1
<1>3. CASE ctx.init[g].kind = "cast"
  <2>1. <<"gep", s, TRUE>> = <<"gep", t, TRUE>>
    BY <1>3 DEF IsStringOf, Strings
  <2> QED
    BY <2>1
<1> QED
  BY <1>1, <1>2, <1>3, Initializers

(* What StringRef finds for a global that leads to a string: the string,   *)
(* or an array that is none.                                               *)
LEMMA ReferenceIsString ==
  ASSUME HasStrings(ctx), NEW g \in Names, Leading(g)
  PROVE  /\ \A s \in Names : IsStringOf(g, s) <=> StringRef(g) = s /\ s \in Strings
         /\ StringRef(g) = None
              \/ (StringRef(g) \in Names /\ ctx.init[StringRef(g)].kind \in {"cstring", "data"})
<1>1. None \notin Names
  BY Modules
<1>2. Strings = {s \in Names : ctx.init[s].kind = "cstring"}
  BY DEF Strings, Names
<1>3. CASE ctx.init[g].kind = "tag" /\ ctx.init[g].of = Local
  <2>1. StringRef(g) = None
    BY <1>3 DEF StringRef, StringRefFromTag, GEPPointer, Local
  <2>2. \A s \in Names : ~IsStringOf(g, s)
    BY <1>2, <1>3 DEF IsStringOf, Local
  <2> QED
    BY <1>1, <2>1, <2>2
<1>4. CASE ctx.init[g].kind = "tag" /\ ctx.init[g].of # Local
  <2>1. PICK s \in Names, zero \in BOOLEAN :
               ctx.init[g].of = <<"gep", s, zero>> /\ ctx.init[s].kind \in {"cstring", "data"}
    BY <1>4, Initializers
  <2>2. StringRef(g) = IF zero THEN s ELSE None
    BY <1>4, <2>1 DEF StringRef, StringRefFromTag, GEPPointer
  <2>3. \A t \in Names : IsStringOf(g, t) <=> t \in Strings /\ zero /\ t = s
    <3>1. \A t : ctx.init[g].of = <<"gep", t, TRUE>> <=> zero /\ s = t
      BY <2>1, Starts
    <3> QED
      BY <1>2, <1>4, <3>1 DEF IsStringOf
  <2> QED
    BY <1>1, <2>1, <2>2, <2>3
<1>5. CASE ctx.init[g].kind = "selector"
  <2>1. PICK s \in Names, zero \in BOOLEAN :
               ctx.init[g].of = <<"gep", s, zero>> /\ ctx.init[s].kind \in {"cstring", "data"}
    BY <1>5, Initializers
  <2>2. StringRef(g) = IF zero THEN s ELSE None
    BY <1>5, <2>1 DEF StringRef, StringRefFromTag, GEPPointer
  <2>3. \A t \in Names : IsStringOf(g, t) <=> t \in Strings /\ zero /\ t = s
    <3>1. \A t : ctx.init[g].of = <<"gep", t, TRUE>> <=> zero /\ s = t
      BY <2>1, Starts
    <3> QED
      BY <1>2, <1>5, <3>1 DEF IsStringOf
  <2> QED
    BY <1>1, <2>1, <2>2, <2>3
<1>6. CASE ctx.init[g].kind = "cast"
  <2>1. PICK t \in Names : ctx.init[g].of = <<"cast", t, FALSE>>
    BY <1>6, Initializers
  <2>2. StringRef(g) = StringRefFromTag(t)
    BY <1>6, <2>1 DEF StringRef, GEPPointer, StringRefFromTag
  <2>3. \A s \in Names : IsStringOf(g, s) <=>
          s \in Strings /\ ctx.init[t].kind = "tag" /\ ctx.init[t].of = <<"gep", s, TRUE>>
    <3>1. ctx.init[g].of[2] = t
      BY <2>1
    <3> QED
      BY <1>2, <1>6, <3>1 DEF IsStringOf
  <2>4. CASE ctx.init[t].kind = "tag" /\ ctx.init[t].of # Local
    <3>1. PICK s \in Names, zero \in BOOLEAN :
                 ctx.init[t].of = <<"gep", s, zero>> /\ ctx.init[s].kind \in {"cstring", "data"}
      BY <2>4, Initializers
    <3>2. StringRef(g) = IF zero THEN s ELSE None
      BY <2>2, <2>4, <3>1 DEF StringRefFromTag, GEPPointer
    <3>3. \A r \in Names : IsStringOf(g, r) <=> r \in Strings /\ zero /\ r = s
      <4>1. \A r : ctx.init[t].of = <<"gep", r, TRUE>> <=> zero /\ s = r
        BY <3>1, Starts
      <4> QED
        BY <2>3, <2>4, <4>1
    <3> QED
      BY <1>1, <3>1, <3>2, <3>3
  <2>5. CASE ~(ctx.init[t].kind = "tag" /\ ctx.init[t].of # Local)
    <3>1. StringRef(g) = None
      <4>1. Local[1] = "local"
        BY DEF Local
      <4> QED
        BY <2>2, <2>5, <4>1 DEF StringRefFromTag, GEPPointer
    <3>2. \A s \in Names : ~IsStringOf(g, s)
      <4>1. \A s : Local # <<"gep", s, TRUE>>
        BY SameTriples DEF Local
      <4> QED
        BY <2>3, <2>5, <4>1
    <3> QED
      BY <1>1, <3>1, <3>2
  <2> QED
    BY <2>4, <2>5
<1> QED
  BY <1>3, <1>4, <1>5, <1>6 DEF Leading

(* A value refers to one global, and so to at most one string.             *)
LEMMA References ==
  ASSUME HasStrings(ctx), NEW k \in DOMAIN ctx.instructions, NEW j \in DOMAIN Operands(k)
  PROVE  LET v == Operands(k)[j]
         IN /\ \A g \in Names : RefersTo(v, g) <=>
                 v \in {<<"global", g, FALSE>>, <<"cast", g, FALSE>>, <<"gep", g, TRUE>>}
            /\ \A s \in Names : RefersToString(v, s) <=>
                 \E g \in Names : RefersTo(v, g) /\ IsStringOf(g, s)
            /\ \A s, t \in Names : RefersToString(v, s) /\ RefersToString(v, t) => s = t
<1> DEFINE v == Operands(k)[j]
<1>1. \/ v = Local
      \/ \E kind \in {"global", "cast"}, g \in Names : v = <<kind, g, FALSE>>
      \/ \E g \in Names, zero \in BOOLEAN : v = <<"gep", g, zero>>
  <2>1. v \in ValuesOf(Names)
    BY Modules
  <2> HIDE DEF v
  <2>2. \/ v = Local
        \/ \E g \in Names : v = <<"global", g, FALSE>>
        \/ v \in Casts(Names)
        \/ v \in Into(Names)
    BY <2>1 DEF ValuesOf
  <2>3. v \in Casts(Names) => \E g \in Names : v = <<"cast", g, FALSE>>
    BY DEF Casts
  <2>4. v \in Into(Names) => \E g \in Names, zero \in BOOLEAN : v = <<"gep", g, zero>>
    BY DEF Into
  <2> QED
    BY <2>2, <2>3, <2>4
<1>2. None \notin Names
  BY Modules
<1> HIDE DEF v
<1>3. \A g \in Names : RefersTo(v, g) <=>
        v \in {<<"global", g, FALSE>>, <<"cast", g, FALSE>>, <<"gep", g, TRUE>>}
  <2>1. CASE v = Local
    <3>1. v[1] = "local" /\ v[2] = None
      BY <2>1 DEF Local
    <3>2. \A g : v \notin {<<"global", g, FALSE>>, <<"cast", g, FALSE>>, <<"gep", g, TRUE>>}
      BY <2>1, SameTriples DEF Local
    <3> QED
      BY <3>1, <3>2 DEF RefersTo
  <2>2. ASSUME NEW kind \in {"global", "cast"}, NEW h \in Names, v = <<kind, h, FALSE>>
        PROVE  \A g \in Names : RefersTo(v, g) <=>
                 v \in {<<"global", g, FALSE>>, <<"cast", g, FALSE>>, <<"gep", g, TRUE>>}
    <3>1. v[1] = kind /\ v[2] = h /\ v[3] = FALSE
      BY <2>2
    <3>2. \A g : v \in {<<"global", g, FALSE>>, <<"cast", g, FALSE>>, <<"gep", g, TRUE>>}
                   <=> h = g
      BY <2>2, SameTriples
    <3> QED
      BY <3>1, <3>2 DEF RefersTo
  <2>3. ASSUME NEW h \in Names, NEW zero \in BOOLEAN, v = <<"gep", h, zero>>
        PROVE  \A g \in Names : RefersTo(v, g) <=>
                 v \in {<<"global", g, FALSE>>, <<"cast", g, FALSE>>, <<"gep", g, TRUE>>}
    <3>1. v[1] = "gep" /\ v[2] = h /\ v[3] = zero
      BY <2>3
    <3>2. \A g : v \in {<<"global", g, FALSE>>, <<"cast", g, FALSE>>, <<"gep", g, TRUE>>}
                   <=> h = g /\ zero
      BY <2>3, SameTriples
    <3> QED
      BY <3>1, <3>2 DEF RefersTo
  <2> QED
    BY <1>1, <2>1, <2>2, <2>3
<1>4. \A s \in Names : RefersToString(v, s) <=>
        \E g \in Names : RefersTo(v, g) /\ IsStringOf(g, s)
  BY <1>3 DEF RefersToString, Names
<1>5. \A g, h \in Names : RefersTo(v, g) /\ RefersTo(v, h) => g = h
  BY DEF RefersTo
<1>6. \A s, t \in Names : RefersToString(v, s) /\ RefersToString(v, t) => s = t
  BY <1>4, <1>5, OneString
<1> QED
  BY <1>3, <1>4, <1>6 DEF v

(* What emitRefOrConstant makes of a value: never nothing, and a string    *)
(* only if it refers to that string.                                       *)
LEMMA RefOrConstantIsNode ==
  ASSUME StringInvariant, stage = "emit",
         NEW k \in DOMAIN ctx.instructions, NEW j \in DOMAIN Operands(k)
  PROVE  /\ RefOrConstant(Operands(k)[j]) # Null
         /\ \A s \in Names : RefOrConstant(Operands(k)[j]) = <<"string", s>> =>
              RefersToString(Operands(k)[j], s)
<1> DEFINE v == Operands(k)[j]
<1>1. HasStrings(ctx) /\ InlinesAre(Names)
  BY DEF StringInvariant, Collected
<1>2. CASE v[1] = "global" /\ v[2] \in DOMAIN inlines
  <2>1. v[2] \in Names /\ IsStringOf(v[2], inlines[v[2]]) /\ RefersTo(v, v[2])
    BY <1>1, <1>2 DEF InlinesAre, RefersTo
  <2>2. RefOrConstant(v) = <<"string", inlines[v[2]]>>
    BY <1>2 DEF RefOrConstant
  <2>3. \A s \in Names : RefOrConstant(v) = <<"string", s>> => RefersToString(v, s)
    <3>1. \A s \in Names : RefersToString(v, s) <=> \E g \in Names : RefersTo(v, g) /\ IsStringOf(g, s)
      BY <1>1, References
    <3>2. \A s : <<"string", inlines[v[2]]>> = <<"string", s>> => inlines[v[2]] = s
      OBVIOUS
    <3> HIDE DEF v
    <3> QED
      BY <2>1, <2>2, <3>1, <3>2
  <2> HIDE DEF v
  <2> QED
    BY <2>2, <2>3 DEF Null, v
<1>3. CASE ~(v[1] = "global" /\ v[2] \in DOMAIN inlines)
  <2>1. RefOrConstant(v) = <<"value", v>>
    BY <1>3 DEF RefOrConstant
  <2> HIDE DEF v
  <2> QED
    BY <2>1 DEF Null, v
<1> QED
  BY <1>2, <1>3

----------------------------------------------------------------------------
(* Steps.                                                                  *)

LEMMA StringsInit ==
  ASSUME StringInit
  PROVE  StringInvariant
<1>1. HasStrings(ctx)
  BY ModulesAssumption DEF StringInit
<1>2. Len(ctx.globals) \in Nat
  BY <1>1, Modules
<1>3. Seen = {} /\ Elements(inlineableGlobals) = {} /\ DOMAIN inlines = {}
  BY DEF StringInit, Seen, Elements, Empty
<1>4. Collected
  BY <1>2, <1>3 DEF Collected, StringInit, InlinesAre
<1>5. inlineableGlobals \in Seq(Names)
  BY DEF StringInit
<1> QED
  BY <1>1, <1>4, <1>5
     DEF StringInvariant, StringInit, MarksAreReferences, MetadataIsMarks, Emitted

LEMMA SameModule ==
  ASSUME StringInvariant, ctx' = ctx
  PROVE  /\ HasStrings(ctx)' /\ Names' = Names /\ Strings' = Strings
         /\ \A g, s : IsStringOf(g, s)' <=> IsStringOf(g, s)
         /\ \A v, s : RefersToString(v, s)' <=> RefersToString(v, s)
         /\ \A k : Operands(k)' = Operands(k) /\ (Used(k)' <=> Used(k))
         /\ \A v : HasString(v)' <=> HasString(v)
         /\ \A g : Leading(g)' <=> Leading(g)
<1>1. HasStrings(ctx)'
  BY DEF StringInvariant
<1>2. Names' = Names /\ Strings' = Strings
  BY DEF Names, Strings
<1>3. \A g, s : IsStringOf(g, s)' <=> IsStringOf(g, s)
  BY <1>2 DEF IsStringOf
<1>4. \A v, s : RefersToString(v, s)' <=> RefersToString(v, s)
  BY <1>3 DEF RefersToString
<1>5. /\ \A k : Operands(k)' = Operands(k) /\ (Used(k)' <=> Used(k))
      /\ \A v : HasString(v)' <=> HasString(v)
      /\ \A g : Leading(g)' <=> Leading(g)
  BY <1>2, <1>4 DEF Operands, Used, HasString, Leading
<1> QED
  BY <1>1, <1>2, <1>3, <1>4, <1>5

LEMMA StringsStutter ==
  ASSUME StringInvariant, UNCHANGED stringVars
  PROVE  StringInvariant'
<1>1. /\ ctx' = ctx /\ stage' = stage /\ position' = position /\ inlines' = inlines
      /\ inlineableGlobals' = inlineableGlobals /\ inlineInstructions' = inlineInstructions
      /\ metadata' = metadata /\ shown' = shown /\ asserted' = asserted
  BY DEF stringVars
<1>2. Seen' = Seen /\ Resolved' = Resolved
  BY <1>1 DEF Seen, Resolved
<1>3. Collected'
  BY <1>1, <1>2, SameModule DEF StringInvariant, Collected, InlinesAre
<1>4. MarksAreReferences'
  BY <1>1, SameModule DEF StringInvariant, MarksAreReferences
<1>5. MetadataIsMarks'
  BY <1>1, SameModule DEF StringInvariant, MetadataIsMarks
<1>6. \A k : ShownRight(k)' <=> ShownRight(k)
  BY <1>1, SameModule DEF ShownRight
<1>7. Emitted'
  BY <1>1, <1>6 DEF StringInvariant, Emitted
<1> QED
  BY <1>1, SameModule, <1>3, <1>4, <1>5, <1>7 DEF StringInvariant

LEMMA CollectStep ==
  ASSUME StringInvariant, Collect
  PROVE  StringInvariant'
<1> DEFINE g == ctx.globals[position]
<1>1. /\ stage = "collect" /\ stage' = "collect" /\ position <= Len(ctx.globals)
      /\ position' = position + 1 /\ ctx' = ctx
      /\ inlines' = (IF IsCString(g) THEN Set(inlines, g, g) ELSE inlines)
      /\ inlineableGlobals' = (IF Leading(g) THEN Append(inlineableGlobals, g)
                                ELSE inlineableGlobals)
      /\ UNCHANGED <<inlineInstructions, metadata, shown, asserted>>
  BY DEF Collect, Leading
<1>2. /\ position \in 1 .. Len(ctx.globals) + 1 /\ InlinesAre(Strings \cap Seen)
      /\ Elements(inlineableGlobals) = {h \in Seen : Leading(h)}
      /\ HasStrings(ctx) /\ inlineableGlobals \in Seq(Names)
  BY <1>1 DEF StringInvariant, Collected
<1>3. g \in Names /\ position' \in 1 .. Len(ctx.globals) + 1 /\ position \in 1 .. position' - 1
      /\ 1 .. position' - 1 = (1 .. position - 1) \cup {position}
  <2>1. Len(ctx.globals) \in Nat /\ DOMAIN ctx.globals = 1 .. Len(ctx.globals)
    BY <1>2, Modules
  <2>2. position \in 1 .. Len(ctx.globals) /\ position' = position + 1
    BY <1>1, <1>2, <2>1
  <2>3. g \in Names
    BY <2>1, <2>2 DEF Names, Elements
  <2> QED
    BY <2>1, <2>2, <2>3
<1>4. Seen' = Seen \cup {g}
  BY <1>1, <1>3 DEF Seen
<1>5. inlineableGlobals' \in Seq(Names)
  BY <1>1, <1>2, <1>3
<1>6. Elements(inlineableGlobals)' = {h \in Seen' : Leading(h)}
  <2>1. CASE Leading(g)
    <3>1. Elements(inlineableGlobals') = Elements(inlineableGlobals) \cup {g}
      <4>1. inlineableGlobals' = Append(inlineableGlobals, g)
        BY <1>1, <2>1
      <4>2. /\ Len(inlineableGlobals) \in Nat
            /\ DOMAIN inlineableGlobals = 1 .. Len(inlineableGlobals)
            /\ DOMAIN inlineableGlobals' = 1 .. Len(inlineableGlobals) + 1
            /\ \A k \in DOMAIN inlineableGlobals : inlineableGlobals'[k] = inlineableGlobals[k]
            /\ inlineableGlobals'[Len(inlineableGlobals) + 1] = g
        BY <1>2, <1>3, <4>1, AppendProperties
      <4> QED
        BY <4>2 DEF Elements
    <3> QED
      BY <1>2, <1>4, <2>1, <3>1
  <2>2. CASE ~Leading(g)
    BY <1>1, <1>2, <1>4, <2>2
  <2> QED
    BY <2>1, <2>2
<1>7. InlinesAre(Strings \cap Seen)'
  <2>1. g \in Strings <=> IsCString(g)
    BY <1>3 DEF Strings, IsCString, Names
  <2>2. CASE IsCString(g)
    <3>1. IsStringOf(g, g)
      BY <2>1, <2>2 DEF IsStringOf
    <3>2. inlines' = Set(inlines, g, g)
      BY <1>1, <2>2
    <3>3. /\ DOMAIN inlines' = DOMAIN inlines \cup {g} /\ inlines'[g] = g
          /\ \A h \in DOMAIN inlines \ {g} : inlines'[h] = inlines[h]
      BY <3>2 DEF Set
    <3>4. DOMAIN inlines' = {h \in Strings \cap Seen' : \E s \in Names : IsStringOf(h, s)}
      <4> HIDE DEF g
      <4> QED
        BY <1>2, <1>3, <1>4, <2>1, <2>2, <3>1, <3>3 DEF InlinesAre
    <3>5. \A h \in DOMAIN inlines' : IsStringOf(h, inlines'[h])
      <4> HIDE DEF g
      <4> QED
        BY <1>2, <3>1, <3>3 DEF InlinesAre
    <3> QED
      BY <1>1, <3>4, <3>5, SameModule DEF InlinesAre
  <2>3. CASE ~IsCString(g)
    BY <1>1, <1>2, <1>4, <2>1, <2>3, SameModule DEF InlinesAre
  <2> QED
    BY <2>2, <2>3
<1>8. Collected'
  BY <1>1, <1>3, <1>6, <1>7, SameModule DEF Collected, InlinesAre
<1>9. MarksAreReferences' /\ MetadataIsMarks' /\ Emitted'
  BY <1>1 DEF StringInvariant, MarksAreReferences, MetadataIsMarks, Emitted, Empty
<1> QED
  BY <1>1, <1>5, <1>8, <1>9, SameModule DEF StringInvariant

(* A run that ends at the cast of a number has shown nothing.              *)
LEMMA AbortStep ==
  ASSUME StringInvariant, Abort
  PROVE  StringInvariant'
<1>1. /\ stage = "collect" /\ stage' = "aborted" /\ ctx' = ctx
      /\ UNCHANGED <<position, inlines, inlineableGlobals, inlineInstructions, metadata,
                     shown, asserted>>
  BY DEF Abort
<1>2. Collected'
  BY <1>1 DEF Collected
<1>3. MarksAreReferences' /\ MetadataIsMarks' /\ Emitted'
  BY <1>1 DEF StringInvariant, MarksAreReferences, MetadataIsMarks, Emitted, Empty
<1> QED
  BY <1>1, <1>2, <1>3, SameModule DEF StringInvariant

LEMMA EndCollectStep ==
  ASSUME StringInvariant, EndCollect
  PROVE  StringInvariant'
<1>1. /\ stage = "collect" /\ position = Len(ctx.globals) + 1
      /\ stage' = "resolve" /\ position' = 1 /\ ctx' = ctx
      /\ UNCHANGED <<inlines, inlineableGlobals, inlineInstructions, metadata, shown, asserted>>
  BY DEF EndCollect
<1>2. /\ HasStrings(ctx) /\ inlineableGlobals \in Seq(Names) /\ InlinesAre(Strings \cap Seen)
      /\ Elements(inlineableGlobals) = {h \in Seen : Leading(h)}
  BY <1>1 DEF StringInvariant, Collected
<1>3. Seen = Names /\ Resolved' = {} /\ Strings \subseteq Names
  <2>1. 1 .. position - 1 = DOMAIN ctx.globals /\ 1 .. position' - 1 = {}
    BY <1>1, <1>2, Modules
  <2> QED
    BY <2>1 DEF Seen, Names, Elements, Resolved, Strings
<1>4. position' \in 1 .. Len(inlineableGlobals') + 1
  BY <1>1, <1>2
<1>5. Collected'
  BY <1>1, <1>2, <1>3, <1>4, SameModule DEF Collected, InlinesAre
<1>6. MarksAreReferences' /\ MetadataIsMarks' /\ Emitted'
  BY <1>1 DEF StringInvariant, MarksAreReferences, MetadataIsMarks, Emitted, Empty
<1> QED
  BY <1>1, <1>2, <1>5, <1>6, SameModule DEF StringInvariant

LEMMA ResolveStep ==
  ASSUME StringInvariant, Resolve
  PROVE  StringInvariant'
<1> DEFINE g == inlineableGlobals[position]
           r == StringRef(g)
<1>1. /\ stage = "resolve" /\ stage' = "resolve" /\ position <= Len(inlineableGlobals)
      /\ position' = position + 1 /\ ctx' = ctx
      /\ inlines' = (IF r \in DOMAIN inlines THEN Set(inlines, g, inlines[r]) ELSE inlines)
      /\ UNCHANGED <<inlineableGlobals, inlineInstructions, metadata, shown, asserted>>
  BY DEF Resolve
<1>2. /\ position \in 1 .. Len(inlineableGlobals) + 1 /\ InlinesAre(Strings \cup Resolved)
      /\ Elements(inlineableGlobals) = {h \in Names : Leading(h)}
      /\ HasStrings(ctx) /\ inlineableGlobals \in Seq(Names)
  BY <1>1 DEF StringInvariant, Collected
<1>3. /\ position' \in 1 .. Len(inlineableGlobals) + 1
      /\ 1 .. position' - 1 = (1 .. position - 1) \cup {position}
      /\ position \in DOMAIN inlineableGlobals
      /\ 1 .. position - 1 \subseteq DOMAIN inlineableGlobals
  BY <1>1, <1>2
<1>4. Resolved' = Resolved \cup {g} /\ g \in Names /\ Leading(g)
      /\ \A h \in Resolved : h \in Names /\ Leading(h)
  BY <1>1, <1>2, <1>3 DEF Resolved, Elements
<1>5. /\ \A s \in Names : IsStringOf(g, s) <=> r = s /\ s \in Strings
      /\ r = None \/ (r \in Names /\ ctx.init[r].kind \in {"cstring", "data"})
      /\ None \notin Names
  BY <1>2, <1>4, ReferenceIsString, Modules
<1>6. Strings = {s \in Names : ctx.init[s].kind = "cstring"}
  BY DEF Strings, Names
<1>7. r \in DOMAIN inlines <=> r \in Strings
  <2>1. r \in Strings => IsStringOf(r, r) /\ r \in Names
    BY <1>6 DEF IsStringOf
  <2>2. r \in Resolved => r \notin Strings /\ r # None /\ ctx.init[r].kind \notin {"cstring", "data"}
    BY <1>4, <1>5, <1>6 DEF Leading
  <2> QED
    BY <1>2, <1>5, <1>6, <2>1, <2>2 DEF InlinesAre
<1> HIDE DEF g, r
<1>8. InlinesAre(Strings \cup Resolved)'
  <2>1. CASE r \in Strings
    <3>1. r \in Names /\ IsStringOf(g, r)
      BY <1>5, <1>6, <2>1
    <3>2. inlines[r] = r
      <4>1. IsStringOf(r, r) /\ IsStringOf(r, inlines[r])
        BY <1>2, <1>7, <2>1 DEF InlinesAre, IsStringOf
      <4>2. inlines[r] \in Names
        BY <4>1, <1>6 DEF IsStringOf
      <4> QED
        BY <1>2, <3>1, <4>1, <4>2, OneString
    <3>3. inlines' = Set(inlines, g, r)
      BY <1>1, <1>7, <2>1, <3>2
    <3>4. /\ DOMAIN inlines' = DOMAIN inlines \cup {g} /\ inlines'[g] = r
          /\ \A h \in DOMAIN inlines \ {g} : inlines'[h] = inlines[h]
      BY <3>3 DEF Set
    <3> QED
      BY <1>1, <1>2, <1>4, <3>1, <3>4, SameModule DEF InlinesAre
  <2>2. CASE r \notin Strings
    <3>1. inlines' = inlines /\ ~ \E s \in Names : IsStringOf(g, s)
      BY <1>1, <1>5, <1>7, <2>2
    <3> QED
      BY <1>1, <1>2, <1>4, <3>1, SameModule DEF InlinesAre
  <2> QED
    BY <2>1, <2>2
<1>9. Collected'
  BY <1>1, <1>2, <1>3, <1>8, SameModule DEF Collected
<1>10. MarksAreReferences' /\ MetadataIsMarks' /\ Emitted'
  BY <1>1 DEF StringInvariant, MarksAreReferences, MetadataIsMarks, Emitted, Empty
<1> QED
  BY <1>1, <1>2, <1>9, <1>10, SameModule DEF StringInvariant

LEMMA MarkUsersStep ==
  ASSUME StringInvariant, MarkUsers
  PROVE  StringInvariant'
<1>1. /\ stage = "resolve" /\ position = Len(inlineableGlobals) + 1
      /\ stage' = "attach" /\ position' = 1 /\ ctx' = ctx
      /\ UNCHANGED <<inlines, inlineableGlobals, metadata, shown, asserted>>
  BY DEF MarkUsers
<1>2. /\ HasStrings(ctx) /\ inlineableGlobals \in Seq(Names)
      /\ InlinesAre(Strings \cup Resolved)
      /\ Elements(inlineableGlobals) = {h \in Names : Leading(h)}
  BY <1>1 DEF StringInvariant, Collected
<1>3. Resolved = {h \in Names : Leading(h)}
  <2>1. 1 .. position - 1 = DOMAIN inlineableGlobals
    BY <1>1, <1>2
  <2> QED
    BY <1>2, <2>1 DEF Resolved, Elements
<1>4. \A g, s \in Names : IsStringOf(g, s) => g \in Strings \/ Leading(g)
  BY DEF IsStringOf, Leading
<1>5. InlinesAre(Names)
  BY <1>2, <1>3, <1>4 DEF InlinesAre, Strings, Names
<1>6. \A g, s : g \in DOMAIN inlines /\ inlines[g] = s <=> g \in Names /\ s \in Names /\ IsStringOf(g, s)
  <2>1. \A g, s : IsStringOf(g, s) => s \in Names
    BY DEF IsStringOf, Strings, Names
  <2>2. \A g \in Names, s, t \in Names : IsStringOf(g, s) /\ IsStringOf(g, t) => s = t
    BY <1>2, OneString
  <2> QED
    BY <1>5, <2>1, <2>2 DEF InlinesAre
<1>7. \A t : t \in inlineInstructions' <=>
        \E g \in DOMAIN inlines, k \in DOMAIN ctx.instructions :
          \E v \in Elements(Operands(k)) :
            t = <<k, v, inlines[g]>> /\ Used(k) /\ RefersTo(v, g)
  <2> DEFINE marks(g, k) ==
        {<<k, v, inlines[g]>> : v \in {w \in Elements(Operands(k)) : RefersTo(w, g)}}
  <2>1. inlineInstructions' = UNION {marks(g, k) : g \in DOMAIN inlines,
                                                   k \in {j \in DOMAIN ctx.instructions : Used(j)}}
    BY DEF MarkUsers, Operands, Used
  <2>2. \A t, g, k : t \in marks(g, k) <=>
          \E v \in Elements(Operands(k)) : t = <<k, v, inlines[g]>> /\ RefersTo(v, g)
    OBVIOUS
  <2> HIDE DEF marks
  <2>3. \A t : t \in inlineInstructions' <=>
          \E g \in DOMAIN inlines, k \in DOMAIN ctx.instructions : Used(k) /\ t \in marks(g, k)
    BY <2>1
  <2> QED
    BY <2>2, <2>3
<1>8. \A k \in DOMAIN ctx.instructions : \A v \in Elements(Operands(k)) : \A s \in Names :
        RefersToString(v, s) <=> \E g \in Names : RefersTo(v, g) /\ IsStringOf(g, s)
  <2> SUFFICES ASSUME NEW k \in DOMAIN ctx.instructions, NEW v \in Elements(Operands(k))
               PROVE  \A s \in Names : RefersToString(v, s) <=>
                        \E g \in Names : RefersTo(v, g) /\ IsStringOf(g, s)
    OBVIOUS
  <2>1. PICK j \in DOMAIN Operands(k) : v = Operands(k)[j]
    BY DEF Elements
  <2> QED
    BY <1>2, <2>1, References
<1>9. \A t : t \in inlineInstructions' <=>
        \E k \in DOMAIN ctx.instructions, s \in Names :
          \E v \in Elements(Operands(k)) : t = <<k, v, s>> /\ Used(k) /\ RefersToString(v, s)
  <2> SUFFICES ASSUME NEW t
               PROVE  (\E g \in DOMAIN inlines, k \in DOMAIN ctx.instructions :
                         \E v \in Elements(Operands(k)) :
                           t = <<k, v, inlines[g]>> /\ Used(k) /\ RefersTo(v, g))
                       <=> \E k \in DOMAIN ctx.instructions, s \in Names :
                             \E v \in Elements(Operands(k)) :
                               t = <<k, v, s>> /\ Used(k) /\ RefersToString(v, s)
    BY <1>7
  <2>1. ASSUME NEW g \in DOMAIN inlines, NEW k \in DOMAIN ctx.instructions,
               NEW v \in Elements(Operands(k)),
               t = <<k, v, inlines[g]>>, Used(k), RefersTo(v, g)
        PROVE  inlines[g] \in Names /\ RefersToString(v, inlines[g])
    BY <1>6, <1>8, <2>1
  <2>2. ASSUME NEW k \in DOMAIN ctx.instructions, NEW s \in Names,
               NEW v \in Elements(Operands(k)),
               t = <<k, v, s>>, Used(k), RefersToString(v, s)
        PROVE  \E g \in DOMAIN inlines : inlines[g] = s /\ RefersTo(v, g)
    BY <1>6, <1>8, <2>2
  <2> QED
    BY <2>1, <2>2
<1>10. Collected'
  BY <1>1, <1>5, SameModule DEF Collected, InlinesAre
<1>11. MarksAreReferences'
  BY <1>1, <1>9, SameModule DEF MarksAreReferences
<1>12. MetadataIsMarks' /\ Emitted'
  BY <1>1 DEF StringInvariant, MetadataIsMarks, Emitted, Empty
<1> QED
  BY <1>1, <1>2, <1>10, <1>11, <1>12, SameModule DEF StringInvariant

(* What is attached to an operand: the string it refers to, if it does.    *)
LEMMA StringAtOperand ==
  ASSUME StringInvariant, stage = "attach",
         NEW k \in DOMAIN ctx.instructions, Used(k), NEW j \in DOMAIN Operands(k)
  PROVE  LET v == Operands(k)[j]
         IN /\ StringAt(k, v) = None <=> ~HasString(v)
            /\ \A s \in Names : StringAt(k, v) = s <=> RefersToString(v, s)
<1> DEFINE v == Operands(k)[j]
           strings == {t[3] : t \in {u \in inlineInstructions : u[1] = k /\ u[2] = v}}
<1>1. v \in Elements(Operands(k))
  BY DEF Elements
<1>2. HasStrings(ctx) /\ None \notin Names
  BY Modules DEF StringInvariant
<1>3. \A s : s \in strings <=> s \in Names /\ RefersToString(v, s)
  <2>1. \A t : t \in inlineInstructions <=>
          \E h \in DOMAIN ctx.instructions, s \in Names :
            \E w \in Elements(Operands(h)) : t = <<h, w, s>> /\ Used(h) /\ RefersToString(w, s)
    BY DEF StringInvariant, MarksAreReferences
  <2> HIDE DEF v
  <2>2. ASSUME NEW s \in strings
        PROVE  s \in Names /\ RefersToString(v, s)
    <3>1. PICK t \in inlineInstructions : t[1] = k /\ t[2] = v /\ t[3] = s
      OBVIOUS
    <3>2. PICK h \in DOMAIN ctx.instructions, x \in Names :
            \E w \in Elements(Operands(h)) : t = <<h, w, x>> /\ Used(h) /\ RefersToString(w, x)
      BY <2>1
    <3>3. PICK w \in Elements(Operands(h)) : t = <<h, w, x>> /\ RefersToString(w, x)
      BY <3>2
    <3>4. h = k /\ w = v /\ x = s
      BY <3>1, <3>3
    <3> QED
      BY <3>3, <3>4
  <2>3. ASSUME NEW s \in Names, RefersToString(v, s)
        PROVE  s \in strings
    <3>1. <<k, v, s>> \in inlineInstructions
      BY <1>1, <2>1, <2>3
    <3> QED
      BY <3>1
  <2> QED
    BY <2>2, <2>3
<1>4. \A s, t \in Names : RefersToString(v, s) /\ RefersToString(v, t) => s = t
  BY <1>2, References
<1>5. StringAt(k, v) = IF strings = {} THEN None ELSE CHOOSE s \in strings : TRUE
  BY DEF StringAt
<1> HIDE DEF v, strings
<1>6. CASE strings = {}
  BY <1>2, <1>3, <1>5, <1>6 DEF HasString, v
<1>7. CASE strings # {}
  <2>1. StringAt(k, v) \in strings
    BY <1>5, <1>7
  <2> QED
    BY <1>2, <1>3, <1>4, <2>1 DEF HasString, v
<1> QED
  BY <1>6, <1>7

LEMMA AttachStep ==
  ASSUME StringInvariant, Attach
  PROVE  StringInvariant'
<1>1. /\ stage = "attach" /\ stage' = "emit" /\ ctx' = ctx /\ position' = position /\ position = 1
      /\ metadata' = [k \in {t[1] : t \in inlineInstructions} |-> OperandMetadata(k)]
      /\ UNCHANGED <<inlines, inlineableGlobals, inlineInstructions, shown, asserted>>
  BY DEF Attach, StringInvariant
<1>2. {t[1] : t \in inlineInstructions} =
        {k \in DOMAIN ctx.instructions : Used(k) /\ \E v \in Elements(Operands(k)) : HasString(v)}
  <2>1. \A t : t \in inlineInstructions <=>
          \E h \in DOMAIN ctx.instructions, s \in Names :
            \E w \in Elements(Operands(h)) : t = <<h, w, s>> /\ Used(h) /\ RefersToString(w, s)
    BY <1>1 DEF StringInvariant, MarksAreReferences
  <2>2. ASSUME NEW k \in {t[1] : t \in inlineInstructions}
        PROVE  k \in DOMAIN ctx.instructions /\ Used(k)
                 /\ \E v \in Elements(Operands(k)) : HasString(v)
    <3>1. PICK t \in inlineInstructions : t[1] = k
      OBVIOUS
    <3> QED
      BY <2>1, <3>1 DEF HasString
  <2>3. ASSUME NEW k \in DOMAIN ctx.instructions, Used(k),
               NEW v \in Elements(Operands(k)), HasString(v)
        PROVE  k \in {t[1] : t \in inlineInstructions}
    <3>1. PICK s \in Names : RefersToString(v, s)
      BY <2>3 DEF HasString
    <3>2. <<k, v, s>> \in inlineInstructions
      BY <2>1, <2>3, <3>1
    <3> QED
      BY <3>2
  <2> QED
    BY <2>2, <2>3
<1>3. DOMAIN metadata' =
        {k \in DOMAIN ctx.instructions : Used(k) /\ \E v \in Elements(Operands(k)) : HasString(v)}
  BY <1>1, <1>2
<1>4. \A k \in DOMAIN metadata' : \A j \in DOMAIN Operands(k) :
        /\ metadata'[k][j] = None <=> ~HasString(Operands(k)[j])
        /\ \A s \in Names : metadata'[k][j] = s <=> RefersToString(Operands(k)[j], s)
  <2> SUFFICES ASSUME NEW k \in DOMAIN metadata', NEW j \in DOMAIN Operands(k)
               PROVE  /\ metadata'[k][j] = None <=> ~HasString(Operands(k)[j])
                      /\ \A s \in Names : metadata'[k][j] = s <=> RefersToString(Operands(k)[j], s)
    OBVIOUS
  <2>1. k \in DOMAIN ctx.instructions /\ Used(k)
    BY <1>3
  <2>2. metadata'[k] = OperandMetadata(k)
    BY <1>1
  <2>3. metadata'[k][j] = StringAt(k, Operands(k)[j])
    BY <2>2 DEF OperandMetadata, Operands
  <2> QED
    BY <1>1, <2>1, <2>3, StringAtOperand
<1>5. MetadataIsMarks'
  BY <1>1, <1>3, <1>4, SameModule DEF MetadataIsMarks
<1>6. Collected'
  BY <1>1, SameModule DEF StringInvariant, Collected, InlinesAre
<1>7. MarksAreReferences'
  BY <1>1, SameModule DEF StringInvariant, MarksAreReferences
<1>8. Emitted'
  <2>1. shown = Empty /\ asserted = {}
    BY <1>1 DEF StringInvariant, Emitted
  <2>2. DOMAIN shown = {}
    BY <2>1 DEF Empty
  <2> QED
    BY <1>1, <2>1, <2>2 DEF Emitted
<1> QED
  BY <1>1, <1>5, <1>6, <1>7, <1>8, SameModule DEF StringInvariant

(* A step of the emitter that shows instruction k.                         *)
LEMMA Emits ==
  ASSUME StringInvariant, stage = "emit", position \in DOMAIN ctx.instructions,
         UNCHANGED <<ctx, stage, inlines, inlineableGlobals, inlineInstructions, metadata>>,
         position' = position + 1,
         NEW nodes, shown' = Set(shown, position, nodes),
         Null \notin Elements(nodes),
         Used(position) =>
           \A j \in DOMAIN nodes, s \in Names :
             \/ ctx.instructions[position].op = "store" /\ j = 2
             \/ nodes[j] = <<"string", s>> <=> RefersToString(Operands(position)[j], s),
         asserted' = asserted \cup {k \in {position} :
                       /\ ctx.instructions[k].op = "store"
                       /\ HasString(Operands(k)[2]) /\ ~HasString(Operands(k)[1])}
  PROVE  StringInvariant'
<1>1. /\ position \in Nat \ {0} /\ DOMAIN shown = 1 .. position - 1
      /\ asserted \subseteq DOMAIN shown /\ \A k \in DOMAIN shown : ShownRight(k)
  BY DEF StringInvariant, Emitted
<1>2. /\ DOMAIN shown' = DOMAIN shown \cup {position} /\ shown'[position] = nodes
      /\ \A k \in DOMAIN shown : shown'[k] = shown[k]
  BY <1>1 DEF Set
<1>3. DOMAIN shown' = 1 .. position' - 1 /\ position \notin DOMAIN shown /\ position' \in Nat \ {0}
  BY <1>1, <1>2
<1>4. ASSUME NEW k \in DOMAIN shown
      PROVE  ShownRight(k)'
  <2>1. shown'[k] = shown[k] /\ (k \in asserted' <=> k \in asserted) /\ ShownRight(k)
    BY <1>1, <1>2, <1>3
  <2> QED
    BY <2>1, SameModule DEF ShownRight
<1>5. ASSUME NEW k, k = position
      PROVE  ShownRight(k)'
  <2>1. k \in asserted' <=>
          ctx.instructions[k].op = "store" /\ HasString(Operands(k)[2]) /\ ~HasString(Operands(k)[1])
    BY <1>1, <1>3, <1>5
  <2>2. shown'[k] = nodes
    BY <1>2, <1>5
  <2> QED
    BY <1>5, <2>1, <2>2, SameModule DEF ShownRight
<1>6. Emitted'
  BY <1>1, <1>2, <1>3, <1>4, <1>5 DEF Emitted
<1>7. Collected'
  BY SameModule DEF StringInvariant, Collected, InlinesAre
<1>8. MarksAreReferences' /\ MetadataIsMarks'
  BY SameModule DEF StringInvariant, MarksAreReferences, MetadataIsMarks
<1> QED
  BY <1>6, <1>7, <1>8, SameModule DEF StringInvariant

(* The metadata give each operand its string, and emitRefOrConstant stands *)
(* in for the operands that have none.                                     *)
LEMMA OperandShown ==
  ASSUME StringInvariant, stage = "emit",
         NEW k \in DOMAIN ctx.instructions, Used(k), NEW j \in DOMAIN Operands(k)
  PROVE  LET node == IF Marked(k) THEN InlineString(k, j) ELSE Null
             v == Operands(k)[j]
         IN /\ node = Null <=> ~HasString(v)
            /\ OrElse(node, v) # Null
            /\ \A s \in Names : OrElse(node, v) = <<"string", s>> <=> RefersToString(v, s)
<1> DEFINE node == IF Marked(k) THEN InlineString(k, j) ELSE Null
           v == Operands(k)[j]
<1>1. /\ DOMAIN metadata = {h \in DOMAIN ctx.instructions :
                             Used(h) /\ \E w \in Elements(Operands(h)) : HasString(w)}
      /\ k \in DOMAIN metadata =>
           /\ metadata[k][j] = None <=> ~HasString(v)
           /\ \A s \in Names : metadata[k][j] = s <=> RefersToString(v, s)
  BY DEF StringInvariant, MetadataIsMarks
<1>2. v \in Elements(Operands(k))
  BY DEF Elements
<1>3. HasString(v) => Marked(k)
  BY <1>1, <1>2 DEF Marked
<1>4. /\ RefOrConstant(v) # Null
      /\ \A s \in Names : RefOrConstant(v) = <<"string", s>> => RefersToString(v, s)
  BY RefOrConstantIsNode
<1>5. CASE HasString(v)
  <2>1. node = <<"string", metadata[k][j]>>
    BY <1>1, <1>3, <1>5 DEF InlineString, Marked
  <2>2. node # Null
    BY <2>1 DEF Null
  <2>3. OrElse(node, v) = node
    BY <2>2 DEF OrElse
  <2>4. \A s \in Names : metadata[k][j] = s <=> RefersToString(v, s)
    BY <1>1, <1>3, <1>5 DEF Marked
  <2>5. \A s : <<"string", metadata[k][j]>> = <<"string", s>> <=> metadata[k][j] = s
    OBVIOUS
  <2> HIDE DEF node, v
  <2>6. \A s \in Names : node = <<"string", s>> <=> RefersToString(v, s)
    BY <2>1, <2>4, <2>5
  <2> QED
    BY <1>5, <2>2, <2>3, <2>6 DEF node, v
<1>6. CASE ~HasString(v)
  <2>1. node = Null
    BY <1>1, <1>6 DEF InlineString, Marked
  <2>2. OrElse(node, v) = RefOrConstant(v)
    BY <2>1 DEF OrElse
  <2>3. \A s \in Names : ~RefersToString(v, s)
    BY <1>6 DEF HasString
  <2> HIDE DEF node, v
  <2> QED
    BY <1>4, <1>6, <2>1, <2>2, <2>3 DEF node, v
<1> QED
  BY <1>5, <1>6

LEMMA EmitStep ==
  ASSUME StringInvariant, Emit
  PROVE  StringInvariant'
<1> DEFINE k == position
           node(j) == IF Marked(k) THEN InlineString(k, j) ELSE Null
<1>1. /\ stage = "emit" /\ k \in DOMAIN ctx.instructions
      /\ UNCHANGED <<ctx, stage, inlines, inlineableGlobals, inlineInstructions, metadata>>
      /\ position' = position + 1
  BY DEF Emit
<1>2. HasStrings(ctx)
  BY DEF StringInvariant
<1>3. /\ ctx.instructions[k].op = "load" => DOMAIN Operands(k) = {1}
      /\ ctx.instructions[k].op = "store" => DOMAIN Operands(k) = {1, 2}
      /\ DOMAIN Operands(k) = 1 .. Len(Operands(k))
  BY <1>1, <1>2, Modules
<1>4. Marked(k) <=> Used(k) /\ \E j \in DOMAIN Operands(k) : HasString(Operands(k)[j])
  <2>1. DOMAIN metadata = {h \in DOMAIN ctx.instructions :
                             Used(h) /\ \E w \in Elements(Operands(h)) : HasString(w)}
    BY <1>1 DEF StringInvariant, MetadataIsMarks
  <2> QED
    BY <1>1, <2>1 DEF Marked, Elements
<1>5. \A j \in DOMAIN Operands(k) : Used(k) =>
        /\ node(j) = Null <=> ~HasString(Operands(k)[j])
        /\ OrElse(node(j), Operands(k)[j]) # Null
        /\ \A s \in Names : OrElse(node(j), Operands(k)[j]) = <<"string", s>>
                              <=> RefersToString(Operands(k)[j], s)
  BY <1>1, OperandShown
<1>6. CASE EmitLoad(k)
  <2>1. /\ ctx.instructions[k].op = "load" /\ Used(k)
        /\ UNCHANGED asserted
    BY <1>6 DEF EmitLoad, Used, UserInstructions
  <2>2. shown' = Set(shown, k, <<OrElse(node(1), Operands(k)[1])>>)
    <3>1. CASE Marked(k)
      <4>1. node(1) # Null /\ node(1) = InlineString(k, 1)
        BY <1>3, <1>4, <1>5, <2>1, <3>1
      <4> QED
        BY <1>6, <3>1, <4>1 DEF EmitLoad, OrElse
    <3>2. CASE ~Marked(k)
      BY <1>6, <3>2 DEF EmitLoad, OrElse, Operands
    <3> QED
      BY <3>1, <3>2
  <2> DEFINE nodes == <<OrElse(node(1), Operands(k)[1])>>
  <2>3. DOMAIN nodes = {1} /\ nodes[1] = OrElse(node(1), Operands(k)[1])
    OBVIOUS
  <2>4. asserted' = asserted \cup {h \in {position} :
                       /\ ctx.instructions[h].op = "store"
                       /\ HasString(Operands(h)[2]) /\ ~HasString(Operands(h)[1])}
    BY <2>1
  <2> HIDE DEF node
  <2>5. Null \notin Elements(nodes)
    BY <1>3, <1>5, <2>1, <2>3 DEF Elements
  <2>6. \A j \in DOMAIN nodes, s \in Names :
          nodes[j] = <<"string", s>> <=> RefersToString(Operands(position)[j], s)
    BY <1>3, <1>5, <2>1, <2>3
  <2> HIDE DEF nodes
  <2> QED
    BY <1>1, <2>2, <2>4, <2>5, <2>6, Emits DEF nodes
<1>7. CASE EmitStore(k)
  <2>1. ctx.instructions[k].op = "store" /\ Used(k)
    BY <1>7 DEF EmitStore, Used, UserInstructions
  <2> DEFINE nodes == <<OrElse(node(1), Operands(k)[1]), RefOrConstant(Operands(k)[2])>>
  <2>2. /\ shown' = Set(shown, k, nodes)
        /\ asserted' = (IF Marked(k) /\ node(1) = Null THEN asserted \cup {k} ELSE asserted)
    BY <1>7 DEF EmitStore, ValueString, Operands
  <2>3. Marked(k) /\ node(1) = Null <=> HasString(Operands(k)[2]) /\ ~HasString(Operands(k)[1])
    BY <1>3, <1>4, <1>5, <2>1
  <2>4. asserted' = asserted \cup {h \in {position} :
                       /\ ctx.instructions[h].op = "store"
                       /\ HasString(Operands(h)[2]) /\ ~HasString(Operands(h)[1])}
    BY <2>1, <2>2, <2>3
  <2>5. /\ DOMAIN nodes = {1, 2} /\ nodes[1] = OrElse(node(1), Operands(k)[1])
        /\ nodes[2] = RefOrConstant(Operands(k)[2])
    OBVIOUS
  <2>6. RefOrConstant(Operands(k)[2]) # Null
    BY <1>1, <1>3, <2>1, RefOrConstantIsNode
  <2> HIDE DEF node
  <2>7. Null \notin Elements(nodes)
    BY <1>3, <1>5, <2>1, <2>5, <2>6 DEF Elements
  <2>8. \A s \in Names : nodes[1] = <<"string", s>> <=> RefersToString(Operands(position)[1], s)
    BY <1>3, <1>5, <2>1, <2>5
  <2> HIDE DEF nodes
  <2>9. \A j \in DOMAIN nodes, s \in Names :
          \/ ctx.instructions[position].op = "store" /\ j = 2
          \/ nodes[j] = <<"string", s>> <=> RefersToString(Operands(position)[j], s)
    BY <2>1, <2>5, <2>8
  <2> QED
    BY <1>1, <2>2, <2>4, <2>7, <2>9, Emits
<1>8. CASE EmitCall(k)
  <2>1. ctx.instructions[k].op = "call" /\ Used(k) /\ UNCHANGED asserted
    BY <1>8 DEF EmitCall, Used, UserInstructions
  <2> DEFINE nodes == [j \in DOMAIN Operands(k) |-> OrElse(node(j), Operands(k)[j])]
  <2>2. shown' = Set(shown, k, nodes)
    BY <1>8 DEF EmitCall, Argument, Operands
  <2>3. DOMAIN nodes = DOMAIN Operands(k)
        /\ \A j \in DOMAIN Operands(k) : nodes[j] = OrElse(node(j), Operands(k)[j])
    OBVIOUS
  <2>4. asserted' = asserted \cup {h \in {position} :
                       /\ ctx.instructions[h].op = "store"
                       /\ HasString(Operands(h)[2]) /\ ~HasString(Operands(h)[1])}
    BY <2>1
  <2> HIDE DEF node, nodes
  <2>5. Null \notin Elements(nodes)
    BY <1>5, <2>1, <2>3 DEF Elements
  <2>6. \A j \in DOMAIN nodes, s \in Names :
          nodes[j] = <<"string", s>> <=> RefersToString(Operands(position)[j], s)
    BY <1>5, <2>1, <2>3
  <2> QED
    BY <1>1, <2>2, <2>4, <2>5, <2>6, Emits
<1>9. CASE EmitOther(k)
  <2>1. ctx.instructions[k].op = "other" /\ ~Used(k) /\ UNCHANGED asserted
    BY <1>9 DEF EmitOther, Used, UserInstructions
  <2> DEFINE nodes == [j \in DOMAIN Operands(k) |-> RefOrConstant(Operands(k)[j])]
  <2>2. shown' = Set(shown, k, nodes)
    BY <1>9 DEF EmitOther, Operands
  <2>3. DOMAIN nodes = DOMAIN Operands(k)
        /\ \A j \in DOMAIN Operands(k) : nodes[j] = RefOrConstant(Operands(k)[j])
    OBVIOUS
  <2>4. asserted' = asserted \cup {h \in {position} :
                       /\ ctx.instructions[h].op = "store"
                       /\ HasString(Operands(h)[2]) /\ ~HasString(Operands(h)[1])}
    BY <2>1
  <2>5. \A j \in DOMAIN Operands(k) : RefOrConstant(Operands(k)[j]) # Null
    BY <1>1, RefOrConstantIsNode
  <2> HIDE DEF nodes
  <2>6. Null \notin Elements(nodes)
    BY <2>3, <2>5 DEF Elements
  <2> QED
    BY <1>1, <2>1, <2>2, <2>4, <2>6, Emits
<1> QED
  BY <1>6, <1>7, <1>8, <1>9 DEF Emit

LEMMA StringsNext ==
  ASSUME StringInvariant, StringNext
  PROVE  StringInvariant' /\ ctx' = ctx
<1>1. StringInvariant'
  BY CollectStep, AbortStep, EndCollectStep, ResolveStep, MarkUsersStep, AttachStep, EmitStep
  DEF StringNext
<1>2. ctx' = ctx
  BY DEF StringNext, Collect, Abort, EndCollect, Resolve, MarkUsers, Attach, Emit
<1> QED
  BY <1>1, <1>2

LEMMA InvariantStrings ==
  ASSUME StringInvariant
  PROVE  LiteralsAreStrings /\ OperandsHaveNodes
<1>1. stage = "emit" \/ DOMAIN shown = {}
  BY DEF StringInvariant, Emitted, Empty
<1>2. stage = "emit" => \A k \in DOMAIN shown : ShownRight(k)
  BY DEF StringInvariant, Emitted
<1>3. \A v : HasString(v) <=> \E s \in Strings : RefersToString(v, s)
  BY DEF HasString, RefersToString, IsStringOf, Names, Strings
<1>4. LiteralsAreStrings
  BY <1>1, <1>2 DEF LiteralsAreStrings, ShownRight, Used, Operands, Names
<1>5. OperandsHaveNodes
  BY <1>2, <1>3 DEF OperandsHaveNodes, ShownRight, Operands
<1> QED
  BY <1>4, <1>5

----------------------------------------------------------------------------
(* Names of types.                                                         *)

Structs == DOMAIN ctx.own
DITypes == DOMAIN ctx.di
BasesOf(t) == Types!Elements(Types!Followed(t))
IsComposite(c) == ctx.di[c].kind = "composite"

(* A struct that a method takes for self has a name and is on no worklist. *)
MethodsNameStructs ==
  \A k \in DOMAIN ctx.methods :
    (typePhase # "methods" \/ k < typePosition) /\ ctx.methods[k][2] \in ctx.opaque =>
      name[ctx.methods[k][2]] # ""

NamelessAreCollected ==
  /\ typePhase = "methods" => typeWorklist = <<>>
  /\ \A p \in Types!Elements(typeWorklist) :
       /\ p \in Types!Elements(ctx.declares) /\ p[1] \in ctx.opaque /\ p[2] \in DITypes
       /\ \A m \in Types!Elements(ctx.methods) : m[2] # p[1]
  /\ typePhase # "methods" =>
       \A k \in DOMAIN ctx.declares :
         (typePhase = "collect" => k < typePosition) /\ Types!IsNameless(ctx.declares[k][1]) =>
           ctx.declares[k] \in Types!Elements(typeWorklist)

(* A walk is for the struct of the last pair that was taken, which has no  *)
(* name yet, and has one debug type at a time to go, of those that the     *)
(* pair's leads to.                                                        *)
OneWalk ==
  /\ typePhase # "walk" => diTypeWorklist = <<>>
  /\ typePhase = "walk" =>
       /\ typePosition - 1 \in DOMAIN typeWorklist
       /\ structType = typeWorklist[typePosition - 1][1]
       /\ diTypeWorklist # <<>> =>
            /\ name[structType] = ""
            /\ \E t \in DITypes : /\ diTypeWorklist = <<t>>
                                     /\ Types!LeadsTo(typeWorklist[typePosition - 1][2], t)

(* What has been visited has its bases visited or to go, and a composite   *)
(* has given its name to a struct that it describes.                       *)
VisitsAreComplete ==
  /\ typePhase \in {"methods", "collect"} => visitedTypes = {}
  /\ visitedTypes \subseteq DITypes
  /\ \A t \in visitedTypes : BasesOf(t) \subseteq visitedTypes \cup Types!Elements(diTypeWorklist)
  /\ \A c \in visitedTypes : IsComposite(c) /\ ctx.di[c].name # "" =>
       \E s \in ctx.opaque : name[s] = ctx.di[c].name /\ Types!Describes(c, s)
  /\ typePhase \in {"name", "walk"} =>
       \A k \in 1 .. typePosition - 1 :
         \/ name[typeWorklist[k][1]] # ""
         \/ typeWorklist[k][2] \in visitedTypes \cup Types!Elements(diTypeWorklist)

Positions ==
  CASE typePhase = "methods" -> typePosition \in 1 .. Len(ctx.methods) + 1
    [] typePhase = "collect" -> typePosition \in 1 .. Len(ctx.declares) + 1
    [] OTHER -> typePosition \in 1 .. Len(typeWorklist) + 1

TypeInvariant ==
  /\ Types!HasTypes(ctx)
  /\ typePhase \in {"methods", "collect", "name", "walk"}
  /\ name \in [Structs -> STRING]
  /\ typeWorklist \in Seq(Types!Elements(ctx.declares))
  /\ Positions
  /\ Types!NamedAfterItsOwn
  /\ MethodsNameStructs /\ NamelessAreCollected /\ OneWalk /\ VisitsAreComplete

----------------------------------------------------------------------------

LEMMA TypeModules ==
  ASSUME Types!HasTypes(ctx)
  PROVE  /\ Len(ctx.methods) \in Nat /\ DOMAIN ctx.methods = 1 .. Len(ctx.methods)
         /\ Len(ctx.declares) \in Nat /\ DOMAIN ctx.declares = 1 .. Len(ctx.declares)
         /\ ctx.opaque \subseteq Structs
<1>1. \E S : ctx.methods \in Seq(S)
  <2>1. ctx.methods \in Seq((STRING \ {""}) \X (DOMAIN ctx.own \cup {0}))
    BY DEF Types!HasTypes
  <2> QED
    BY <2>1, Zenon
<1>2. \E S : ctx.declares \in Seq(S)
  <2>1. ctx.declares \in Seq((DOMAIN ctx.own \cup {0}) \X DOMAIN ctx.di)
    BY DEF Types!HasTypes
  <2> QED
    BY <2>1, Zenon
<1>3. Len(ctx.methods) \in Nat /\ DOMAIN ctx.methods = 1 .. Len(ctx.methods)
  BY <1>1
<1>4. Len(ctx.declares) \in Nat /\ DOMAIN ctx.declares = 1 .. Len(ctx.declares)
  BY <1>2
<1>5. ctx.opaque \subseteq Structs
  BY DEF Types!HasTypes, Structs
<1> QED
  BY <1>3, <1>4, <1>5

LEMMA Pairs ==
  ASSUME NEW S, NEW T, NEW p \in S \X T
  PROVE  p[1] \in S /\ p[2] \in T /\ p = <<p[1], p[2]>>
OBVIOUS

LEMMA TypeElements ==
  ASSUME Types!HasTypes(ctx)
  PROVE  /\ \A m \in Types!Elements(ctx.methods) : /\ m[1] \in STRING /\ m[1] # ""
                                                   /\ m = <<m[1], m[2]>>
         /\ \A d \in Types!Elements(ctx.declares) : d[2] \in DITypes
<1> DEFINE classes == STRING \ {""}
           selves == DOMAIN ctx.own \cup {0}
           methods == classes \X selves
           declares == (DOMAIN ctx.own \cup {0}) \X DOMAIN ctx.di
<1>1. ctx.methods \in Seq(methods) /\ ctx.declares \in Seq(declares)
  BY DEF Types!HasTypes
<1>2. \A m \in methods : m[1] \in STRING /\ m[1] # "" /\ m = <<m[1], m[2]>>
  <2> HIDE DEF classes, selves
  <2>1. \A m \in methods : m[1] \in classes /\ m = <<m[1], m[2]>>
    BY Pairs
  <2> QED
    BY <2>1 DEF classes
<1>3. \A d \in declares : d[2] \in DITypes
  BY DEF DITypes
<1> HIDE DEF methods, declares
<1>4. \A m \in Types!Elements(ctx.methods) : m \in methods
  BY <1>1, ElementOfSeq DEF Types!Elements
<1>5. \A d \in Types!Elements(ctx.declares) : d \in declares
  BY <1>1, ElementOfSeq DEF Types!Elements
<1> QED
  BY <1>2, <1>3, <1>4, <1>5

LEMMA Bases ==
  ASSUME Types!HasTypes(ctx), NEW t \in DITypes
  PROVE  /\ BasesOf(t) \subseteq DITypes
         /\ IsComposite(t) => ctx.di[t].name \in STRING
         /\ \/ Types!Followed(t) = <<>> /\ BasesOf(t) = {}
            \/ \E b \in DITypes : Types!Followed(t) = <<b>> /\ BasesOf(t) = {b} /\ ~IsComposite(t)
<1>1. \/ ctx.di[t].kind = "composite" /\ ctx.di[t].name \in STRING
      \/ ctx.di[t].kind = "derived" /\ ctx.di[t].base \in DITypes
      \/ ctx.di[t].kind = "basic"
  BY DEF Types!HasTypes, DITypes
<1>2. Types!Elements(<<>>) = {}
  BY DEF Types!Elements
<1>3. \A b : Types!Elements(<<b>>) = {b}
  BY DEF Types!Elements
<1>4. CASE ctx.di[t].kind = "composite" /\ ctx.di[t].name \in STRING
  BY <1>2, <1>4 DEF BasesOf, Types!Followed, IsComposite
<1>5. CASE ctx.di[t].kind = "derived" /\ ctx.di[t].base \in DITypes
  BY <1>3, <1>5 DEF BasesOf, Types!Followed, IsComposite
<1>6. CASE ctx.di[t].kind = "basic"
  BY <1>2, <1>6 DEF BasesOf, Types!Followed, IsComposite
<1> QED
  BY <1>1, <1>4, <1>5, <1>6

LEMMA Leads ==
  ASSUME NEW t \in DITypes
  PROVE  /\ Types!LeadsTo(t, t)
         /\ \A u, v : Types!LeadsTo(t, u) /\ u \in DITypes /\ v \in BasesOf(u) => Types!LeadsTo(t, v)
         /\ \A S, u : S \subseteq DITypes /\ t \in S /\ (\A v \in S : BasesOf(v) \subseteq S)
                        /\ Types!LeadsTo(t, u) => u \in S
BY DEF Types!LeadsTo, DITypes, BasesOf

LEMMA SameTypes ==
  ASSUME TypeInvariant, ctx' = ctx
  PROVE  /\ Types!HasTypes(ctx)' /\ Structs' = Structs /\ DITypes' = DITypes
         /\ \A t : BasesOf(t)' = BasesOf(t)
         /\ \A c : IsComposite(c)' <=> IsComposite(c)
         /\ \A t, u : Types!LeadsTo(t, u)' <=> Types!LeadsTo(t, u)
         /\ \A c, s : Types!Describes(c, s)' <=> Types!Describes(c, s)
         /\ \A c, n : Types!IsNamed(c, n)' <=> Types!IsNamed(c, n)
<1>1. Types!HasTypes(ctx)'
  BY DEF TypeInvariant
<1>2. /\ Structs' = Structs /\ DITypes' = DITypes
      /\ \A t : Types!Followed(t)' = Types!Followed(t)
      /\ \A c : IsComposite(c)' <=> IsComposite(c)
  BY DEF Structs, DITypes, Types!Followed, IsComposite
<1>3. /\ \A t : BasesOf(t)' = BasesOf(t)
      /\ \A t, u : Types!LeadsTo(t, u)' <=> Types!LeadsTo(t, u)
  BY <1>2 DEF BasesOf, Types!LeadsTo
<1>4. \A c, s : Types!Describes(c, s)' <=> Types!Describes(c, s)
  BY <1>3 DEF Types!Describes
<1>5. \A c, n : Types!IsNamed(c, n)' <=> Types!IsNamed(c, n)
  BY DEF Types!IsNamed
<1> QED
  BY <1>1, <1>2, <1>3, <1>4, <1>5

LEMMA TypesInit ==
  ASSUME Types!Init, ctx \in Contexts
  PROVE  TypeInvariant
<1>1. Types!HasTypes(ctx)
  BY ModulesAssumption
<1>2. name \in [Structs -> STRING]
  BY <1>1 DEF Types!Init, Types!HasTypes, Structs
<1>3. Types!Elements(<<>>) = {}
  BY DEF Types!Elements
<1>4. Positions
  BY <1>1, TypeModules DEF Positions, Types!Init
<1>5. MethodsNameStructs /\ NamelessAreCollected /\ OneWalk /\ VisitsAreComplete
  <2>1. typePosition = 1 /\ typePhase = "methods" /\ typeWorklist = <<>> /\ visitedTypes = {}
          /\ diTypeWorklist = <<>>
    BY DEF Types!Init
  <2>2. \A k \in DOMAIN ctx.methods : ~ k < typePosition
    BY <1>1, <2>1, TypeModules
  <2> QED
    BY <1>3, <2>1, <2>2 DEF MethodsNameStructs, NamelessAreCollected, OneWalk, VisitsAreComplete
<1> QED
  BY <1>1, <1>2, <1>4, <1>5 DEF TypeInvariant, Types!Init, Types!NamedAfterItsOwn

LEMMA TypesStutter ==
  ASSUME TypeInvariant, ctx' = ctx, UNCHANGED typeVars
  PROVE  TypeInvariant'
<1>1. /\ typePhase' = typePhase /\ typePosition' = typePosition /\ name' = name
      /\ typeWorklist' = typeWorklist /\ structType' = structType
      /\ diTypeWorklist' = diTypeWorklist /\ visitedTypes' = visitedTypes
  BY DEF typeVars
<1>2. Types!NamedAfterItsOwn'
  BY <1>1, SameTypes DEF TypeInvariant, Types!NamedAfterItsOwn
<1>3. Positions' /\ MethodsNameStructs'
  BY <1>1 DEF TypeInvariant, Positions, MethodsNameStructs
<1>4. NamelessAreCollected'
  BY <1>1, SameTypes DEF TypeInvariant, NamelessAreCollected, Types!IsNameless
<1>5. OneWalk' /\ VisitsAreComplete'
  BY <1>1, SameTypes DEF TypeInvariant, OneWalk, VisitsAreComplete
<1> QED
  BY <1>1, <1>2, <1>3, <1>4, <1>5, SameTypes DEF TypeInvariant

LEMMA NameSelfStep ==
  ASSUME TypeInvariant, Types!NameSelf
  PROVE  TypeInvariant'
<1> DEFINE k == typePosition
           class == ctx.methods[k][1]
           self == ctx.methods[k][2]
<1>1. /\ typePhase = "methods" /\ typePhase' = "methods" /\ k \in DOMAIN ctx.methods /\ ctx' = ctx
      /\ typePosition' = k + 1
      /\ name' = (IF self \in ctx.opaque THEN [name EXCEPT ![self] = class] ELSE name)
      /\ UNCHANGED <<typeWorklist, structType, diTypeWorklist, visitedTypes>>
  BY DEF Types!NameSelf, TypeInvariant
<1>2. /\ Types!HasTypes(ctx) /\ name \in [Structs -> STRING] /\ k \in 1 .. Len(ctx.methods) + 1
      /\ typeWorklist = <<>> /\ diTypeWorklist = <<>> /\ visitedTypes = {}
  BY <1>1 DEF TypeInvariant, Positions, NamelessAreCollected, OneWalk, VisitsAreComplete
<1>3. /\ class \in STRING /\ class # "" /\ <<class, self>> \in Types!Elements(ctx.methods)
      /\ ctx.opaque \subseteq Structs /\ k + 1 \in 1 .. Len(ctx.methods) + 1
      /\ \A j \in DOMAIN ctx.methods : j < k + 1 <=> j < k \/ j = k
  <2>1. ctx.methods[k] \in Types!Elements(ctx.methods)
    BY <1>1 DEF Types!Elements
  <2>2. class \in STRING /\ class # "" /\ ctx.methods[k] = <<class, self>>
    BY <1>1, <1>2, <2>1, TypeElements
  <2>3. ctx.opaque \subseteq Structs /\ k + 1 \in 1 .. Len(ctx.methods) + 1
        /\ \A j \in DOMAIN ctx.methods : j < k + 1 <=> j < k \/ j = k
    BY <1>1, <1>2, TypeModules
  <2> QED
    BY <2>1, <2>2, <2>3
<1> HIDE DEF class
<1>4. /\ name' \in [Structs -> STRING]
      /\ \A s \in Structs : name'[s] = IF s = self /\ s \in ctx.opaque THEN class ELSE name[s]
  BY <1>1, <1>2, <1>3
<1>5. Types!NamedAfterItsOwn'
  <2> SUFFICES ASSUME NEW s \in DOMAIN name'
               PROVE  \/ name'[s] = ctx.own[s]
                      \/ /\ s \in ctx.opaque
                         /\ \/ <<name'[s], s>> \in Types!Elements(ctx.methods)
                            \/ /\ \A m \in Types!Elements(ctx.methods) : m[2] # s
                               /\ \E c \in DOMAIN ctx.di : Types!IsNamed(c, name'[s]) /\ Types!Describes(c, s)
    BY <1>1, SameTypes DEF Types!NamedAfterItsOwn
  <2>1. s \in Structs /\ s \in DOMAIN name
    BY <1>2, <1>4
  <2>2. CASE s = self /\ s \in ctx.opaque
    BY <1>3, <1>4, <2>1, <2>2
  <2>3. CASE ~(s = self /\ s \in ctx.opaque)
    BY <1>4, <2>1, <2>3 DEF TypeInvariant, Types!NamedAfterItsOwn
  <2> QED
    BY <2>2, <2>3
<1>6. MethodsNameStructs'
  <2> SUFFICES ASSUME NEW j \in DOMAIN ctx.methods, j < k + 1, ctx.methods[j][2] \in ctx.opaque
               PROVE  name'[ctx.methods[j][2]] # ""
    BY <1>1 DEF MethodsNameStructs
  <2>1. ctx.methods[j][2] \in Structs
    BY <1>3
  <2>2. CASE j = k
    BY <1>3, <1>4, <2>1, <2>2
  <2>3. CASE j < k
    <3>1. name[ctx.methods[j][2]] # ""
      BY <1>1, <2>3 DEF TypeInvariant, MethodsNameStructs
    <3> QED
      BY <1>3, <1>4, <2>1, <3>1
  <2> QED
    BY <1>3, <2>2, <2>3
<1>7. Types!Elements(<<>>) = {}
  BY DEF Types!Elements
<1>8. Positions' /\ NamelessAreCollected' /\ OneWalk' /\ VisitsAreComplete'
  BY <1>1, <1>2, <1>3, <1>7 DEF Positions, NamelessAreCollected, OneWalk, VisitsAreComplete
<1> QED
  BY <1>1, <1>4, <1>5, <1>6, <1>8, SameTypes DEF TypeInvariant

LEMMA EndMethodsStep ==
  ASSUME TypeInvariant, Types!EndMethods
  PROVE  TypeInvariant'
<1>1. /\ typePhase = "methods" /\ typePosition = Len(ctx.methods) + 1
      /\ typePhase' = "collect" /\ typePosition' = 1 /\ ctx' = ctx
      /\ UNCHANGED <<name, typeWorklist, structType, diTypeWorklist, visitedTypes>>
  BY DEF Types!EndMethods
<1>2. /\ Types!HasTypes(ctx) /\ typeWorklist = <<>> /\ diTypeWorklist = <<>> /\ visitedTypes = {}
  BY <1>1 DEF TypeInvariant, Positions, NamelessAreCollected, OneWalk, VisitsAreComplete
<1>3. \A k \in DOMAIN ctx.methods : k < typePosition
  BY <1>1, <1>2, TypeModules
<1>4. MethodsNameStructs'
  BY <1>1, <1>3 DEF TypeInvariant, MethodsNameStructs
<1>5. Types!Elements(<<>>) = {} /\ 1 \in 1 .. Len(ctx.declares) + 1
      /\ \A k \in DOMAIN ctx.declares : ~ k < 1
  BY <1>2, TypeModules DEF Types!Elements
<1>6. Positions' /\ NamelessAreCollected' /\ OneWalk' /\ VisitsAreComplete'
  BY <1>1, <1>2, <1>5 DEF Positions, NamelessAreCollected, OneWalk, VisitsAreComplete
<1>7. Types!NamedAfterItsOwn'
  BY <1>1, SameTypes DEF TypeInvariant, Types!NamedAfterItsOwn
<1> QED
  BY <1>1, <1>4, <1>6, <1>7, SameTypes DEF TypeInvariant

(* Steps that name nothing, after the methods.                             *)
LEMMA SameNames ==
  ASSUME TypeInvariant, ctx' = ctx, name' = name, typePhase # "methods"
  PROVE  Types!NamedAfterItsOwn' /\ MethodsNameStructs' /\ name' \in [Structs' -> STRING]
<1>1. Types!NamedAfterItsOwn'
  BY SameTypes DEF TypeInvariant, Types!NamedAfterItsOwn
<1>2. MethodsNameStructs'
  BY DEF TypeInvariant, MethodsNameStructs
<1> QED
  BY <1>1, <1>2, SameTypes DEF TypeInvariant

LEMMA Appended ==
  ASSUME NEW S, NEW list \in Seq(S), NEW e \in S
  PROVE  /\ Append(list, e) \in Seq(S)
         /\ Types!Elements(Append(list, e)) = Types!Elements(list) \cup {e}
<1>1. /\ Append(list, e) \in Seq(S) /\ Len(list) \in Nat
      /\ DOMAIN list = 1 .. Len(list)
      /\ DOMAIN Append(list, e) = 1 .. Len(list) + 1
      /\ \A k \in 1 .. Len(list) : Append(list, e)[k] = list[k]
      /\ Append(list, e)[Len(list) + 1] = e
  OBVIOUS
<1>2. 1 .. Len(list) + 1 = (1 .. Len(list)) \cup {Len(list) + 1}
  BY <1>1
<1> QED
  BY <1>1, <1>2 DEF Types!Elements

LEMMA CollectVariableStep ==
  ASSUME TypeInvariant, Types!CollectVariable
  PROVE  TypeInvariant'
<1> DEFINE k == typePosition
           d == ctx.declares[k]
<1>1. /\ typePhase = "collect" /\ typePhase' = "collect" /\ k \in DOMAIN ctx.declares /\ ctx' = ctx
      /\ typePosition' = k + 1
      /\ typeWorklist' = IF Types!IsNameless(d[1]) THEN Append(typeWorklist, d) ELSE typeWorklist
      /\ UNCHANGED <<name, structType, diTypeWorklist, visitedTypes>>
  BY DEF Types!CollectVariable
<1>2. /\ Types!HasTypes(ctx) /\ typeWorklist \in Seq(Types!Elements(ctx.declares))
      /\ diTypeWorklist = <<>> /\ visitedTypes = {}
  BY <1>1 DEF TypeInvariant, OneWalk, VisitsAreComplete
<1>3. d \in Types!Elements(ctx.declares)
  BY <1>1 DEF Types!Elements
<1>4. /\ k + 1 \in 1 .. Len(ctx.declares) + 1
      /\ \A j \in DOMAIN ctx.declares : j < k + 1 <=> j < k \/ j = k
  BY <1>1, <1>2, TypeModules
<1>5. /\ typeWorklist' \in Seq(Types!Elements(ctx.declares)')
      /\ Types!Elements(typeWorklist)' =
            Types!Elements(typeWorklist) \cup (IF Types!IsNameless(d[1]) THEN {d} ELSE {})
  <2>1. Types!Elements(ctx.declares)' = Types!Elements(ctx.declares)
    BY <1>1 DEF Types!Elements
  <2>2. Types!Elements(typeWorklist)' = Types!Elements(typeWorklist')
    BY DEF Types!Elements
  <2> HIDE DEF d
  <2>3. CASE Types!IsNameless(d[1])
    BY <1>1, <1>2, <1>3, <2>1, <2>2, <2>3, Appended
  <2>4. CASE ~Types!IsNameless(d[1])
    BY <1>1, <1>2, <2>1, <2>2, <2>4
  <2> QED
    BY <2>3, <2>4
<1>6. \A j : Types!IsNameless(ctx.declares[j][1])' <=> Types!IsNameless(ctx.declares[j][1])
  BY <1>1 DEF Types!IsNameless
<1>7. NamelessAreCollected'
  <2>1. ASSUME Types!IsNameless(d[1])
        PROVE  /\ d[1] \in ctx.opaque /\ d[2] \in DITypes
               /\ \A m \in Types!Elements(ctx.methods) : m[2] # d[1]
    <3>1. d[1] \in ctx.opaque /\ name[d[1]] = ""
      BY <2>1 DEF Types!IsNameless
    <3>2. d[2] \in DITypes
      BY <1>2, <1>3, TypeElements
    <3> HIDE DEF d
    <3>3. \A j \in DOMAIN ctx.methods : ctx.methods[j][2] # d[1]
      BY <1>1, <3>1 DEF TypeInvariant, MethodsNameStructs
    <3> QED
      BY <3>1, <3>2, <3>3 DEF Types!Elements
  <2>2. \A p \in Types!Elements(typeWorklist) :
          /\ p \in Types!Elements(ctx.declares) /\ p[1] \in ctx.opaque /\ p[2] \in DITypes
          /\ \A m \in Types!Elements(ctx.methods) : m[2] # p[1]
    BY DEF TypeInvariant, NamelessAreCollected
  <2>3. \A j \in DOMAIN ctx.declares :
          j < k /\ Types!IsNameless(ctx.declares[j][1]) => ctx.declares[j] \in Types!Elements(typeWorklist)
    BY <1>1 DEF TypeInvariant, NamelessAreCollected
  <2>4. /\ Types!Elements(ctx.declares)' = Types!Elements(ctx.declares)
        /\ Types!Elements(ctx.methods)' = Types!Elements(ctx.methods)
    BY <1>1 DEF Types!Elements
  <2>5. \A p \in Types!Elements(typeWorklist)' :
          /\ p \in Types!Elements(ctx.declares) /\ p[1] \in ctx.opaque /\ p[2] \in DITypes
          /\ \A m \in Types!Elements(ctx.methods) : m[2] # p[1]
    <3> HIDE DEF d
    <3> QED
      BY <1>3, <1>5, <2>1, <2>2
  <2>6. \A j \in DOMAIN ctx.declares :
          j < k + 1 /\ Types!IsNameless(ctx.declares[j][1])
            => ctx.declares[j] \in Types!Elements(typeWorklist)'
    BY <1>4, <1>5, <2>3
  <2> QED
    BY <1>1, <1>6, <2>4, <2>5, <2>6, SameTypes DEF NamelessAreCollected
<1>8. Positions' /\ OneWalk' /\ VisitsAreComplete'
  BY <1>1, <1>2, <1>4 DEF Positions, OneWalk, VisitsAreComplete
<1> QED
  BY <1>1, <1>5, <1>7, <1>8, SameTypes, SameNames DEF TypeInvariant

LEMMA EndDeclaresStep ==
  ASSUME TypeInvariant, Types!EndCollect
  PROVE  TypeInvariant'
<1>1. /\ typePhase = "collect" /\ typePosition = Len(ctx.declares) + 1
      /\ typePhase' = "name" /\ typePosition' = 1 /\ ctx' = ctx
      /\ UNCHANGED <<name, typeWorklist, structType, diTypeWorklist, visitedTypes>>
  BY DEF Types!EndCollect
<1>2. /\ Types!HasTypes(ctx) /\ typeWorklist \in Seq(Types!Elements(ctx.declares))
      /\ diTypeWorklist = <<>> /\ visitedTypes = {}
  BY <1>1 DEF TypeInvariant, OneWalk, VisitsAreComplete
<1>3. \A k \in DOMAIN ctx.declares : k < typePosition
  BY <1>1, <1>2, TypeModules
<1>4. NamelessAreCollected'
  BY <1>1, <1>3, SameTypes DEF TypeInvariant, NamelessAreCollected, Types!IsNameless
<1>5. Positions' /\ OneWalk' /\ VisitsAreComplete'
  <2>1. 1 \in 1 .. Len(typeWorklist) + 1 /\ 1 .. 1 - 1 = {}
    BY <1>2
  <2> QED
    BY <1>1, <1>2, <2>1 DEF Positions, OneWalk, VisitsAreComplete
<1> QED
  BY <1>1, <1>4, <1>5, SameTypes, SameNames DEF TypeInvariant

LEMMA OneTypeToGo ==
  ASSUME NEW t, NEW u
  PROVE  /\ Types!Elements(<<>>) = {} /\ Types!Elements(<<t>>) = {t} /\ <<t>> # <<>>
         /\ Head(<<t>>) = t /\ Tail(<<t>>) = <<>>
         /\ <<>> \o <<>> = <<>> /\ <<>> \o <<u>> = <<u>>
<1>1. Types!Elements(<<>>) = {} /\ Types!Elements(<<t>>) = {t}
  BY DEF Types!Elements
<1>2. <<t>> # <<>> /\ Head(<<t>>) = t /\ Tail(<<t>>) = <<>>
  OBVIOUS
<1>3. <<>> \o <<>> = <<>> /\ <<>> \o <<u>> = <<u>>
  OBVIOUS
<1> QED
  BY <1>1, <1>2, <1>3

(* The worklist does not grow while its structs are named.                 *)
LEMMA SameWorklist ==
  ASSUME TypeInvariant, ctx' = ctx, typeWorklist' = typeWorklist,
         typePhase \in {"name", "walk"}, typePhase' \in {"name", "walk"},
         \A k \in DOMAIN ctx.declares :
           Types!IsNameless(ctx.declares[k][1])' => Types!IsNameless(ctx.declares[k][1])
  PROVE  NamelessAreCollected'
BY SameTypes DEF TypeInvariant, NamelessAreCollected

LEMMA Collected1 ==
  ASSUME TypeInvariant, typePhase \in {"name", "walk"}, NEW k \in DOMAIN typeWorklist
  PROVE  LET p == typeWorklist[k]
         IN /\ p \in Types!Elements(ctx.declares) /\ p[1] \in ctx.opaque /\ p[1] \in Structs
            /\ p[2] \in DITypes
            /\ \A m \in Types!Elements(ctx.methods) : m[2] # p[1]
<1>1. typeWorklist[k] \in Types!Elements(typeWorklist)
  BY DEF Types!Elements
<1> QED
  BY <1>1, TypeModules DEF TypeInvariant, NamelessAreCollected

LEMMA TakePairStep ==
  ASSUME TypeInvariant, Types!TakePair
  PROVE  TypeInvariant'
<1> SUFFICES ASSUME NEW k, NEW s, NEW d,
                    k = typePosition, s = typeWorklist[k][1], d = typeWorklist[k][2]
             PROVE  TypeInvariant'
  OBVIOUS
<1>1. /\ typePhase = "name" /\ k \in DOMAIN typeWorklist /\ ctx' = ctx /\ typePosition' = k + 1
      /\ structType' = s
      /\ UNCHANGED <<name, typeWorklist, visitedTypes>>
      /\ IF name[s] # "" THEN typePhase' = typePhase /\ diTypeWorklist' = diTypeWorklist
         ELSE diTypeWorklist' = <<d>> /\ typePhase' = "walk"
  BY DEF Types!TakePair
<1>2. /\ Types!HasTypes(ctx) /\ typeWorklist \in Seq(Types!Elements(ctx.declares))
      /\ diTypeWorklist = <<>>
  BY <1>1 DEF TypeInvariant, OneWalk
<1>3. d \in DITypes
  BY <1>1, Collected1
<1>4. /\ k \in 1 .. Len(typeWorklist) /\ k + 1 \in 1 .. Len(typeWorklist) + 1
      /\ typePosition' - 1 = k
      /\ 1 .. k = (1 .. k - 1) \cup {k}
  <2>1. Len(typeWorklist) \in Nat /\ DOMAIN typeWorklist = 1 .. Len(typeWorklist)
    BY <1>2
  <2>2. k \in 1 .. Len(typeWorklist)
    BY <1>1, <2>1
  <2>3. \A l \in Nat : 1 .. l + 1 = (1 .. l) \cup {l + 1}
    OBVIOUS
  <2>4. k + 1 \in 1 .. Len(typeWorklist) + 1 /\ k - 1 \in Nat /\ k - 1 + 1 = k /\ k + 1 - 1 = k
    BY <2>1, <2>2
  <2>5. 1 .. k = (1 .. k - 1) \cup {k}
    BY <2>3, <2>4
  <2>6. typePosition' = k + 1
    BY <1>1
  <2>7. typePosition' - 1 = k
    BY <2>4, <2>6
  <2> QED
    BY <2>2, <2>4, <2>5, <2>7
<1>5. Positions'
  BY <1>1, <1>4 DEF Positions
<1>6. NamelessAreCollected'
  <2>1. \A j : Types!IsNameless(ctx.declares[j][1])' <=> Types!IsNameless(ctx.declares[j][1])
    BY <1>1 DEF Types!IsNameless
  <2> QED
    BY <1>1, <2>1, SameWorklist
<1>7. OneWalk'
  <2>1. CASE name[s] # ""
    BY <1>1, <1>2, <2>1 DEF OneWalk
  <2>2. CASE name[s] = ""
    <3>1. Types!LeadsTo(d, d)
      BY <1>3, Leads
    <3>2. typePhase' = "walk" /\ diTypeWorklist' = <<d>>
      BY <1>1, <2>2
    <3>3. \A t, u : Types!LeadsTo(t, u)' <=> Types!LeadsTo(t, u)
      BY <1>1, SameTypes
    <3>4. \E t \in DITypes' : diTypeWorklist' = <<t>> /\ Types!LeadsTo(d, t)'
      <4>1. DITypes' = DITypes
        BY <1>1, SameTypes
      <4> QED
        BY <1>3, <3>1, <3>2, <3>3, <4>1
    <3> QED
      BY <1>1, <1>4, <2>2, <3>2, <3>4 DEF OneWalk
  <2> QED
    BY <2>1, <2>2
<1>8. VisitsAreComplete'
  <2>1. \A t \in visitedTypes : BasesOf(t) \subseteq visitedTypes
    BY <1>2, OneTypeToGo DEF TypeInvariant, VisitsAreComplete
  <2>2. \A j \in 1 .. k - 1 : name[typeWorklist[j][1]] # "" \/ typeWorklist[j][2] \in visitedTypes
    BY <1>1, <1>2, OneTypeToGo DEF TypeInvariant, VisitsAreComplete
  <2>3. name[s] # "" \/ d \in Types!Elements(diTypeWorklist)'
    <3>1. Types!Elements(diTypeWorklist)' = Types!Elements(diTypeWorklist')
      BY DEF Types!Elements
    <3> QED
      BY <1>1, <3>1, OneTypeToGo
  <2>4. \A j \in 1 .. k :
          name[typeWorklist[j][1]] # "" \/ typeWorklist[j][2] \in visitedTypes \cup Types!Elements(diTypeWorklist)'
    BY <1>4, <2>2, <2>3
  <2>5. typePhase' \in {"name", "walk"} /\ typePosition' - 1 = k
    BY <1>1, <1>4
  <2>6. \A c \in visitedTypes : IsComposite(c) /\ ctx.di[c].name # "" =>
          \E u \in ctx.opaque : name[u] = ctx.di[c].name /\ Types!Describes(c, u)
    BY DEF TypeInvariant, VisitsAreComplete
  <2>7. visitedTypes \subseteq DITypes
    BY DEF TypeInvariant, VisitsAreComplete
  <2> QED
    BY <1>1, <2>1, <2>4, <2>5, <2>6, <2>7, SameTypes DEF VisitsAreComplete
<1>9. typePhase' \in {"methods", "collect", "name", "walk"} /\ typeWorklist' \in Seq(Types!Elements(ctx.declares)')
  <2>1. Types!Elements(ctx.declares)' = Types!Elements(ctx.declares)
    BY <1>1 DEF Types!Elements
  <2> QED
    BY <1>1, <1>2, <2>1
<1> QED
  BY <1>1, <1>5, <1>6, <1>7, <1>8, <1>9, SameTypes, SameNames DEF TypeInvariant

LEMMA EndWalkStep ==
  ASSUME TypeInvariant, Types!EndWalk
  PROVE  TypeInvariant'
<1>1. /\ typePhase = "walk" /\ typePhase' = "name" /\ diTypeWorklist = <<>> /\ ctx' = ctx
      /\ UNCHANGED <<typePosition, name, typeWorklist, structType, diTypeWorklist, visitedTypes>>
  BY DEF Types!EndWalk
<1>2. NamelessAreCollected'
  <2>1. \A j : Types!IsNameless(ctx.declares[j][1])' <=> Types!IsNameless(ctx.declares[j][1])
    BY <1>1 DEF Types!IsNameless
  <2> QED
    BY <1>1, <2>1, SameWorklist
<1>3. Positions' /\ OneWalk'
  BY <1>1 DEF TypeInvariant, Positions, OneWalk
<1>4. VisitsAreComplete'
  BY <1>1, SameTypes DEF TypeInvariant, VisitsAreComplete
<1>5. typeWorklist' \in Seq(Types!Elements(ctx.declares)')
  BY <1>1 DEF TypeInvariant, Types!Elements
<1> QED
  BY <1>1, <1>2, <1>3, <1>4, <1>5, SameTypes, SameNames DEF TypeInvariant

(* The step of the walk for s, of pair k, that has got to a composite.     *)
GivesName(t, k, s) ==
  /\ typePhase = "walk" /\ t \in DITypes /\ IsComposite(t)
  /\ k \in DOMAIN typeWorklist /\ s = typeWorklist[k][1]
  /\ name[s] = "" /\ Types!LeadsTo(typeWorklist[k][2], t)
  /\ name' = [name EXCEPT ![s] = ctx.di[t].name]
  /\ ctx' = ctx

LEMMA VisitNames ==
  ASSUME TypeInvariant, NEW t, NEW k, NEW s, GivesName(t, k, s)
  PROVE  /\ name' \in [Structs' -> STRING] /\ s \in ctx.opaque
         /\ Types!Describes(t, s)
         /\ name'[s] = ctx.di[t].name
         /\ \A u : name[u] # "" /\ u \in Structs => name'[u] = name[u]
         /\ Types!NamedAfterItsOwn' /\ MethodsNameStructs'
         /\ \A u : Types!IsNameless(u)' => Types!IsNameless(u)
<1> USE DEF GivesName
<1>1. /\ typeWorklist[k] \in Types!Elements(ctx.declares) /\ s \in ctx.opaque /\ s \in Structs
      /\ \A m \in Types!Elements(ctx.methods) : m[2] # s
  BY Collected1
<1>2. Types!HasTypes(ctx) /\ name \in [Structs -> STRING] /\ Types!NamedAfterItsOwn
      /\ MethodsNameStructs
  BY DEF TypeInvariant
<1>3. ctx.di[t].name \in STRING
  BY <1>2, Bases
<1>4. /\ name' \in [Structs' -> STRING] /\ name'[s] = ctx.di[t].name
      /\ DOMAIN name = Structs /\ DOMAIN name' = Structs
      /\ \A u \in Structs : u # s => name'[u] = name[u]
  <2>1. Structs' = Structs
    BY SameTypes
  <2> QED
    BY <1>1, <1>2, <1>3, <2>1
<1>5. Types!Describes(t, s)
  BY <1>1 DEF Types!Describes
<1>6. Types!IsNamed(t, name'[s])
  BY <1>4 DEF Types!IsNamed, IsComposite
<1>7. Types!NamedAfterItsOwn'
  <2> SUFFICES ASSUME NEW u \in Structs
               PROVE  \/ name'[u] = ctx.own[u]
                      \/ /\ u \in ctx.opaque
                         /\ \/ <<name'[u], u>> \in Types!Elements(ctx.methods)
                            \/ /\ \A m \in Types!Elements(ctx.methods) : m[2] # u
                               /\ \E c \in DITypes : Types!IsNamed(c, name'[u]) /\ Types!Describes(c, u)
    BY <1>4, SameTypes DEF Types!NamedAfterItsOwn, DITypes
  <2>1. CASE u = s
    BY <1>1, <1>5, <1>6, <2>1
  <2>2. CASE u # s
    BY <1>2, <1>4, <2>2 DEF Types!NamedAfterItsOwn, DITypes
  <2> QED
    BY <2>1, <2>2
<1>8. MethodsNameStructs'
  <2> SUFFICES ASSUME NEW j \in DOMAIN ctx.methods, ctx.methods[j][2] \in ctx.opaque
               PROVE  name'[ctx.methods[j][2]] # ""
    BY DEF MethodsNameStructs
  <2>1. name[ctx.methods[j][2]] # ""
    BY <1>2 DEF MethodsNameStructs
  <2>2. ctx.methods[j][2] \in Structs
    BY <1>2, TypeModules
  <2> QED
    BY <1>4, <2>1, <2>2
<1>9. \A u : Types!IsNameless(u)' => Types!IsNameless(u)
  <2>1. ctx.opaque \subseteq Structs
    BY <1>2, TypeModules
  <2> QED
    BY <1>4, <2>1 DEF Types!IsNameless
<1>10. \A u : name[u] # "" /\ u \in Structs => name'[u] = name[u]
  BY <1>4
<1> QED
  BY <1>1, <1>4, <1>5, <1>7, <1>8, <1>9, <1>10

LEMMA VisitTypeStep ==
  ASSUME TypeInvariant, Types!VisitType
  PROVE  TypeInvariant'
<1>1. PICK t \in DITypes : /\ diTypeWorklist = <<t>>
                           /\ Types!LeadsTo(typeWorklist[typePosition - 1][2], t)
  BY DEF TypeInvariant, OneWalk, Types!VisitType
<1>2. PICK k, s : k = typePosition - 1 /\ s = structType
  OBVIOUS
<1>3. /\ k \in DOMAIN typeWorklist /\ structType = typeWorklist[k][1] /\ name[structType] = ""
      /\ Types!LeadsTo(typeWorklist[k][2], t)
  BY <1>1, <1>2 DEF TypeInvariant, OneWalk, Types!VisitType
<1>4. /\ typePhase = "walk" /\ typePhase' = "walk" /\ ctx' = ctx
      /\ UNCHANGED <<typePosition, typeWorklist, structType>>
      /\ visitedTypes' = visitedTypes \cup {t}
  BY <1>1, OneTypeToGo DEF Types!VisitType
<1>5. /\ Types!HasTypes(ctx) /\ visitedTypes \subseteq DITypes
      /\ Types!Elements(diTypeWorklist) = {t}
  BY <1>1, OneTypeToGo DEF TypeInvariant, VisitsAreComplete
<1>6. typeWorklist' \in Seq(Types!Elements(ctx.declares)') /\ Positions'
  BY <1>4 DEF TypeInvariant, Types!Elements, Positions
(* What has been visited, if the rest is as it should be.                  *)
<1>7. ASSUME BasesOf(t) \subseteq visitedTypes' \cup Types!Elements(diTypeWorklist)',
             IsComposite(t) /\ ctx.di[t].name # "" =>
               \E x \in ctx.opaque : name'[x] = ctx.di[t].name /\ Types!Describes(t, x),
             \A u : name[u] # "" /\ u \in Structs => name'[u] = name[u]
      PROVE  VisitsAreComplete'
  <2>1. \A u \in visitedTypes' : BasesOf(u) \subseteq visitedTypes' \cup Types!Elements(diTypeWorklist)'
    BY <1>4, <1>5, <1>7 DEF TypeInvariant, VisitsAreComplete
  <2>2. \A c \in visitedTypes : IsComposite(c) /\ ctx.di[c].name # "" =>
          \E x \in ctx.opaque : name'[x] = ctx.di[c].name /\ Types!Describes(c, x)
    <3>1. \A c \in visitedTypes : IsComposite(c) /\ ctx.di[c].name # "" =>
            \E x \in ctx.opaque : name[x] = ctx.di[c].name /\ Types!Describes(c, x)
      BY DEF TypeInvariant, VisitsAreComplete
    <3>2. ctx.opaque \subseteq Structs
      BY <1>5, TypeModules
    <3> QED
      BY <1>7, <3>1, <3>2
  <2>3. \A c \in visitedTypes' : IsComposite(c) /\ ctx.di[c].name # "" =>
          \E x \in ctx.opaque : name'[x] = ctx.di[c].name /\ Types!Describes(c, x)
    BY <1>4, <1>7, <2>2
  <2>4. ASSUME NEW j \in 1 .. k
        PROVE  name'[typeWorklist[j][1]] # "" \/ typeWorklist[j][2] \in visitedTypes'
    <3>1. name[typeWorklist[j][1]] # "" \/ typeWorklist[j][2] \in visitedTypes'
      BY <1>2, <1>4, <1>5 DEF TypeInvariant, VisitsAreComplete
    <3>2. j \in DOMAIN typeWorklist
      <4>1. typeWorklist \in Seq(Types!Elements(ctx.declares))
        BY DEF TypeInvariant
      <4>2. Len(typeWorklist) \in Nat /\ DOMAIN typeWorklist = 1 .. Len(typeWorklist)
        BY <4>1
      <4>3. k \in 1 .. Len(typeWorklist)
        BY <1>3, <4>2
      <4> QED
        BY <4>2, <4>3
    <3>3. typeWorklist[j][1] \in Structs
      BY <1>4, <3>2, Collected1
    <3> QED
      BY <1>7, <3>1, <3>3
  <2>5. typePosition' - 1 = k
    BY <1>2, <1>4
  <2> QED
    BY <1>4, <1>5, <2>1, <2>3, <2>4, <2>5, SameTypes DEF VisitsAreComplete
<1>8. CASE t \in visitedTypes
  <2>1. diTypeWorklist' = <<>> /\ name' = name
    BY <1>1, <1>8, OneTypeToGo DEF Types!VisitType
  <2>2. OneWalk'
    BY <1>4, <2>1 DEF TypeInvariant, OneWalk
  <2>3. NamelessAreCollected'
    BY <1>4, <2>1, SameWorklist DEF Types!IsNameless
  <2>4. VisitsAreComplete'
    <3>1. BasesOf(t) \subseteq visitedTypes'
      BY <1>4, <1>5, <1>8 DEF TypeInvariant, VisitsAreComplete
    <3>2. IsComposite(t) /\ ctx.di[t].name # "" =>
            \E x \in ctx.opaque : name'[x] = ctx.di[t].name /\ Types!Describes(t, x)
      BY <1>8, <2>1 DEF TypeInvariant, VisitsAreComplete
    <3> QED
      BY <1>7, <2>1, <3>1, <3>2
  <2> QED
    BY <1>4, <1>6, <2>1, <2>2, <2>3, <2>4, SameTypes, SameNames DEF TypeInvariant
<1>9. CASE t \notin visitedTypes /\ IsComposite(t)
  <2>1. diTypeWorklist' = <<>> /\ name' = [name EXCEPT ![s] = ctx.di[t].name]
        /\ BasesOf(t) = {}
    <3>1. Types!Followed(t) = <<>> /\ BasesOf(t) = {}
      BY <1>5, <1>9, Bases
    <3> QED
      BY <1>1, <1>2, <1>9, <3>1, OneTypeToGo DEF Types!VisitType, IsComposite
  <2>2. /\ name' \in [Structs' -> STRING] /\ s \in ctx.opaque
        /\ Types!Describes(t, s)
        /\ name'[s] = ctx.di[t].name
        /\ \A u : name[u] # "" /\ u \in Structs => name'[u] = name[u]
        /\ Types!NamedAfterItsOwn' /\ MethodsNameStructs'
        /\ \A u : Types!IsNameless(u)' => Types!IsNameless(u)
    <3>1. GivesName(t, k, s)
      BY <1>2, <1>3, <1>4, <1>9, <2>1 DEF GivesName
    <3> QED
      BY <3>1, VisitNames
  <2>3. OneWalk'
    BY <1>4, <2>1 DEF TypeInvariant, OneWalk
  <2>4. NamelessAreCollected'
    BY <1>4, <2>2, SameWorklist
  <2>5. VisitsAreComplete'
    BY <1>7, <2>1, <2>2
  <2> QED
    BY <1>4, <1>6, <2>2, <2>3, <2>4, <2>5, SameTypes DEF TypeInvariant
<1>10. CASE t \notin visitedTypes /\ ~IsComposite(t)
  <2>1. diTypeWorklist' = Types!Followed(t) /\ name' = name
    <3>1. diTypeWorklist' = <<>> \o Types!Followed(t) /\ name' = name
      BY <1>1, <1>10, OneTypeToGo DEF Types!VisitType, IsComposite
    <3> QED
      BY <1>5, <3>1, Bases, OneTypeToGo
  <2>2. OneWalk'
    <3>1. CASE Types!Followed(t) = <<>>
      BY <1>4, <2>1, <3>1 DEF TypeInvariant, OneWalk
    <3>2. ASSUME NEW b \in DITypes, Types!Followed(t) = <<b>>, BasesOf(t) = {b}
          PROVE  OneWalk'
      <4>1. Types!LeadsTo(typeWorklist[k][2], b)
        BY <1>3, <1>4, <3>2, Collected1, Leads
      <4>2. Types!LeadsTo(typeWorklist[k][2], b)' /\ DITypes' = DITypes
        BY <1>4, <4>1, SameTypes
      <4>3. diTypeWorklist' = <<b>>
        BY <2>1, <3>2
      <4>4. typePosition' - 1 = k
        BY <1>2, <1>4
      <4> QED
        BY <1>3, <1>4, <2>1, <4>2, <4>3, <4>4 DEF OneWalk
    <3> QED
      BY <1>5, <3>1, <3>2, Bases
  <2>3. NamelessAreCollected'
    BY <1>4, <2>1, SameWorklist DEF Types!IsNameless
  <2>4. VisitsAreComplete'
    <3>1. Types!Elements(diTypeWorklist)' = Types!Elements(diTypeWorklist')
      BY DEF Types!Elements
    <3> QED
      BY <1>7, <1>10, <2>1, <3>1 DEF BasesOf
  <2> QED
    BY <1>4, <1>6, <2>1, <2>2, <2>3, <2>4, SameTypes, SameNames DEF TypeInvariant
<1> QED
  BY <1>8, <1>9, <1>10

LEMMA TypesNext ==
  ASSUME TypeInvariant, Types!Next
  PROVE  TypeInvariant'
BY NameSelfStep, EndMethodsStep, CollectVariableStep, EndDeclaresStep, TakePairStep,
   VisitTypeStep, EndWalkStep
DEF Types!Next

LEMMA WorklistDone ==
  ASSUME TypeInvariant, Types!Done, NEW k \in DOMAIN typeWorklist
  PROVE  name[typeWorklist[k][1]] # "" \/ typeWorklist[k][2] \in visitedTypes
<1>1. Types!Elements(diTypeWorklist) = {}
  BY OneTypeToGo DEF TypeInvariant, Types!Done, OneWalk
<1>2. typePhase = "name" /\ typePosition = Len(typeWorklist) + 1
  BY DEF Types!Done
<1>3. Len(typeWorklist) \in Nat /\ DOMAIN typeWorklist = 1 .. Len(typeWorklist)
  BY DEF TypeInvariant
<1>4. k \in 1 .. typePosition - 1
  BY <1>2, <1>3
<1> QED
  BY <1>1, <1>2, <1>4 DEF TypeInvariant, VisitsAreComplete

(* When the walks are done, all that a nameless struct is described by has *)
(* been visited, and given its name to another struct.                     *)
LEMMA InvariantNames ==
  ASSUME TypeInvariant
  PROVE  TypesGetTheirNames
<1> SUFFICES ASSUME Types!Done, NEW s \in ctx.opaque, NEW c \in DITypes, name[s] = "",
                    IsComposite(c), Types!Describes(c, s), ~Types!IsNamed(c, "")
             PROVE  \E t \in ctx.opaque \ {s} : Types!IsNamed(c, name[t]) /\ Types!Describes(c, t)
  BY DEF TypesGetTheirNames, TypeInvariant, Types!NamelessWhenShared, DITypes, IsComposite
<1>1. /\ Types!HasTypes(ctx) /\ typePhase = "name" /\ typePosition = Len(typeWorklist) + 1
      /\ typeWorklist \in Seq(Types!Elements(ctx.declares))
      /\ Types!Elements(diTypeWorklist) = {}
  BY OneTypeToGo DEF TypeInvariant, Types!Done, OneWalk
<1>2. PICK d \in Types!Elements(ctx.declares) : d[1] = s /\ Types!LeadsTo(d[2], c)
  BY DEF Types!Describes
<1>3. PICK k \in DOMAIN typeWorklist : typeWorklist[k] = d
  <2>1. Types!IsNameless(d[1])
    BY <1>2 DEF Types!IsNameless
  <2>2. PICK j \in DOMAIN ctx.declares : ctx.declares[j] = d
    BY DEF Types!Elements
  <2>3. ctx.declares[j] \in Types!Elements(typeWorklist)
    BY <1>1, <2>1, <2>2 DEF TypeInvariant, NamelessAreCollected
  <2>4. d \in Types!Elements(typeWorklist)
    BY <2>2, <2>3
  <2> QED
    BY <2>4 DEF Types!Elements
<1>4. d[2] \in visitedTypes
  BY <1>2, <1>3, WorklistDone
<1>5. c \in visitedTypes
  <2>1. visitedTypes \subseteq DITypes /\ \A t \in visitedTypes : BasesOf(t) \subseteq visitedTypes
    BY <1>1 DEF TypeInvariant, VisitsAreComplete
  <2>2. d[2] \in DITypes
    BY <1>1, <1>2, TypeElements
  <2> QED
    BY <1>2, <1>4, <2>1, <2>2, Leads
<1>6. ctx.di[c].name # ""
  BY DEF Types!IsNamed, IsComposite
<1>7. PICK t \in ctx.opaque : name[t] = ctx.di[c].name /\ Types!Describes(c, t)
  BY <1>5, <1>6 DEF TypeInvariant, VisitsAreComplete
<1>8. t # s
  BY <1>6, <1>7
<1> QED
  BY <1>7, <1>8 DEF Types!IsNamed, IsComposite

----------------------------------------------------------------------------
(* The types are named before the strings are inlined, and neither touches *)
(* what the other is about.                                                *)
LEMMA TransformInvariant == TransformSpec => [](StringInvariant /\ TypeInvariant)
<1>1. TransformInit => StringInvariant /\ TypeInvariant
  BY StringsInit, TypesInit DEF TransformInit, StringInit
<1>2. StringInvariant /\ TypeInvariant /\ [TransformNext]_transformVars
        => (StringInvariant /\ TypeInvariant)'
  <2> SUFFICES ASSUME StringInvariant, TypeInvariant, [TransformNext]_transformVars
               PROVE  StringInvariant' /\ TypeInvariant'
    OBVIOUS
  <2>1. CASE RenameOpaqueObjCTypes
    BY <2>1, TypesNext, StringsStutter DEF RenameOpaqueObjCTypes
  <2>2. CASE InlineGlobalStrings
    BY <2>2, StringsNext, TypesStutter DEF InlineGlobalStrings
  <2>3. CASE UNCHANGED transformVars
    <3>1. UNCHANGED stringVars /\ UNCHANGED typeVars
      BY <2>3 DEF transformVars
    <3>2. ctx' = ctx
      BY <3>1 DEF stringVars
    <3> QED
      BY <3>1, <3>2, StringsStutter, TypesStutter
  <2> QED
    BY <2>1, <2>2, <2>3 DEF TransformNext
<1> QED
  BY <1>1, <1>2, PTL DEF TransformSpec

(* For every module whose debug types and methods are as HasTypes says:    *)
(* a struct that renameOpaqueObjCTypes gives a name to is opaque, and the  *)
(* name is that of a class whose method takes it for self or of the        *)
(* composite that a variable of it leads to; and it leaves a struct that   *)
(* is described by a name without one only if another got that name.       *)
THEOREM NamesAreOwn == TransformSpec => []TypesGetTheirNames
BY TransformInvariant, InvariantNames, PTL

(* For every module: what the emitter shows for a load, a stored value or  *)
(* an argument is a string if and only if the program refers to its start, *)
(* and it is that string.                                                  *)
THEOREM LiteralsRight == TransformSpec => []LiteralsAreStrings
BY TransformInvariant, InvariantStrings, PTL

(* For every module: the emitter joins no null node for an operand, and    *)
(* the assertion of visitStoreInst fails for exactly the stores whose      *)
(* pointer is a string and whose value is none.                            *)
THEOREM NodesForOperands == TransformSpec => []OperandsHaveNodes
BY TransformInvariant, InvariantStrings, PTL

=============================================================================
