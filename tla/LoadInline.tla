----------------------------- MODULE LoadInline -----------------------------
(***************************************************************************)
(* LoadInlinePass::run (lib/Transforms/CustomPasses.cpp): decides which    *)
(* instructions of a function get the metadata "shiftleft.inline", so that *)
(* the CPG shows them inside the expressions that use them instead of as   *)
(* statements of their own.                                                *)
(*                                                                         *)
(* Every basic block is scanned forward once, to find for every load the   *)
(* first instruction that may overwrite what it reads; then the loads of   *)
(* the block are decided one after the other.                              *)
(***************************************************************************)
EXTENDS InlineTrees

CONSTANT Functions        \* the functions the pass may be given

ASSUME FunctionsAssumption == \A f \in Functions : WellFormed(f)

VARIABLES
  fn,                     \* the function being transformed
  marked,                 \* the instructions that carry the metadata
  phase,
  blk,                    \* the block of the outer loop
  idx,                    \* the next instruction of the scan
  instNumber,             \* the instructions numbered in this block
  unspoilt,               \* candidates nothing has overwritten yet
  firstSpoiler,           \* candidate -> first instruction that overwrites it
  toInline                \* candidates that are still to be decided

vars == <<fn, marked, phase, blk, idx, instNumber, unspoilt, firstSpoiler, toInline>>

NoSpoilers == [l \in {} |-> 0]

InBlock(b) == {i \in Insts(fn) : fn.block[i] = b}

(* DenseMap::insert of every key of K with value v: a key that is present  *)
(* keeps its value.                                                        *)
Insert(map, K, v) ==
  [k \in DOMAIN map \cup K |-> IF k \in DOMAIN map THEN map[k] ELSE v]

----------------------------------------------------------------------------
(* Ways in which the tests below could be wrong: they look at the load     *)
(* itself and not at the expressions it is part of, forget a condition, or *)
(* leave the order of the decisions to the hash map.                       *)
DirectlyUsedOutsideBlock(i) ==
  \E u \in Users(fn, i) : fn.block[u] # fn.block[i]

DirectUseNumbers(i) == Users(fn, i) \cap instNumber

OwnSpoilNumbers(i) == {firstSpoiler[k] : k \in {i} \cap DOMAIN firstSpoiler}

AnyLoad(i) == fn.kind[i] = "load"

InAnyOrder(S) == S

----------------------------------------------------------------------------
(* isUsedoutsideBB: the walk starts over from every inlined user, with the *)
(* block of that user.                                                     *)
UsedOutsideBlock(i) ==
  \E k \in Up(fn, marked, i) : \E u \in Users(fn, k) : fn.block[u] # fn.block[k]

(* usedUntil is the largest member of this set, or -1.                     *)
UseNumbers(i) == Uses(fn, marked, i) \cap instNumber

(* validUntil is the smallest member of this set, or 1 << 30.              *)
SpoilNumbers(i) ==
  {firstSpoiler[k] : k \in Down(fn, marked, i) \cap DOMAIN firstSpoiler}

(* usedUntil(i) <= validUntil(i), and an off-by-one.                       *)
MayInlineStrictly(i) == \A u \in UseNumbers(i), v \in SpoilNumbers(i) : u < v

MayInline(i) == \A u \in UseNumbers(i), v \in SpoilNumbers(i) : u <= v

(* load->mayWriteToMemory() is what sets a volatile load apart.            *)
EvenIfVolatile(i) == fn.kind[i] \in {"load", "volatile"} /\ ~UsedOutsideBlock(i)

IsCandidate(i) == fn.kind[i] = "load" /\ ~UsedOutsideBlock(i)

(* The candidates among U that instruction i may overwrite.                *)
SpoiltBy(i, U) == {l \in U : <<i, l>> \in fn.mods}

(* std::sort by instruction number.                                        *)
Lowest(S) == {l \in S : \A k \in S : l <= k}

----------------------------------------------------------------------------
Init ==
  /\ fn \in Functions
  /\ marked = {}
  /\ phase = "address"
  /\ blk = 0
  /\ idx = 1
  /\ instNumber = {}
  /\ unspoilt = {}
  /\ firstSpoiler = NoSpoilers
  /\ toInline = {}

(* GEPs, address-space casts and pointer-to-pointer casts of the whole     *)
(* function are marked before any block is scanned.                        *)
MarkAddresses ==
  /\ phase = "address"
  /\ marked' = Forced(fn)
  /\ phase' = "block"
  /\ UNCHANGED <<fn, blk, idx, instNumber, unspoilt, firstSpoiler, toInline>>

(* The outer loop: the next block, in layout order, starts with clean maps.*)
EnterBlock ==
  /\ phase = "block"
  /\ idx <= fn.n
  /\ blk' = fn.block[idx]
  /\ instNumber' = {}
  /\ unspoilt' = {}
  /\ firstSpoiler' = NoSpoilers
  /\ toInline' = {}
  /\ phase' = "scan"
  /\ UNCHANGED <<fn, marked, idx>>

ScanInstruction ==
  /\ phase = "scan"
  /\ idx \in InBlock(blk)
  /\ LET candidates == unspoilt \cup {l \in {idx} : IsCandidate(l)}
         spoilt == SpoiltBy(idx, candidates)
     IN /\ firstSpoiler' = Insert(firstSpoiler, spoilt, idx)
        /\ unspoilt' = candidates \ spoilt
  /\ instNumber' = instNumber \cup {idx}
  /\ idx' = idx + 1
  /\ UNCHANGED <<fn, marked, phase, blk, toInline>>

(* Nothing in the block overwrites what is left: its end counts as the     *)
(* first spoiler. Then the candidates are collected for the decisions.     *)
EndScan ==
  /\ phase = "scan"
  /\ idx \notin InBlock(blk)
  /\ firstSpoiler' = Insert(firstSpoiler, unspoilt, idx)
  /\ toInline' = DOMAIN firstSpoiler'
  /\ phase' = "decide"
  /\ UNCHANGED <<fn, marked, blk, idx, instNumber, unspoilt>>

DecideLoad ==
  /\ phase = "decide"
  /\ \E l \in Lowest(toInline) :
       /\ marked' = marked \cup {k \in {l} : MayInline(k)}
       /\ toInline' = toInline \ {l}
  /\ UNCHANGED <<fn, phase, blk, idx, instNumber, unspoilt, firstSpoiler>>

LeaveBlock ==
  /\ phase = "decide"
  /\ toInline = {}
  /\ phase' = "block"
  /\ UNCHANGED <<fn, marked, blk, idx, instNumber, unspoilt, firstSpoiler, toInline>>

Finish ==
  /\ phase = "block"
  /\ idx > fn.n
  /\ phase' = "done"
  /\ UNCHANGED <<fn, marked, blk, idx, instNumber, unspoilt, firstSpoiler, toInline>>

Next ==
  \/ MarkAddresses \/ EnterBlock \/ ScanInstruction \/ EndScan
  \/ DecideLoad \/ LeaveBlock \/ Finish

Spec == Init /\ [][Next]_vars

----------------------------------------------------------------------------
(* Every variable keeps its type; firstSpoiler maps loads of the current   *)
(* block to later instructions or to the block's end.                      *)
TypeOK ==
  /\ WellFormed(fn)
  /\ marked \subseteq Loads(fn) \cup Forced(fn)
  /\ phase \in {"address", "block", "scan", "decide", "done"}
  /\ blk \in Nat
  /\ idx \in 1 .. fn.n + 1
  /\ instNumber \subseteq Insts(fn)
  /\ unspoilt \subseteq Loads(fn)
  /\ DOMAIN firstSpoiler \subseteq Loads(fn)
  /\ firstSpoiler \in [DOMAIN firstSpoiler -> 1 .. fn.n + 1]
  /\ toInline \subseteq DOMAIN firstSpoiler

(* However deep the expressions get that the marks build (a load inside an *)
(* address inside a load ...), every inlined load is evaluated only where  *)
(* memory still holds what it read, and only in its own block: the load    *)
(* chain of the comment at CustomPasses.cpp:173 and all others.            *)
InlinedReadsUnspoilt == Clean(fn, marked)

(***************************************************************************)
(* The invariant behind it, in parts. Where the scan is: the blocks before *)
(* the current one are done, and every instruction passed has its number.  *)
(***************************************************************************)
ScanPosition ==
  /\ phase \in {"scan", "decide"} =>
       \A i \in Insts(fn) : i < idx =>
         fn.block[i] <= blk /\ (fn.block[i] = blk => i \in instNumber)
  /\ idx <= fn.n =>
       /\ phase = "scan" => blk <= fn.block[idx]
       /\ phase = "decide" => blk < fn.block[idx]
       /\ phase = "block" => \A i \in Insts(fn) : i < idx => fn.block[i] < fn.block[idx]

(* Which loads can be marked by now.                                       *)
MarkedSoFar ==
  /\ phase = "address" =>
       idx = 1 /\ marked = {} /\ unspoilt = {} /\ DOMAIN firstSpoiler = {}
  /\ \A l \in marked \cap Loads(fn) :
       /\ l < idx
       /\ phase = "scan" => fn.block[l] < blk
       /\ phase = "decide" /\ fn.block[l] = blk => l \in DOMAIN firstSpoiler

(* No inlined load and no candidate is part of an expression in another    *)
(* block.                                                                  *)
NoEscape ==
  \A l \in (marked \cap Loads(fn)) \cup unspoilt \cup DOMAIN firstSpoiler :
    \A u \in Uses(fn, marked, l) : fn.block[u] = fn.block[l]

(* firstSpoiler has the first spoilers.                                    *)
UnspoiltUntil(l, p) ==
  /\ fn.block[l] = blk /\ l < p /\ p <= idx
  /\ \A w \in Insts(fn) : l < w /\ w < p => <<w, l>> \notin fn.mods

SpoilersAreFirst ==
  phase \in {"scan", "decide"} =>
    /\ phase = "decide" => unspoilt \subseteq DOMAIN firstSpoiler
    /\ \A l \in unspoilt : UnspoiltUntil(l, idx)
    /\ \A l \in DOMAIN firstSpoiler : UnspoiltUntil(l, firstSpoiler[l])

UsedBeforeSpoilt ==
  phase = "decide" =>
    \A l \in marked \cap DOMAIN firstSpoiler :
      \A u \in Uses(fn, marked, l) : u <= firstSpoiler[l]

PassInvariant ==
  /\ ScanPosition
  /\ MarkedSoFar
  /\ NoEscape
  /\ SpoilersAreFirst
  /\ UsedBeforeSpoilt
  /\ InlinedReadsUnspoilt

(* The pass gives up nothing it could have inlined: a load that ends up    *)
(* unmarked cannot be marked next to the ones it did inline.               *)
NoMissedLoad ==
  phase = "done" =>
    \A l \in Loads(fn) \ marked : ~Clean(fn, marked \cup {l})

(* Which loads win does not depend on the order in which the pointer-keyed *)
(* maps are walked ("this should be reproducible", CustomPasses.cpp:183):  *)
(* it is the loads that come first. Those before a load decide about it,   *)
(* and one set of marks alone is decided in that way.                      *)
FirstComeFirstInlined(m) ==
  /\ Forced(fn) \subseteq m /\ m \subseteq Forced(fn) \cup Loads(fn)
  /\ \A l \in Loads(fn) :
       l \in m <=> Clean(fn, {k \in m : k \in Forced(fn) \/ k < l} \cup {l})

Reproducible ==
  phase = "done" => {m \in SUBSET Insts(fn) : FirstComeFirstInlined(m)} = {marked}

(* The pass implements the promise of InlineSpec.                          *)
Promise == INSTANCE InlineSpec
ImplementsInlineSpec == Promise!ASpec

=============================================================================
