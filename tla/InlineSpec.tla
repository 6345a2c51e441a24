----------------------------- MODULE InlineSpec -----------------------------
(***************************************************************************)
(* What load inlining promises. Marks are never taken back; besides the    *)
(* address computations, which are always inlined, loads are inlined one   *)
(* at a time, and only when every inlined load can still be evaluated      *)
(* where it is used.                                                       *)
(***************************************************************************)
EXTENDS InlineTrees

VARIABLES fn, marked

AInit == marked = {}

InlineAddresses ==
  /\ marked = {}
  /\ marked' = Forced(fn)

InlineOneLoad ==
  \E l \in Loads(fn) \ marked :
    /\ marked' = marked \cup {l}
    /\ Clean(fn, marked')

ANext == UNCHANGED fn /\ (InlineAddresses \/ InlineOneLoad)

ASpec == AInit /\ [][ANext]_<<fn, marked>>

=============================================================================
