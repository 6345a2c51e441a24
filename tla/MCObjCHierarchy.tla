--------------------------- MODULE MCObjCHierarchy ---------------------------
(***************************************************************************)
(* ObjCHierarchy on two modules with three classes: A at the top or below  *)
(* a class X of a framework, B below A, C below A or B. Any of them may be *)
(* in either module, A in none; each may implement the selector s, and one *)
(* category adds s to A, to C or to X, possibly overriding the class's own *)
(* and possibly as an instance and as a class method.                      *)
(***************************************************************************)
EXTENDS ObjCHierarchy

A == <<"A", "">>
B == <<"B", "">>
C == <<"C", "">>
X == <<"X", "">>
MCNone == <<"", "">>

Class(n, super, own) ==
  [kind |-> "class", name |-> n, super |-> super,
   inst |-> IF n \in own THEN {<<"s", <<"-", n>> >>} ELSE {},
   cls |-> IF n = A THEN {<<"t", <<"+", n>> >>} ELSE {}]

Category(n, both) ==
  [kind |-> "category", name |-> <<n[1], "(Cat)">>, of |-> n,
   inst |-> {<<"s", <<"-", <<n[1], "(Cat)">> >> >>},
   cls |-> IF both THEN {<<"s", <<"+", <<n[1], "(Cat)">> >> >>} ELSE {}]

Super(n, top, ofC) == CASE n = A -> top [] n = B -> A [] n = C -> ofC

(* A module lists its classes in the order they are implemented in.        *)
Module(k, place, top, ofC, own, extended, catIn, both) ==
  LET order == IF ofC = A THEN <<C, A, B>> ELSE <<A, B, C>>
      mine == SelectSeq(order, LAMBDA n : place[n] = k)
  IN [j \in DOMAIN mine |-> Class(mine[j], Super(mine[j], top, ofC), own)]
       \o (IF catIn = k THEN <<Category(extended, both)>> ELSE <<>>)

Places == {p \in [{A, B, C} -> 0 .. 2] : p[B] # 0 /\ p[C] # 0}

MCContexts ==
  {<<Module(1, p, top, ofC, own, n, k, both), Module(2, p, top, ofC, own, n, k, both)>> :
     p \in Places, top \in {MCNone, X}, ofC \in {A, B}, own \in {{A}, {B}, {A, B}, {A, C}, {A, B, C}},
     n \in {A, C, X}, k \in 1 .. 2, both \in BOOLEAN}

=============================================================================
