----------------------------- MODULE MCTransforms -----------------------------
(***************************************************************************)
(* Transforms on modules of two sorts, the rest of each left empty.        *)
(*                                                                         *)
(* The first has four structs: two opaque ones without a name, one with,   *)
(* and a literal one. Up to two methods take any of them, and three        *)
(* variables may have any of them for a type, described by a pointer, a    *)
(* typedef, an anonymous composite or a basic type. (In a module that was  *)
(* linked from several, a class may have an opaque type from each.)        *)
(*                                                                         *)
(* The second has every load, store, call with two arguments and other    *)
(* instruction over a constant and a mutable C string, an Objective-C      *)
(* string, a pointer to one, a selector and an array that is no string, in *)
(* two orders of the globals. The tag and the selector may refer to the    *)
(* start of either string, or past it. An address has no initializer, or   *)
(* the cast of a number.                                                   *)
(***************************************************************************)
EXTENDS Transforms

Composite(n) == [kind |-> "composite", name |-> n]
Derived(base) == [kind |-> "derived", base |-> base]

(* NSData, NSData *, a typedef of it, NSDate *, an anonymous struct *, int *)
DebugTypes ==
  <<Composite("NSData"), Derived(1), Derived(2), Composite("NSDate"), Derived(4),
    Composite(""), Derived(6), [kind |-> "basic"]>>

Declares == {<<0, 8>>, <<1, 2>>, <<1, 3>>, <<1, 7>>, <<2, 2>>, <<2, 3>>, <<2, 5>>,
             <<2, 8>>, <<3, 2>>, <<4, 2>>}

Methods == {<<"Foo", 0>>, <<"Foo", 1>>, <<"Bar", 2>>, <<"Bar", 4>>}

TypeContexts ==
  [own : {<<"", "", "NSURL", "">>}, opaque : {{1, 2, 3}},
   methods : {<<>>} \cup {<<m>> : m \in Methods} \cup {<<m, n>> : m, n \in Methods},
   declares : {<<v, w, x>> : v, w, x \in Declares},
   di : {DebugTypes},
   globals : {<<>>}, init : {Empty}, instructions : {<<>>}]

----------------------------------------------------------------------------

Value(kind, g) == <<kind, g, FALSE>>
Start(g) == <<"gep", g, TRUE>>
Past(g) == <<"gep", g, FALSE>>

Order == <<"tag", "text", "pointer", "buffer", "address", "selector", "table">>
Reverse == [k \in DOMAIN Order |-> Order[Len(Order) + 1 - k]]

Inits(tagged, selected, address) ==
  [g \in Elements(Order) |->
     CASE g \in {"text", "buffer"} -> [kind |-> "cstring", of |-> Local]
       [] g = "address" -> [kind |-> address, of |-> Local]
       [] g = "table" -> [kind |-> "data", of |-> Local]
       [] g = "tag" -> [kind |-> "tag", of |-> tagged]
       [] g = "selector" -> [kind |-> "selector", of |-> selected]
       [] g = "pointer" -> [kind |-> "cast", of |-> Value("cast", "tag")]]

Operands ==
  {Local, Start("text"), Past("text"), Value("global", "text"), Start("buffer"),
   Value("cast", "buffer"), Value("cast", "tag"), Value("global", "selector"),
   Value("global", "pointer"), Start("table")}

(* What a program may store to.                                            *)
Variables == {Local, Start("buffer"), Value("cast", "buffer"), Value("global", "selector")}

Instructions ==
  [op : {"load"}, operands : {<<a>> : a \in Operands}]
    \cup [op : {"store"}, operands : {<<a, b>> : a \in Operands, b \in Variables}]
    \cup [op : {"call", "other"}, operands : {<<a, b>> : a, b \in Operands}]

StringContexts ==
  [own : {<<>>}, opaque : {{}}, methods : {<<>>}, declares : {<<>>}, di : {<<>>},
   globals : {Order, Reverse},
   init : {Inits(t, Start(s), address) : t \in {Start("text"), Past("text")},
                                         s \in {"text", "buffer"}, address \in {"none", "number"}},
   instructions : {<<a>> : a \in Instructions}]

MCContexts == TypeContexts \cup StringContexts

=============================================================================
