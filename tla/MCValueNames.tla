----------------------------- MODULE MCValueNames -----------------------------
(***************************************************************************)
(* ValueNames on functions of one to three arguments with an alloca, a     *)
(* second instruction of any kind and two debug annotations, one of them   *)
(* between the two: of a local, of a parameter with or without a name, of  *)
(* a parameter of a function that was inlined, at any value; with and      *)
(* without a subprogram.                                                   *)
(***************************************************************************)
EXTENDS ValueNames

Local == [text |-> "x", arg |-> 0, scope |-> "this"]
First == [text |-> "a", arg |-> 1, scope |-> "this"]
Second == [text |-> "b", arg |-> 2, scope |-> "this"]
Unnamed == [text |-> "", arg |-> 3, scope |-> "this"]
Inlined(k) == [text |-> "p", arg |-> k, scope |-> "inlined"]

Refs(n) ==
  {<<"inst", 1>>, <<"global", 1>>, <<"function", 1>>, <<"constant", 0>>, <<"null", 0>>}
    \cup {<<"arg", k>> : k \in 1 .. n}

Annotation(variable, ref) ==
  [kind |-> "dbg", variable |-> variable, ref |-> ref,
   suffix |-> IF ref = <<"inst", 1>> THEN ".addr" ELSE ""]

Annotations(refs) ==
  {Annotation(v, r) : v \in {Local, First, Second, Unnamed, Inlined(1), Inlined(2)}, r \in refs}

Others == {[kind |-> "temp", inlined |-> FALSE], [kind |-> "temp", inlined |-> TRUE],
            [kind |-> "void", inlined |-> FALSE]}

Bodies(n) ==
  {<<[kind |-> "alloca", inlined |-> FALSE], d, i, e>> :
     d \in Annotations(Refs(n)), i \in Others, e \in Annotations({<<"inst", 1>>})}
    \cup
  {<<[kind |-> "alloca", inlined |-> FALSE], d, [kind |-> "temp", inlined |-> k], e>> :
     d \in Annotations({<<"inst", 1>>, <<"arg", 1>>}), k \in BOOLEAN,
     e \in Annotations({<<"inst", 3>>})}

(* LLVM has names for the global and the function, and perhaps the alloca. *)
Own(n, alloca) ==
  [v \in {<<"global", 1>>, <<"function", 1>>, <<"inst", 1>>, <<"inst", 3>>}
           \cup {<<"arg", k>> : k \in 1 .. n} |->
     IF v[1] \in {"global", "function"} THEN <<v[1], "">>
     ELSE IF v = <<"inst", 1>> THEN alloca ELSE NoName]

MCContexts ==
  UNION {UNION {
    [own : {Own(n, a) : a \in {NoName, <<"named", "">>}}, arguments : {n},
     instructions : Bodies(n), subprogram : {TRUE},
     retained : {<<>>, <<First>>, <<First, Second>>, <<Local, First>>}],
    [own : {Own(n, NoName)}, arguments : {n}, instructions : Bodies(n),
     subprogram : {FALSE}, retained : {<<>>}]} : n \in 1 .. 3}

=============================================================================
