---------------------------- MODULE MCTypeDedup ----------------------------
(***************************************************************************)
(* TypeDedup on all small contexts: three structs with any body of up to   *)
(* two elements, in one, two or three clusters, and four structs with      *)
(* simple bodies in one cluster.                                           *)
(***************************************************************************)
EXTENDS TypeDedup

Foo == <<"Foo", <<>> >>
Bar == <<"Bar", <<>> >>
FooOne == <<"Foo", <<1>> >>

Pointers(n) == {<<"ptr", s>> : s \in 1 .. n}

(* A struct contains only structs that are complete before it.             *)
Bodies(n, s) ==
  {Opaque, << <<"int">> >>, << <<"float">>, <<"int">> >>}
    \cup {<<p>> : p \in Pointers(n)}
    \cup {<<p, q>> : p \in Pointers(n), q \in Pointers(n)}
    \cup {<< <<"struct", t>>, <<"ptr", s>> >> : t \in 1 .. s - 1}

Three ==
  [structs : {<<1, 2, 3>>},
   base : {<<Foo, Foo, Foo>>, <<Foo, Bar, Foo>>, <<Foo, Foo, FooOne>>},
   body : {<<a, b, c>> : a \in Bodies(3, 1), b \in Bodies(3, 2), c \in Bodies(3, 3)}]

Simple == {Opaque, << <<"int">> >>, << <<"float">> >>, << <<"ptr", 1>> >>}

Four ==
  [structs : {<<1, 2, 3, 4>>}, base : {<<Foo, Foo, Foo, Foo>>},
   body : [1 .. 4 -> Simple]]

MCContexts == Three \cup Four

=============================================================================
