--------------------------- MODULE MCStructMembers ---------------------------
(***************************************************************************)
(* StructMembers on two modules. Each has or has not Foo, a struct of the  *)
(* program's own that is called Foo but differs (canonical name Foo_1), or *)
(* only an opaque one; and describes Foo in full and recursively, through  *)
(* a typedef or through a function, as a declaration, as the other struct, *)
(* or not at all. The LLVM struct may be longer or shorter than described. *)
(***************************************************************************)
EXTENDS StructMembers

Composite(name, elements) == [kind |-> "composite", name |-> name, elements |-> elements]
Derived(tag, name, base) == [kind |-> "derived", tag |-> tag, name |-> name, base |-> base]
Function(types) == [kind |-> "function", types |-> types]
Basic == [kind |-> "basic"]

(* struct Foo { struct Foo *x; int y; struct { } }, and a function that    *)
(* takes a pointer to it.                                                  *)
Foo == <<Composite("Foo", <<2, 3, 7>>), Derived("member", "x", 4), Derived("member", "y", 6),
         Derived("pointer", "", 1), Function(<<0, 4>>), Basic, Composite("", <<>>)>>

Descriptors ==
  {[di |-> <<>>, used |-> <<>>],
   [di |-> Foo, used |-> <<1, 4>>],
   [di |-> Foo \o <<Derived("typedef", "FooT", 1), Derived("typedef", "Foos", 8),
                    Derived("typedef", "FooU", 1)>>,
    used |-> <<9, 10>>],
   [di |-> Foo, used |-> <<5>>],
   [di |-> <<Derived("pointer", "", 2), Composite("Foo", <<>>)>>, used |-> <<1>>],
   [di |-> <<Composite("Foo", <<2>>), Derived("member", "z", 3), Basic>>, used |-> <<1, 3>>],
   [di |-> <<Composite("", <<2>>), Derived("member", "z", 1),
             Derived("typedef", "Anon", 1)>>, used |-> <<3>>]}

Struct(name, size) == [name |-> name, size |-> size, opaque |-> FALSE]

TypeLists(size) ==
  {<<>>, <<Struct("Foo", size)>>, <<Struct("Foo_1", 1), Struct("Foo", size)>>,
   <<Struct("Foo", size), Struct("", 1), Struct("Foo", size)>>,
   <<Struct("Foo_1", 1)>>, <<[name |-> "Foo_2", size |-> 0, opaque |-> TRUE]>>}

Modules(size) ==
  {[types |-> t, di |-> d.di, used |-> d.used] : t \in TypeLists(size), d \in Descriptors}

MCContexts == UNION {{<<a, b>> : a, b \in Modules(size)} : size \in 1 .. 2}

=============================================================================
