------------------------------ MODULE MCDriver ------------------------------
(* Two files and a link to the first, given as files, as directories or    *)
(* both, with every kind of content there is trouble with.                 *)
EXTENDS Driver, TLC

Slice(arch, embedded, ms) == [arch |-> arch, embedded |-> embedded, modules |-> ms]
File(type, ll, slices) == [type |-> type, ll |-> ll, slices |-> slices]

One(type, ll, m) == File(type, ll, << Slice(1, TRUE, <<m>>) >>)

Contents ==
  {One("bitcode", FALSE, m) : m \in {"good", "plain", "broken"}}
  \cup {One("ir", TRUE, m) : m \in {"good", "broken"}}
  \cup {One("ir", FALSE, "broken"), File("unsupported", FALSE, <<>>)}
  \cup {File("binary", FALSE, s) :
          s \in {<<>>,
                 << Slice(1, FALSE, <<>>) >>,
                 << Slice(1, TRUE, <<"good", "broken", "plain">>) >>,
                 << Slice(1, TRUE, <<"skipped", "good">>), Slice(1, TRUE, <<"good">>) >>,
                 << Slice(2, TRUE, <<"good">>), Slice(1, TRUE, <<"good">>) >>}}

Alone(n) == [directory |-> FALSE, names |-> <<n>>]
Directory(names) == [directory |-> TRUE, names |-> names]

MCJobs ==
  [strict : BOOLEAN,
   arguments : {<<Alone(2), Alone(1), Alone(3)>>,
                <<Directory(<<2, 1, 3>>)>>,
                <<Directory(<<2>>), Alone(3), Alone(2)>>},
   real : {(1 :> 1) @@ (2 :> 2) @@ (3 :> 1)},
   file : [{1, 2} -> Contents]]

=============================================================================
