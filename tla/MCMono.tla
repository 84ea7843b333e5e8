------------------------------- MODULE MCMono --------------------------------
(***************************************************************************)
(* Programs for TLC: three functions, two structs, three interfaces and a    *)
(* union, over every combination of the shapes that matter: no, one or two   *)
(* mains; self and mutual recursion; a struct that contains itself; one or   *)
(* two interfaces with a shared parent, a chain or a cycle of `extends`.     *)
(***************************************************************************)
EXTENDS Mono, TLC

CONSTANTS f1, f2, f3, s1, s2, i1, i2, i3, u1

MCFnInst     == {f1, f2, f3}
MCStructInst == {s1, s2}
MCIfaceInst  == {i1, i2, i3}
MCUnionInst  == {u1}

Impl == [v \in MCStructInst \X MCIfaceInst |->
           CASE v[2] = i1 -> <<f2>>
             [] v[2] = i2 -> <<f2, f3>>
             [] v[2] = i3 -> IF v[1] = s1 THEN <<f3>> ELSE <<f2>>]

MkProgram(ms, a1, a2, a3, b1, c1, e1, e2) ==
  [ mains      |-> ms,
    uses       |-> (f1 :> a1 @@ f2 :> a2 @@ f3 :> a3),
    fields     |-> (s1 :> b1 @@ s2 :> <<s1>> @@ u1 :> <<s1, s2>>
                      @@ i1 :> <<>> @@ i2 :> <<s2>> @@ i3 :> <<>>),
    implements |-> (s1 :> c1 @@ s2 :> <<i1>>),
    extends    |-> (i1 :> e1 @@ i2 :> e2 @@ i3 :> <<>>),
    impl       |-> Impl ]

MCPrograms ==
  { MkProgram(ms, a1, a2, <<i2>>, b1, c1, e1, e2) :
      ms \in {{}, {f1, f2}},
      a1 \in {<<s1, f2>>, <<u1, f3, f1>>},
      a2 \in {<<f3>>, <<f1, s2>>},
      b1 \in {<<s1>>, <<u1>>},
      c1 \in {<<>>, <<i1, i2>>},
      e1 \in {<<>>, <<i3>>, <<i2>>},
      e2 \in {<<i3>>, <<i1>>} }
=============================================================================
