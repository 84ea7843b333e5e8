-------------------------------- MODULE SeqSift --------------------------------
(***************************************************************************)
(* The elements of a sequence that pass a test, in their order: what a loop   *)
(* leaves that walks a list and takes elements out.  SelectSeq says the same, *)
(* by recursion; this form says where each element comes from.               *)
(***************************************************************************)
EXTENDS Naturals, Sequences, FiniteSets

(* How many of the positions in I are at most k. *)
Rank(I, k) == Cardinality({j \in I : j <= k})

(* The p-th position of I. *)
Position(I, p) == CHOOSE k \in I : Rank(I, k) = p

(* s restricted to the positions in I. *)
Picked(s, I) == [p \in 1 .. Cardinality(I) |-> s[Position(I, p)]]

Passing(s, Test(_)) == {k \in DOMAIN s : Test(s[k])}

Sift(s, Test(_)) == Picked(s, Passing(s, Test))
=============================================================================
