-------------------------------- MODULE Reach --------------------------------
(***************************************************************************)
(* What monomorphization promises, without worklist, cache or placeholders: *)
(* starting from one root, exactly the nodes of the instance graph that the *)
(* root reaches are discovered, and a node is finished only when everything *)
(* it mentions has been discovered.                                         *)
(***************************************************************************)
CONSTANT Node            (* every instance a program could mention *)

VARIABLES
  graph,                 (* [roots : SUBSET Node, succ : [Node -> SUBSET Node]] *)
  seen,                  (* the discovered nodes *)
  done                   (* the finished nodes   *)

vars == <<graph, seen, done>>

Graphs == [roots : SUBSET Node, succ : [Node -> SUBSET Node]]

Init == graph \in Graphs /\ seen = {} /\ done = {}

Root ==
  /\ seen = {}
  /\ \E r \in graph.roots : seen' = {r}
  /\ UNCHANGED <<graph, done>>

Visit(n, m) ==
  /\ n \in seen \ done
  /\ m \in graph.succ[n]
  /\ seen' = seen \cup {m}
  /\ UNCHANGED <<graph, done>>

Finish(n) ==
  /\ n \in seen \ done
  /\ graph.succ[n] \subseteq seen
  /\ done' = done \cup {n}
  /\ UNCHANGED <<graph, seen>>

Next ==
  \/ Root
  \/ \E n \in Node : Finish(n) \/ \E m \in Node : Visit(n, m)

Safe == Init /\ [][Next]_vars
Spec == Safe /\ WF_vars(Next)

(***************************************************************************)
(* What a root reaches: the least set with the root that is closed under     *)
(* "mentions".                                                              *)
(***************************************************************************)
ClosedUnder(C) == \A n \in C : graph.succ[n] \subseteq C
Reachable(r)   == {m \in Node : \A C \in SUBSET Node : r \in C /\ ClosedUnder(C) => m \in C}

(***************************************************************************)
(* Once nothing is left to finish, the discovered set is closed under       *)
(* "mentions".                                                              *)
(***************************************************************************)
Closed == \A n \in done : graph.succ[n] \subseteq seen
=============================================================================
