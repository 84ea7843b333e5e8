----------------------------- MODULE MCSlackGone ------------------------------
(***************************************************************************)
(* state.of:152-153 says of drop_waiter_for_fd: "Used when a client           *)
(* disconnects mid-wait so we don't try to write to its closed fd".  The      *)
(* history variable remembers which waiting clients had hung up before select *)
(* returned, so that the loop had every chance to learn of it.               *)
(***************************************************************************)
EXTENDS MCSlack

VARIABLE gone    (* descriptors of WAITING connections without a peer, at select *)

GoneInit == Init /\ gone = {}

GoneNext ==
  /\ Next
  /\ gone' = IF pc = "select" /\ pc' = "accept"
             THEN {fd \in FdsIn("WAITING") : ~ sock[fd].open}
             ELSE gone

GoneSpec == GoneInit /\ [][GoneNext]_<<vars, gone>>

(* No answer is staged for a client that left while its poll was parked.     *)
(* (A WAITING connection is in neither fd_set, so nothing tells the loop.)   *)
GoneIsDropped ==
  [][\A fd \in gone : Phase(fd) = "WAITING" => Phase(fd)' # "WRITING"]_<<vars, gone>>
=============================================================================
