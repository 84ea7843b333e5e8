------------------------------- MODULE MCSlack --------------------------------
(***************************************************************************)
(* Two descriptors, two channels (one unknown until somebody posts to it),   *)
(* cursors before, at and beyond the first message, both kinds of deadline.  *)
(***************************************************************************)
EXTENDS SlackReactor, TLC

CONSTANTS general, other, d1, d2

(* Sift is the library's SelectSeq. *)
ASSUME SiftIsSelectSeq ==
  \A s \in UNION {[1 .. n -> 1 .. 3] : n \in 0 .. 4}, D \in SUBSET (1 .. 3) :
    LET Test(x) == x \in D IN Sift(s, Test) = SelectSeq(s, Test)

(* take_woken and take_expired, one call after another until there is none: *)
(* the first that concerns is removed from the list that is being walked.    *)
RECURSIVE TakeAll(_, _, _)
TakeAll(s, D, taken) ==
  LET j == SelectInSeq(s, LAMBDA x : x \in D) IN
  IF j = 0 THEN <<taken, s>> ELSE TakeAll(RemoveAt(s, j), D, Append(taken, s[j]))

(* Draining the list in one step, as HandleSend and DrainExpired do, takes    *)
(* and leaves the same, each once and in order.                             *)
ASSUME DrainIsSift ==
  \A s \in UNION {[1 .. n -> 1 .. 3] : n \in 0 .. 4}, D \in SUBSET (1 .. 3) :
    LET Test(x) == x \in D
        Rest(x) == x \notin D
    IN TakeAll(s, D, <<>>) = <<Sift(s, Test), Sift(s, Rest)>>

MCRequest(op, ch, since, wait) ==
  [op |-> op, ch |-> ch, since |-> since, wait |-> wait, large |-> FALSE]
MCLarge(op, ch) == [MCRequest(op, ch, 0, 0) EXCEPT !.large = TRUE]

(* Descriptors are interchangeable; only the safety run uses this. *)
MCSymmetry == Permutations(FD)

MCRequests ==
  { MCRequest("create", other, 0, 0),
    MCLarge("send", other),
    MCRequest("poll", other, -1, 9),
    MCRequest("poll", other, 1, 0),
    MCRequest("endless", other, 0, 0) }

(* The liveness run. *)
MCFewRequests ==
  { MCRequest("send", other, 0, 0),
    MCRequest("poll", other, 0, 9) }
=============================================================================
