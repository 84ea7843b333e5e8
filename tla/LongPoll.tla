------------------------------- MODULE LongPoll -------------------------------
(***************************************************************************)
(* What a long poll promises its client, without connections, buffers or an  *)
(* event loop: a poll is answered at once when there is news, is parked       *)
(* otherwise, and is answered by the very message that brings news.  (That it *)
(* does not stay parked for ever is a property of the server itself.)        *)
(***************************************************************************)
EXTENDS Integers

CONSTANTS Client, Channel, Cursor   (* Cursor: the values of `since` *)

VARIABLES
  news,      (* how many messages each channel has; ids start at 1 *)
  poll       (* per client: Idle, parked or answered               *)

vars == <<news, poll>>

Idle == [st |-> "idle"]
Parked(ch, since) == [st |-> "parked", ch |-> ch, since |-> since]

(* The answer covers the messages since+1 .. upto. *)
Answered(ch, since, upto) ==
  [st |-> "answered", ch |-> ch, since |-> since, upto |-> upto]

HasNews(count, since) == count >= 1 /\ count > since

Init == news = [ch \in Channel |-> 0] /\ poll = [c \in Client |-> Idle]

(* Everyone the message is news to is answered in the same step. *)
Post(ch) ==
  /\ news' = [news EXCEPT ![ch] = @ + 1]
  /\ poll' = [c \in Client |->
       IF poll[c].st = "parked" /\ poll[c].ch = ch /\ HasNews(news'[ch], poll[c].since)
       THEN Answered(ch, poll[c].since, news'[ch])
       ELSE poll[c]]

(* At once, because the cursor is behind the channel. *)
AnswerNow(c, ch, since) ==
  /\ news[ch] > since
  /\ poll' = [poll EXCEPT ![c] = Answered(ch, since, news[ch])]
  /\ UNCHANGED news

Park(c, ch, since) ==
  /\ ~ HasNews(news[ch], since)
  /\ poll' = [poll EXCEPT ![c] = Parked(ch, since)]
  /\ UNCHANGED news

(* A deadline passes: an empty answer that leaves the cursor where it was,    *)
(* which is only true when there is nothing new.                             *)
Expire(late) ==
  /\ \A c \in late : poll[c].st = "parked" /\ ~ HasNews(news[poll[c].ch], poll[c].since)
  /\ poll' = [c \in Client |->
       IF c \in late THEN Answered(poll[c].ch, poll[c].since, poll[c].since) ELSE poll[c]]
  /\ UNCHANGED news

Forget(c) ==
  /\ poll[c].st = "answered"
  /\ poll' = [poll EXCEPT ![c] = Idle]
  /\ UNCHANGED news

Next ==
  \/ \E ch \in Channel : Post(ch)
  \/ \E late \in SUBSET Client : Expire(late)
  \/ \E c \in Client : Forget(c)
  \/ \E c \in Client :
       poll[c] = Idle /\ \E ch \in Channel, s \in Cursor : AnswerNow(c, ch, s) \/ Park(c, ch, s)

Spec == Init /\ [][Next]_vars
=============================================================================
