----------------------------- MODULE SlackReactor -----------------------------
(***************************************************************************)
(* The select() event loop of the slack_clone server                        *)
(* (src/examples/networking/slack_clone: slack.of, reactor.of, state.of).    *)
(* One thread runs tick() for ever; between any two of its steps clients      *)
(* connect, send pieces of requests and hang up, and time passes.           *)
(***************************************************************************)
EXTENDS Integers, Sequences, FiniteSets, SequencesExt, SeqSift

CONSTANTS
  FD,                     (* descriptors the kernel can hand out             *)
  Channel, General,       (* channel names; the one main() creates           *)
  Requests,               (* [op, ch, since, wait, large]: what clients may ask *)
  DefaultWait, MaxWait,   (* 25000 ms and MAX_WAIT_MS, in ticks of the clock *)
  MaxMsgs, MaxBacklog     (* bounds: messages per channel, pending connects  *)

ASSUME WaitAssumption == MaxWait \in Nat /\ DefaultWait \in 1 .. MaxWait
ASSUME BoundAssumption == IsFiniteSet(FD) /\ MaxMsgs \in Nat /\ MaxBacklog \in Nat
ASSUME RequestAssumption ==
  /\ General \in Channel
  /\ Requests \subseteq [op : {"page", "create", "send", "poll", "endless"},
                         ch : Channel, since : Int, wait : Int, large : BOOLEAN]

VARIABLES
  sock,       (* kernel: Closed or [req, sent, open], pieces sent by the peer *)
  backlog,    (* kernel: connections waiting for accept                       *)
  conns,      (* Reactor.conns: sequence of [fd, phase, got, reply]           *)
  channels,   (* ChatState.channels: name -> highest message id (next_id - 1) *)
  waiters,    (* ChatState.waiters: [fd, ch, since, left], left = deadline - now *)
  pc,         (* the step of tick() that comes next                           *)
  ready,      (* the fd_sets: [listen, rs, ws]                                *)
  timer,      (* what is left of the select() timeout                         *)
  at,         (* index of the loop over conns                                 *)
  toClose     (* to_close, as fds                                             *)

kernel == <<sock, backlog>>
chat   == <<channels, waiters>>
loop   == <<ready, timer, at, toClose>>
vars   == <<kernel, conns, chat, pc, loop>>

-----------------------------------------------------------------------------
Closed  == [open |-> FALSE, sent |-> -1]
NoReply == [upto |-> -2]
NoFds   == [listen |-> FALSE, rs |-> {}, ws |-> {}]

(* READ_CAP in pieces.  The headers are a request's first piece, its body the *)
(* second; a large one declares a body longer than fits, and the headers of   *)
(* an endless one never end.                                                 *)
READ_CAP == 2
Pieces(req) == IF req.op = "endless" \/ req.large THEN READ_CAP + 1 ELSE 2

(* request_incomplete: how much must be there before a request is parsed.     *)
(* A declared length that cannot fit is not waited for.                      *)
Needed(req) ==
  IF req.op = "endless" THEN READ_CAP + 1 ELSE IF req.large THEN 1 ELSE 2

Min2(a, b) == IF a < b THEN a ELSE b

(* Fault: the cap of a poll's wait is forgotten. *)
WaitMsUncapped(wait) == IF wait <= 0 THEN DefaultWait ELSE wait

(* route: wait_ms, defaulted and capped. *)
WaitMs(wait) == Min2(IF wait <= 0 THEN DefaultWait ELSE wait, MaxWait)

(* find_by_fd and index_of_fd: a linear scan, 0 when there is none. *)
IndexOfFd(fd) == SelectInSeq(conns, LAMBDA c : c.fd = fd)

FdsIn(phase) == {conns[k].fd : k \in {j \in DOMAIN conns : conns[j].phase = phase}}

(* compute_timeout: the next deadline, at most TICK_MS (one tick here). *)
ComputeTimeout ==
  IF waiters = <<>> THEN 1
  ELSE IF \E k \in DOMAIN waiters : waiters[k].left = 0 THEN 0 ELSE 1

(* Fault: the answer is staged, the phase is not changed. *)
StartWritingParked(c, reply) == [c EXCEPT !.reply = reply]

(* start_writing, on one connection. *)
StartWriting(c, reply) == [c EXCEPT !.phase = "WRITING", !.reply = reply]

(* The JSON for a parked poll is built from what its waiter recorded. *)
PollReply(w, upto) == [op |-> "poll", ch |-> w.ch, since |-> w.since, upto |-> upto]

(* What a waiter taken off the list is handed. *)
Wakeup(w, upto) == [fd |-> w.fd, reply |-> PollReply(w, upto)]

(* Fault: one snapshot is shared by all that wake. *)
WakeAllShared(wakeups) ==
  [k \in DOMAIN conns |->
     IF \E j \in DOMAIN wakeups : IndexOfFd(wakeups[j].fd) = k
     THEN StartWriting(conns[k], wakeups[1].reply) ELSE conns[k]]

(* wake_fd for each of them, in order: the last one stays. *)
WakeAll(wakeups) ==
  [k \in DOMAIN conns |->
     LET mine == {j \in DOMAIN wakeups : IndexOfFd(wakeups[j].fd) = k} IN
     IF mine = {} THEN conns[k] ELSE StartWriting(conns[k], wakeups[Max(mine)].reply)]

(* Faults: off by one, either way. *)
WokenLate(w, ch, cursor)  == w.ch = ch /\ cursor > w.since + 1
WokenEarly(w, ch, cursor) == w.ch = ch /\ cursor >= w.since

(* take_woken: whom a message with this id concerns. *)
Woken(w, ch, cursor) == w.ch = ch /\ cursor > w.since

(* Fault: whoever leads the list is dropped. *)
DropFirstWaiter(fd) == IF waiters = <<>> THEN waiters ELSE Tail(waiters)

(* drop_waiter_for_fd removes the first match. *)
DropWaiter(fd) ==
  LET j == SelectInSeq(waiters, LAMBDA w : w.fd = fd) IN
  IF j = 0 THEN waiters ELSE RemoveAt(waiters, j)

(* ensure_channel *)
EnsureChannel(ch) ==
  [c \in DOMAIN channels \cup {ch} |-> IF c \in DOMAIN channels THEN channels[c] ELSE 0]

Fresh(fd) == [fd |-> fd, phase |-> "READING", got |-> 0, reply |-> NoReply]

Init ==
  /\ sock = [fd \in FD |-> Closed] /\ backlog = 0
  /\ conns = <<>>
  /\ channels = [c \in {General} |-> 0] /\ waiters = <<>>
  /\ pc = "build" /\ ready = NoFds /\ timer = 0 /\ at = 1 /\ toClose = <<>>

-----------------------------------------------------------------------------
(* The clients and the clock. *)
Connect ==
  /\ backlog < MaxBacklog
  /\ backlog' = backlog + 1
  /\ UNCHANGED <<sock, conns, chat, pc, loop>>

(* Messages a channel has or has been asked to append. *)
Asked(ch) ==
  (IF ch \in DOMAIN channels THEN channels[ch] ELSE 0)
    + Cardinality({fd \in FD : /\ sock[fd].sent > 0
                               /\ sock[fd].req.op = "send" /\ sock[fd].req.ch = ch
                               /\ \A k \in DOMAIN conns :
                                    conns[k].fd = fd => conns[k].phase = "READING"})

SendPiece(fd) ==
  /\ sock[fd].open
  /\ \/ /\ sock[fd].sent = 0
        /\ \E r \in Requests :
             /\ r.op = "send" => Asked(r.ch) < MaxMsgs
             /\ sock' = [sock EXCEPT ![fd] = [req |-> r, sent |-> 1, open |-> TRUE]]
     \/ /\ sock[fd].sent > 0 /\ sock[fd].sent < Pieces(sock[fd].req)
        /\ sock' = [sock EXCEPT ![fd].sent = @ + 1]
  /\ UNCHANGED <<backlog, conns, chat, pc, loop>>

HangUp(fd) ==
  /\ sock[fd].open
  /\ sock' = [sock EXCEPT ![fd].open = FALSE]
  /\ UNCHANGED <<backlog, conns, chat, pc, loop>>

(* One tick of the clock; only waiting in select takes that long. *)
Elapse ==
  /\ pc = "select"
  /\ timer > 0 \/ \E k \in DOMAIN waiters : waiters[k].left > 0
  /\ timer' = IF timer > 0 THEN timer - 1 ELSE 0
  /\ waiters' = [k \in DOMAIN waiters |->
       [waiters[k] EXCEPT !.left = IF @ > 0 THEN @ - 1 ELSE 0]]
  /\ UNCHANGED <<kernel, conns, channels, pc, ready, at, toClose>>

-----------------------------------------------------------------------------
(* tick: fill the fd_sets by phase (WAITING is in neither) and call select. *)
BuildSets ==
  /\ pc = "build"
  /\ ready' = [listen |-> TRUE, rs |-> FdsIn("READING"), ws |-> FdsIn("WRITING")]
  /\ timer' = ComputeTimeout
  /\ pc' = "select"
  /\ UNCHANGED <<kernel, conns, chat, at, toClose>>

SelectError ==
  /\ pc = "select"
  /\ ready' = NoFds /\ timer' = 0
  /\ pc' = "build"
  /\ UNCHANGED <<kernel, conns, chat, at, toClose>>

Got(fd)      == conns[IndexOfFd(fd)].got
Readable(fd) == sock[fd].sent > Got(fd) \/ ~ sock[fd].open

(* select returns when something is ready or the timeout is over.  It may     *)
(* report a descriptor on which the call will then block.                    *)
SelectOk ==
  /\ pc = "select"
  /\ \E rs \in SUBSET ready.rs, ws \in SUBSET ready.ws :
       /\ {fd \in ready.rs : Readable(fd)} \subseteq rs
       /\ backlog > 0 \/ rs # {} \/ ws # {} \/ timer = 0
       /\ ready' = [listen |-> backlog > 0, rs |-> rs, ws |-> ws]
  /\ timer' = 0
  /\ pc' = "accept"
  /\ UNCHANGED <<kernel, conns, chat, at, toClose>>

NoAccept ==
  /\ pc = "accept" /\ ~ ready.listen
  /\ pc' = "scan" /\ at' = 1
  /\ UNCHANGED <<kernel, conns, chat, ready, timer, toClose>>

(* accept_one: a new connection, at the end of the list. *)
AcceptOne ==
  /\ pc = "accept" /\ ready.listen
  /\ \E fd \in {f \in FD : sock[f] = Closed} :
       /\ sock' = [sock EXCEPT ![fd] = [sent |-> 0, open |-> TRUE]]
       /\ conns' = Append(conns, Fresh(fd))
  /\ backlog' = backlog - 1
  /\ pc' = "scan" /\ at' = 1
  /\ UNCHANGED <<chat, ready, timer, toClose>>

(* accept failed (no descriptor left, peer gone) or make_conn gave up. *)
AcceptFails ==
  /\ pc = "accept" /\ ready.listen
  /\ backlog' \in {backlog - 1, backlog}
  /\ pc' = "scan" /\ at' = 1
  /\ UNCHANGED <<sock, conns, chat, ready, timer, toClose>>

-----------------------------------------------------------------------------
(* The loop over conns. *)
Cur        == conns[at]
Scanning   == pc = "scan" /\ at <= Len(conns)
CanRead    == Scanning /\ Cur.phase = "READING" /\ Cur.fd \in ready.rs
CanWrite   == Scanning /\ Cur.phase = "WRITING" /\ Cur.fd \in ready.ws
Pending    == sock[Cur.fd].sent > Cur.got
Req        == sock[Cur.fd].req

(* Fault: the loop steps over its neighbour. *)
NextConnSkips == at' = at + 2 /\ UNCHANGED <<kernel, pc, ready, timer>>
NextConn == at' = at + 1 /\ UNCHANGED <<kernel, pc, ready, timer>>

SkipConn ==
  /\ Scanning /\ ~ CanRead /\ ~ CanWrite
  /\ NextConn /\ UNCHANGED <<conns, chat, toClose>>

(* read_more = -1 *)
ReadWouldBlock ==
  /\ CanRead /\ ~ Pending /\ sock[Cur.fd].open /\ Cur.got < READ_CAP
  /\ NextConn /\ UNCHANGED <<conns, chat, toClose>>

(* read_more = 0 or -2: end of file, reset, no room left in read_buf, or no    *)
(* buffer to read into, which may happen to any connection.                  *)
ReadEnds ==
  /\ CanRead
  /\ toClose' = Append(toClose, Cur.fd)
  /\ NextConn /\ UNCHANGED <<conns, chat>>

(* read_more > 0, n the bytes buffered afterwards. *)
Reads(n) == CanRead /\ Pending /\ n \in Cur.got + 1 .. Min2(sock[Cur.fd].sent, READ_CAP)

(* try_parse *)
Incomplete(n) == n < Needed(Req)

ReadPart ==
  /\ \E n \in 1 .. READ_CAP :
       /\ Reads(n) /\ Incomplete(n)
       /\ conns' = [conns EXCEPT ![at].got = n]
  /\ NextConn /\ UNCHANGED <<chat, toClose>>

(* The whole request is there and is one of ops. *)
Handles(ops) == \E n \in 1 .. READ_CAP : Reads(n) /\ ~ Incomplete(n) /\ Req.op \in ops

(* The connection after handle_readable answered it (what it has read no     *)
(* longer matters).                                                         *)
Answer(c, upto) ==
  StartWriting([c EXCEPT !.got = READ_CAP],
               [op |-> Req.op, ch |-> Req.ch, since |-> Req.since, upto |-> upto])

(* Requests that neither wait nor wake: the page, /health, the list of       *)
(* channels, a bad request, as is a form cut off before its last field; and a *)
(* POST to /channels, which may create one.                                  *)
CutOff == Handles({"create", "send"}) /\ Req.large

HandlePlain ==
  /\ \/ (Handles({"page"}) \/ CutOff) /\ UNCHANGED channels
     \/ Handles({"create"}) /\ channels' = EnsureChannel(Req.ch)
  /\ conns' = [conns EXCEPT ![at] = Answer(@, 0)]
  /\ NextConn /\ UNCHANGED <<waiters, toClose>>

(* append, drain_waiters, then the sender's own answer. *)
HandleSend ==
  /\ Handles({"send"})
  /\ LET chs    == EnsureChannel(Req.ch)
         upto   == chs[Req.ch] + 1
         Now(w) == Woken(w, Req.ch, upto)
         taken  == Sift(waiters, Now)
         woken  == WakeAll([j \in DOMAIN taken |-> Wakeup(taken[j], upto)])
     IN /\ channels' = [chs EXCEPT ![Req.ch] = upto]
        /\ waiters' = Sift(waiters, LAMBDA w : ~ Now(w))
        /\ conns' = [woken EXCEPT ![at] = Answer(@, 0)]
  /\ NextConn /\ UNCHANGED toClose

PollNow ==
  /\ Handles({"poll"})
  /\ Req.ch \in DOMAIN channels /\ channels[Req.ch] > Req.since
  /\ conns' = [conns EXCEPT ![at] = Answer(@, channels[Req.ch])]
  /\ NextConn /\ UNCHANGED <<chat, toClose>>

PollPark ==
  /\ Handles({"poll"})
  /\ ~ (Req.ch \in DOMAIN channels /\ channels[Req.ch] > Req.since)
  /\ waiters' = Append(waiters, [fd |-> Cur.fd, ch |-> Req.ch, since |-> Req.since,
                                 left |-> WaitMs(Req.wait)])
  /\ conns' = [conns EXCEPT ![at].got = READ_CAP, ![at].phase = "WAITING"]
  /\ NextConn /\ UNCHANGED <<channels, toClose>>

(* write_more: everything is out, or the write failed. *)
WriteDone ==
  /\ CanWrite
  /\ toClose' = Append(toClose, Cur.fd)
  /\ NextConn /\ UNCHANGED <<conns, chat>>

WriteBlocks ==
  /\ CanWrite
  /\ NextConn /\ UNCHANGED <<conns, chat, toClose>>

EndScan ==
  /\ pc = "scan" /\ at > Len(conns)
  /\ pc' = "close" /\ ready' = NoFds /\ at' = 1
  /\ UNCHANGED <<kernel, conns, chat, timer, toClose>>

-----------------------------------------------------------------------------
(* Fault: the descriptor is closed, the connection stays listed. *)
CloseOneListed ==
  /\ pc = "close" /\ toClose # <<>>
  /\ waiters' = DropWaiter(Head(toClose))
  /\ sock' = [sock EXCEPT ![Head(toClose)] = Closed]
  /\ toClose' = Tail(toClose)
  /\ UNCHANGED <<conns, backlog, channels, pc, ready, timer, at>>

(* drop_waiter_for_fd, then close_fd unlinks and frees. *)
CloseOne ==
  /\ pc = "close" /\ toClose # <<>>
  /\ LET fd == Head(toClose)
         k  == IndexOfFd(fd)
     IN /\ waiters' = DropWaiter(fd)
        /\ conns' = IF k = 0 THEN conns ELSE RemoveAt(conns, k)
        /\ sock' = IF k = 0 THEN sock ELSE [sock EXCEPT ![fd] = Closed]
  /\ toClose' = Tail(toClose)
  /\ UNCHANGED <<backlog, channels, pc, ready, timer, at>>

(* drain_expired, and tick returns. *)
DrainExpired ==
  /\ pc = "close" /\ toClose = <<>>
  /\ LET Late(w) == w.left = 0
         taken   == Sift(waiters, Late)
     IN /\ waiters' = Sift(waiters, LAMBDA w : ~ Late(w))
        /\ conns' = WakeAll([j \in DOMAIN taken |-> Wakeup(taken[j], taken[j].since)])
  /\ pc' = "build"
  /\ UNCHANGED <<kernel, channels, loop>>

-----------------------------------------------------------------------------
Clients == Connect \/ \E fd \in FD : SendPiece(fd) \/ HangUp(fd)

Handler ==
  \/ SkipConn \/ ReadWouldBlock \/ ReadEnds \/ ReadPart
  \/ HandlePlain \/ HandleSend \/ PollNow \/ PollPark
  \/ WriteDone \/ WriteBlocks

Tick ==
  \/ BuildSets \/ SelectOk \/ NoAccept \/ AcceptOne \/ AcceptFails
  \/ Handler \/ EndScan \/ CloseOne \/ DrainExpired

Next == Clients \/ Elapse \/ SelectError \/ Tick

(* main calls tick for ever, and select does not fail for ever.  Time passes   *)
(* while the server sits in select; a failing select takes it out again and     *)
(* again, which must not stop the clock: hence SF for Elapse.  Nothing is        *)
(* assumed of the clients: they may never send, read or hang up.              *)
Spec ==
  /\ Init /\ [][Next]_vars
  /\ WF_vars(Tick) /\ SF_vars(SelectOk) /\ SF_vars(Elapse)

-----------------------------------------------------------------------------
Phases == {"READING", "WRITING", "WAITING"}

TypeOK ==
  /\ \A fd \in FD : sock[fd] = Closed \/ sock[fd].sent \in 0 .. READ_CAP + 1
  /\ \A k \in DOMAIN conns : conns[k].fd \in FD /\ conns[k].phase \in Phases
  /\ DOMAIN channels \subseteq Channel /\ \A c \in DOMAIN channels : channels[c] \in 0 .. MaxMsgs
  /\ \A k \in DOMAIN waiters : waiters[k].fd \in FD /\ waiters[k].left \in 0 .. MaxWait
  /\ pc \in {"build", "select", "accept", "scan", "close"}

(* The connection table and the kernel agree, and no connection is listed or  *)
(* closed twice: nothing is closed behind the back of a connection that got    *)
(* the same descriptor later, and no descriptor is leaked.                   *)
OneConnPerSocket ==
  /\ \A fd \in FD : sock[fd] # Closed <=> \E k \in DOMAIN conns : conns[k].fd = fd
  /\ \A j, k \in DOMAIN conns : conns[j].fd = conns[k].fd => j = k
  /\ \A j, k \in DOMAIN toClose : toClose[j] = toClose[k] => j = k
  /\ \A j \in DOMAIN toClose : sock[toClose[j]] # Closed

(* A connection is WAITING exactly while one waiter carries its descriptor:  *)
(* nobody sleeps unregistered, and no waiter outlives its connection and      *)
(* wakes the next owner of the descriptor.                                  *)
WaitersAreParked ==
  /\ {waiters[k].fd : k \in DOMAIN waiters} = FdsIn("WAITING")
  /\ \A j, k \in DOMAIN waiters : waiters[j].fd = waiters[k].fd => j = k

(* No poll sleeps on a channel that has a message newer than its cursor,      *)
(* whatever order polls, sends and channel creation are served in.           *)
NoMissedWakeup ==
  \A k \in DOMAIN waiters :
    LET w == waiters[k] IN
    w.ch \in DOMAIN channels /\ channels[w.ch] >= 1 => channels[w.ch] <= w.since

(* What is being written to a connection answers the request this connection *)
(* sent, also when it was staged by another one's handler or by a deadline.  *)
AnswersOwnRequest ==
  \A k \in DOMAIN conns :
    conns[k].phase = "WRITING" =>
      LET r == sock[conns[k].fd].req IN
      conns[k].reply.op = r.op /\ conns[k].reply.ch = r.ch /\ conns[k].reply.since = r.since

Phase(fd) == LET k == IndexOfFd(fd) IN IF k = 0 THEN "none" ELSE conns[k].phase

(* A parked poll is answered, by news or by its deadline. *)
ParkedIsAnswered == \A fd \in FD : Phase(fd) = "WAITING" ~> Phase(fd) # "WAITING"

(* A request of which enough was sent is served (answered, parked, or its     *)
(* connection closed), however many other connections keep the loop busy.     *)
RequestIsServed ==
  \A fd \in FD :
    Phase(fd) = "READING" /\ sock[fd].sent > 0 /\ sock[fd].sent >= Needed(sock[fd].req)
      ~> Phase(fd) # "READING"

(* The server keeps the promise of a long poll. *)
News == [ch \in Channel |-> IF ch \in DOMAIN channels THEN channels[ch] ELSE 0]

PollOf(fd) ==
  LET k == IndexOfFd(fd)
      r == sock[fd].req
      a == conns[k].reply
  IN IF k # 0 /\ conns[k].phase = "WAITING"
     THEN [st |-> "parked", ch |-> r.ch, since |-> r.since]
     ELSE IF k # 0 /\ conns[k].phase = "WRITING" /\ a.op = "poll"
     THEN [st |-> "answered", ch |-> a.ch, since |-> a.since, upto |-> a.upto]
     ELSE [st |-> "idle"]

LP == INSTANCE LongPoll WITH Client <- FD, Cursor <- {r.since : r \in Requests},
                             news <- News, poll <- [fd \in FD |-> PollOf(fd)]

RefinesLongPoll == LP!Spec
=============================================================================
