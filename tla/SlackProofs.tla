------------------------------ MODULE SlackProofs ------------------------------
(***************************************************************************)
(* The reactor's tables, for any number of descriptors, channels and kinds of *)
(* requests: connections and sockets correspond one to one, the parked are    *)
(* exactly the waiters, no poll sleeps over news, and what is written answers *)
(* the request that was read.                                               *)
(***************************************************************************)
EXTENDS SlackReactor, SeqSiftProofs

Ops     == {"page", "create", "send", "poll", "endless"}
Replies == {NoReply} \cup [op : Ops, ch : Channel, since : Int, upto : Int]
Conn    == [fd : FD, phase : Phases, got : 0 .. READ_CAP, reply : Replies]
Waiter  == [fd : FD, ch : Channel, since : Int, left : 0 .. MaxWait]

(* A socket whose peer has sent something has a request. *)
Idle  == [sent : {0}, open : BOOLEAN]
Heard == [req : Requests, sent : 1 .. READ_CAP + 1, open : BOOLEAN]

TypeInv ==
  /\ sock \in [FD -> {Closed} \cup Idle \cup Heard]
  /\ conns \in Seq(Conn) /\ waiters \in Seq(Waiter) /\ toClose \in Seq(FD)
  /\ DOMAIN channels \subseteq Channel /\ channels \in [DOMAIN channels -> Nat]
  /\ pc \in {"build", "select", "accept", "scan", "close"}
  /\ at \in Nat \ {0}

(* A connection has heard a request once it waits or writes. *)
Owned ==
  \A k \in DOMAIN conns :
    conns[k].phase # "READING" => sock[conns[k].fd].sent > 0

(* What is to be closed has been scanned, and is closed before the next tick. *)
Closing ==
  /\ pc \notin {"scan", "close"} => toClose = <<>>
  /\ pc = "scan" => \A j \in DOMAIN toClose :
                      \E k \in DOMAIN conns : k < at /\ conns[k].fd = toClose[j]

(* No connection is given up while its poll waits. *)
MarkedAwake ==
  \A j \in DOMAIN toClose : \A k \in DOMAIN conns :
    conns[k].fd = toClose[j] => conns[k].phase # "WAITING"

(* A waiter records the request its connection has sent. *)
ParkedAsked ==
  \A k \in DOMAIN waiters :
    LET r == sock[waiters[k].fd].req IN
    r.op = "poll" /\ r.ch = waiters[k].ch /\ r.since = waiters[k].since

-----------------------------------------------------------------------------
(***************************************************************************)
(* A list of records with distinct descriptors.                              *)
(***************************************************************************)
Distinct(s) == \A j, k \in DOMAIN s : s[j].fd = s[k].fd => j = k

LEMMA PicksOutFds ==
  ASSUME NEW t, NEW s, NEW I \in SUBSET DOMAIN s, PicksOut(t, s, I), Distinct(s)
  PROVE  /\ Distinct(t)
         /\ \A p \in DOMAIN t : \E k \in I : t[p] = s[k]
         /\ \A k \in I : \E p \in DOMAIN t : t[p] = s[k]
<1>1. PICK f \in [DOMAIN t -> I] :
        /\ \A p \in DOMAIN t : t[p] = s[f[p]]
        /\ \A p, q \in DOMAIN t : f[p] = f[q] => p = q
        /\ \A k \in I : \E p \in DOMAIN t : f[p] = k
  BY DEF PicksOut
<1> QED
  BY <1>1 DEF Distinct

LEMMA RemoveFacts ==
  ASSUME NEW T, NEW s \in Seq(T), Distinct(s), NEW i \in DOMAIN s
  PROVE  /\ RemoveAt(s, i) \in Seq(T) /\ Distinct(RemoveAt(s, i))
         /\ \A p \in DOMAIN RemoveAt(s, i) : \E k \in DOMAIN s : k # i /\ RemoveAt(s, i)[p] = s[k]
         /\ \A k \in DOMAIN s : k # i => \E p \in DOMAIN RemoveAt(s, i) : RemoveAt(s, i)[p] = s[k]
<1> DEFINE t == RemoveAt(s, i)
           J == DOMAIN s \ {i}
<1>1. t \in Seq(T) /\ PicksOut(t, s, J) /\ J \in SUBSET DOMAIN s
  BY RemoveAtPicksOut
<1>2. \A k \in DOMAIN s : k # i <=> k \in J
  OBVIOUS
<1> HIDE DEF t, J
<1>3. /\ Distinct(t)
      /\ \A p \in DOMAIN t : \E k \in J : t[p] = s[k]
      /\ \A k \in J : \E p \in DOMAIN t : t[p] = s[k]
  BY <1>1, PicksOutFds
<1> QED
  BY <1>1, <1>2, <1>3 DEF t

LEMMA PickedFacts ==
  ASSUME NEW T, NEW s \in Seq(T), Distinct(s), NEW I \in SUBSET DOMAIN s
  PROVE  /\ Picked(s, I) \in Seq(T) /\ Distinct(Picked(s, I))
         /\ \A p \in DOMAIN Picked(s, I) : \E k \in I : Picked(s, I)[p] = s[k]
         /\ \A k \in I : \E p \in DOMAIN Picked(s, I) : Picked(s, I)[p] = s[k]
BY PickedPicksOut, PicksOutFds

(***************************************************************************)
(* The linear scans find the one connection, or the one waiter, with a        *)
(* descriptor.                                                              *)
(***************************************************************************)
LEMMA OnlyMin ==
  ASSUME NEW n \in Nat, NEW I, NEW k \in 1 .. n, I = {k}
  PROVE  I # {} /\ Min(I) = k
BY DEF Min

LEMMA IndexFacts ==
  ASSUME NEW T, conns \in Seq(T), Distinct(conns)
  PROVE  /\ \A k \in DOMAIN conns : IndexOfFd(conns[k].fd) = k
         /\ \A fd, k : IndexOfFd(fd) = k /\ k # 0 => k \in DOMAIN conns /\ conns[k].fd = fd
         /\ \A fd : IndexOfFd(fd) = 0 => \A k \in DOMAIN conns : conns[k].fd # fd
<1> DEFINE I(fd) == {i \in 1 .. Len(conns) : conns[i].fd = fd}
<1>1. Len(conns) \in Nat /\ DOMAIN conns = 1 .. Len(conns)
  BY LenProperties
<1>2. \A fd : IndexOfFd(fd) = IF I(fd) # {} THEN Min(I(fd)) ELSE 0
  BY DEF IndexOfFd, SelectInSeq
<1>3. ASSUME NEW fd, NEW k \in DOMAIN conns, conns[k].fd = fd
      PROVE  IndexOfFd(fd) = k
  <2>1. I(fd) = {k}
    BY <1>1, <1>3 DEF Distinct
  <2> HIDE DEF I
  <2>2. I(fd) # {} /\ Min(I(fd)) = k
    BY <1>1, <2>1, OnlyMin
  <2> QED
    BY <1>2, <2>2
<1>4. ASSUME NEW fd, \A k \in DOMAIN conns : conns[k].fd # fd
      PROVE  IndexOfFd(fd) = 0
  <2>1. I(fd) = {}
    BY <1>1, <1>4
  <2> QED
    BY <1>2, <2>1
<1>5. 0 \notin DOMAIN conns
  BY <1>1
<1> QED
  BY <1>3, <1>4, <1>5

LEMMA DropFacts ==
  ASSUME waiters \in Seq(Waiter), Distinct(waiters), NEW fd
  PROVE  /\ DropWaiter(fd) \in Seq(Waiter) /\ Distinct(DropWaiter(fd))
         /\ \A p \in DOMAIN DropWaiter(fd) :
              \E k \in DOMAIN waiters : waiters[k].fd # fd /\ DropWaiter(fd)[p] = waiters[k]
         /\ \A k \in DOMAIN waiters :
              waiters[k].fd # fd => \E p \in DOMAIN DropWaiter(fd) : DropWaiter(fd)[p] = waiters[k]
<1> DEFINE I == {i \in 1 .. Len(waiters) : waiters[i].fd = fd}
           t == DropWaiter(fd)
           j == IF I # {} THEN Min(I) ELSE 0
<1>1. Len(waiters) \in Nat /\ DOMAIN waiters = 1 .. Len(waiters)
  BY LenProperties
<1>2. t = IF j = 0 THEN waiters ELSE RemoveAt(waiters, j)
  BY DEF DropWaiter, SelectInSeq
<1>3. CASE I = {}
  <2>1. t = waiters /\ \A k \in DOMAIN waiters : waiters[k].fd # fd
    BY <1>1, <1>2, <1>3
  <2> QED
    BY <2>1
<1>4. CASE I # {}
  <2>1. PICK i \in DOMAIN waiters : waiters[i].fd = fd
    BY <1>1, <1>4
  <2>2. I = {i}
    BY <1>1, <2>1 DEF Distinct
  <2> HIDE DEF I
  <2>3. Min(I) = i
    BY <1>1, <2>1, <2>2, OnlyMin
  <2>4. t = RemoveAt(waiters, i)
    BY <1>1, <1>2, <1>4, <2>1, <2>3
  <2>5. \A k \in DOMAIN waiters : waiters[k].fd # fd <=> k # i
    BY <2>1 DEF Distinct
  <2> HIDE DEF t
  <2> QED
    BY <2>1, <2>4, <2>5, RemoveFacts DEF t
<1> QED
  BY <1>3, <1>4

-----------------------------------------------------------------------------
(***************************************************************************)
(* Waking a list of waiters changes the connections that have their           *)
(* descriptors, and no other.                                               *)
(***************************************************************************)
LEMMA StartWritingType ==
  ASSUME NEW c \in Conn, NEW r \in Replies
  PROVE  /\ StartWriting(c, r) \in Conn
         /\ StartWriting(c, r).fd = c.fd /\ StartWriting(c, r).phase = "WRITING"
         /\ StartWriting(c, r).reply = r
BY DEF StartWriting, Conn, Phases

LEMMA PollReplyType ==
  ASSUME NEW w \in Waiter, NEW u \in Int
  PROVE  /\ PollReply(w, u) \in Replies
         /\ PollReply(w, u).op = "poll" /\ PollReply(w, u).ch = w.ch
         /\ PollReply(w, u).since = w.since /\ PollReply(w, u).upto = u
BY DEF PollReply, Waiter, Replies, Ops

LEMMA OnlyMax ==
  ASSUME NEW I, NEW j \in Int, I = {j}
  PROVE  I # {} /\ Max(I) = j
BY DEF Max

LEMMA WakeFacts ==
  ASSUME conns \in Seq(Conn), Distinct(conns),
         NEW ws, DOMAIN ws \subseteq Int, Distinct(ws),
         \A j \in DOMAIN ws : ws[j].reply \in Replies
  PROVE  /\ WakeAll(ws) \in Seq(Conn) /\ DOMAIN WakeAll(ws) = DOMAIN conns
         /\ \A k \in DOMAIN conns :
              \/ WakeAll(ws)[k] = conns[k] /\ \A j \in DOMAIN ws : ws[j].fd # conns[k].fd
              \/ \E j \in DOMAIN ws : /\ ws[j].fd = conns[k].fd
                                      /\ WakeAll(ws)[k] = StartWriting(conns[k], ws[j].reply)
<1> DEFINE mine(k) == {j \in DOMAIN ws : IndexOfFd(ws[j].fd) = k}
<1>1. /\ Len(conns) \in Nat /\ DOMAIN conns = 1 .. Len(conns)
      /\ \A k \in DOMAIN conns : conns[k] \in Conn
  BY LenProperties, ElementOfSeq
<1>2. \A k \in DOMAIN conns : \A fd : IndexOfFd(fd) = k <=> conns[k].fd = fd
  BY <1>1, IndexFacts
<1>3. /\ DOMAIN WakeAll(ws) = DOMAIN conns
      /\ \A k \in DOMAIN conns :
           WakeAll(ws)[k] = IF mine(k) = {} THEN conns[k]
                            ELSE StartWriting(conns[k], ws[Max(mine(k))].reply)
  BY DEF WakeAll
<1>4. ASSUME NEW k \in DOMAIN conns
      PROVE  \/ WakeAll(ws)[k] = conns[k] /\ \A j \in DOMAIN ws : ws[j].fd # conns[k].fd
             \/ \E j \in DOMAIN ws : /\ ws[j].fd = conns[k].fd
                                     /\ WakeAll(ws)[k] = StartWriting(conns[k], ws[j].reply)
  <2>1. CASE \A j \in DOMAIN ws : ws[j].fd # conns[k].fd
    <3>1. mine(k) = {}
      BY <1>2, <2>1
    <3> QED
      BY <1>3, <2>1, <3>1
  <2>2. CASE \E j \in DOMAIN ws : ws[j].fd = conns[k].fd
    <3>1. PICK j \in DOMAIN ws : ws[j].fd = conns[k].fd
      BY <2>2
    <3>2. mine(k) = {j}
      BY <1>2, <3>1 DEF Distinct
    <3> HIDE DEF mine
    <3>3. mine(k) # {} /\ Max(mine(k)) = j
      BY <3>1, <3>2, OnlyMax
    <3> QED
      BY <1>3, <3>1, <3>3
  <2> QED
    BY <2>1, <2>2
<1> HIDE DEF mine
<1>5. \A k \in DOMAIN conns : WakeAll(ws)[k] \in Conn
  BY <1>1, <1>4, StartWritingType
<1>6. WakeAll(ws) \in [1 .. Len(conns) -> Conn]
  BY <1>1, <1>3, <1>5 DEF WakeAll
<1>7. WakeAll(ws) \in Seq(Conn)
  BY <1>1, <1>6, SeqDef
<1> QED
  BY <1>3, <1>4, <1>7

(* c woken with the answer its waiter w asked for; U says up to which message. *)
WokenBy(c, d, w, U) ==
  /\ d.fd = c.fd /\ w.fd = c.fd /\ d.phase = "WRITING"
  /\ d.reply.op = "poll" /\ d.reply.ch = w.ch /\ d.reply.since = w.since
  /\ d.reply.upto = U[w]

(* What a message, or a deadline, tells the waiters it concerns. *)
Told(u)   == [w \in Waiter |-> u]
OwnCursor == [w \in Waiter |-> w.since]

(***************************************************************************)
(* Taking the waiters at the positions I off the list and answering them:     *)
(* what drain_waiters and drain_expired do.                                 *)
(***************************************************************************)
LEMMA DrainFacts ==
  ASSUME conns \in Seq(Conn), Distinct(conns), waiters \in Seq(Waiter), Distinct(waiters),
         NEW I \in SUBSET DOMAIN waiters, NEW U \in [Waiter -> Int], NEW ws,
         DOMAIN ws = DOMAIN Picked(waiters, I),
         \A j \in DOMAIN ws : ws[j] = Wakeup(Picked(waiters, I)[j], U[Picked(waiters, I)[j]])
  PROVE  /\ WakeAll(ws) \in Seq(Conn) /\ DOMAIN WakeAll(ws) = DOMAIN conns
         /\ \A k \in DOMAIN conns :
              /\ WakeAll(ws)[k].fd = conns[k].fd
              /\ \/ WakeAll(ws)[k] = conns[k] /\ \A i \in I : waiters[i].fd # conns[k].fd
                 \/ \E i \in I : WokenBy(conns[k], WakeAll(ws)[k], waiters[i], U)
<1> DEFINE t == Picked(waiters, I)
<1>1. /\ t \in Seq(Waiter) /\ Distinct(t)
      /\ \A p \in DOMAIN t : \E k \in I : t[p] = waiters[k]
      /\ \A k \in I : \E p \in DOMAIN t : t[p] = waiters[k]
  BY PickedFacts
<1>2. DOMAIN ws = DOMAIN t /\ \A j \in DOMAIN ws : ws[j] = Wakeup(t[j], U[t[j]])
  OBVIOUS
<1> HIDE DEF t
<1>3. DOMAIN t \subseteq Int /\ \A j \in DOMAIN t : t[j] \in Waiter
  BY <1>1, LenProperties, ElementOfSeq
<1>4. \A j \in DOMAIN ws :
        ws[j].fd = t[j].fd /\ ws[j].reply = PollReply(t[j], U[t[j]]) /\ U[t[j]] \in Int
  BY <1>2, <1>3 DEF Wakeup
<1>5. Distinct(ws)
  BY <1>1, <1>2, <1>4 DEF Distinct
<1>6. \A j \in DOMAIN ws : ws[j].reply \in Replies
  BY <1>2, <1>3, <1>4, PollReplyType
<1>7. /\ WakeAll(ws) \in Seq(Conn) /\ DOMAIN WakeAll(ws) = DOMAIN conns
      /\ \A k \in DOMAIN conns :
           \/ WakeAll(ws)[k] = conns[k] /\ \A j \in DOMAIN ws : ws[j].fd # conns[k].fd
           \/ \E j \in DOMAIN ws : /\ ws[j].fd = conns[k].fd
                                   /\ WakeAll(ws)[k] = StartWriting(conns[k], ws[j].reply)
  BY <1>2, <1>3, <1>5, <1>6, WakeFacts
<1>8. ASSUME NEW k \in DOMAIN conns
      PROVE  \/ WakeAll(ws)[k] = conns[k] /\ \A i \in I : waiters[i].fd # conns[k].fd
             \/ \E i \in I : WokenBy(conns[k], WakeAll(ws)[k], waiters[i], U)
  <2>1. CASE WakeAll(ws)[k] = conns[k] /\ \A j \in DOMAIN ws : ws[j].fd # conns[k].fd
    <3>1. ASSUME NEW i \in I
          PROVE  waiters[i].fd # conns[k].fd
      <4>1. PICK p \in DOMAIN t : t[p] = waiters[i]
        BY <1>1
      <4>2. ws[p].fd = t[p].fd
        BY <1>2, <1>4
      <4> QED
        BY <1>2, <2>1, <4>1, <4>2
    <3> QED
      BY <2>1, <3>1
  <2>2. CASE \E j \in DOMAIN ws : /\ ws[j].fd = conns[k].fd
                                  /\ WakeAll(ws)[k] = StartWriting(conns[k], ws[j].reply)
    <3>1. PICK j \in DOMAIN ws : /\ ws[j].fd = conns[k].fd
                                 /\ WakeAll(ws)[k] = StartWriting(conns[k], ws[j].reply)
      BY <2>2
    <3>2. ws[j].fd = t[j].fd /\ ws[j].reply = PollReply(t[j], U[t[j]])
      BY <1>4
    <3>3. PICK i \in I : t[j] = waiters[i]
      BY <1>1, <1>2
    <3>4. waiters[i] \in Waiter /\ conns[k] \in Conn /\ U[waiters[i]] \in Int
      BY ElementOfSeq, LenProperties
    <3>5. WakeAll(ws)[k] = StartWriting(conns[k], PollReply(waiters[i], U[waiters[i]]))
      BY <3>1, <3>2, <3>3
    <3>6. WokenBy(conns[k], WakeAll(ws)[k], waiters[i], U)
      <4> DEFINE u == U[waiters[i]]
                 r == PollReply(waiters[i], u)
      <4>1. /\ r \in Replies /\ r.op = "poll" /\ r.ch = waiters[i].ch
            /\ r.since = waiters[i].since /\ r.upto = u
        BY <3>4, PollReplyType
      <4> HIDE DEF r
      <4>2. LET d == StartWriting(conns[k], r) IN
              d.fd = conns[k].fd /\ d.phase = "WRITING" /\ d.reply = r
        BY <3>4, <4>1, StartWritingType
      <4>3. waiters[i].fd = conns[k].fd
        BY <3>1, <3>2, <3>3
      <4> QED
        BY <3>5, <4>1, <4>2, <4>3 DEF WokenBy, r
    <3> QED
      BY <3>6
  <2> QED
    BY <1>7, <2>1, <2>2
<1>9. \A k \in DOMAIN conns : WakeAll(ws)[k].fd = conns[k].fd
  BY <1>8 DEF WokenBy
<1> QED
  BY <1>7, <1>8, <1>9

-----------------------------------------------------------------------------
(***************************************************************************)
(* What a handler knows: its connection has a request, and a place in the     *)
(* table.                                                                   *)
(***************************************************************************)
LEMMA RequestType ==
  ASSUME NEW r \in Requests
  PROVE  r.op \in Ops /\ r.ch \in Channel /\ r.since \in Int /\ r.wait \in Int
BY RequestAssumption DEF Ops

LEMMA SockType ==
  ASSUME TypeInv, NEW fd \in FD
  PROVE  /\ sock[fd] = Closed \/ sock[fd] \in Idle \/ sock[fd] \in Heard
         /\ sock[fd].sent \in Int /\ sock[fd].sent <= READ_CAP + 1
         /\ sock[fd] # Closed <=> sock[fd].sent >= 0
         /\ sock[fd].sent > 0 <=> sock[fd] \in Heard
         /\ sock[fd] \in Heard => sock[fd].req \in Requests
         /\ sock[fd].open => sock[fd] # Closed
BY DEF TypeInv, Closed, Idle, Heard, READ_CAP

LEMMA CurType ==
  ASSUME TypeInv, Scanning
  PROVE  /\ at \in DOMAIN conns /\ Cur = conns[at] /\ Cur \in Conn /\ Cur.fd \in FD
         /\ Cur.got \in 0 .. READ_CAP /\ Cur.phase \in Phases
<1>1. Len(conns) \in Nat /\ DOMAIN conns = 1 .. Len(conns)
  BY LenProperties DEF TypeInv
<1>2. at \in DOMAIN conns
  BY <1>1 DEF TypeInv, Scanning
<1>3. conns[at] \in Conn
  BY <1>2, ElementOfSeq, LenProperties DEF TypeInv
<1> QED
  BY <1>2, <1>3 DEF Cur, Conn

LEMMA HandlesFacts ==
  ASSUME TypeInv, NEW ops, Handles(ops)
  PROVE  /\ Scanning /\ Cur.phase = "READING" /\ at \in DOMAIN conns /\ Cur \in Conn
         /\ Cur.fd \in FD /\ Cur = conns[at]
         /\ sock[Cur.fd] \in Heard /\ Req \in Requests /\ Req.op \in ops
         /\ Req = sock[Cur.fd].req
         /\ sock[Cur.fd].sent > 0
<1>1. PICK n \in 1 .. READ_CAP : Reads(n) /\ ~ Incomplete(n) /\ Req.op \in ops
  BY DEF Handles
<1>2. /\ Scanning /\ Cur.phase = "READING" /\ Pending
      /\ n <= sock[Cur.fd].sent
  <2>1. Scanning
    BY <1>1 DEF Reads, CanRead
  <2>2. Cur.fd \in FD /\ Cur.got \in 0 .. READ_CAP
    BY <2>1, CurType
  <2>3. sock[Cur.fd].sent \in Int
    BY <2>2, SockType
  <2>4. n \in Cur.got + 1 .. Min2(sock[Cur.fd].sent, READ_CAP)
    BY <1>1 DEF Reads
  <2> QED
    BY <1>1, <2>1, <2>2, <2>3, <2>4 DEF Reads, CanRead, Min2, READ_CAP
<1>3. /\ at \in DOMAIN conns /\ Cur \in Conn /\ Cur.fd \in FD /\ Cur = conns[at]
      /\ Cur.got \in 0 .. READ_CAP
  BY <1>2, CurType
<1>4. sock[Cur.fd].sent > 0
  BY <1>2, <1>3, SockType DEF Pending
<1>5. sock[Cur.fd] \in Heard /\ Req \in Requests
  BY <1>3, <1>4, SockType DEF Req
<1> QED
  BY <1>1, <1>2, <1>3, <1>4, <1>5 DEF Req

-----------------------------------------------------------------------------
(***************************************************************************)
(* What the steps that change the tables do to them.                         *)
(***************************************************************************)
Inv ==
  /\ TypeInv /\ OneConnPerSocket /\ Owned /\ Closing /\ MarkedAwake
  /\ WaitersAreParked /\ ParkedAsked /\ NoMissedWakeup /\ AnswersOwnRequest

(* The answer to its own request is staged on connection c. *)
Answered(c, r) ==
  /\ c.phase = "WRITING"
  /\ c.reply.op = r.op /\ c.reply.ch = r.ch /\ c.reply.since = r.since

(* The waiters at I have left the list; of the connections K those they stand  *)
(* for have been woken as U says, and no other has changed.                  *)
Drained(I, K, U) ==
  /\ waiters' \in Seq(Waiter) /\ Distinct(waiters')
  /\ \A p \in DOMAIN waiters' : \E i \in DOMAIN waiters \ I : waiters'[p] = waiters[i]
  /\ \A i \in DOMAIN waiters \ I : \E p \in DOMAIN waiters' : waiters'[p] = waiters[i]
  /\ \A k \in K :
       \/ conns'[k] = conns[k] /\ \A i \in I : waiters[i].fd # conns[k].fd
       \/ \E i \in I : WokenBy(conns[k], conns'[k], waiters[i], U)

LEMMA AppendFacts ==
  ASSUME NEW T, NEW s \in Seq(T), NEW x \in T
  PROVE  /\ Append(s, x) \in Seq(T)
         /\ DOMAIN Append(s, x) = DOMAIN s \cup {Len(s) + 1} /\ Len(s) + 1 \notin DOMAIN s
         /\ \A k \in DOMAIN s : Append(s, x)[k] = s[k]
         /\ Append(s, x)[Len(s) + 1] = x
BY AppendProperties, LenProperties

LEMMA ReplaceFacts ==
  ASSUME NEW T, NEW s \in Seq(T), NEW i \in DOMAIN s, NEW x \in T
  PROVE  /\ [s EXCEPT ![i] = x] \in Seq(T)
         /\ DOMAIN [s EXCEPT ![i] = x] = DOMAIN s
         /\ [s EXCEPT ![i] = x][i] = x
         /\ \A k \in DOMAIN s : k # i => [s EXCEPT ![i] = x][k] = s[k]
BY ExceptSeq

LEMMA ParkedFacts ==
  ASSUME Inv
  PROVE  /\ Distinct(conns) /\ Distinct(waiters)
         /\ \A k \in DOMAIN conns : conns[k] \in Conn
         /\ \A i \in DOMAIN waiters : waiters[i] \in Waiter
         /\ \A i \in DOMAIN waiters :
              \E k \in DOMAIN conns : conns[k].fd = waiters[i].fd /\ conns[k].phase = "WAITING"
         /\ \A k \in DOMAIN conns :
              conns[k].phase = "WAITING" => \E i \in DOMAIN waiters : waiters[i].fd = conns[k].fd
         /\ \A k \in DOMAIN conns : \A i \in DOMAIN waiters :
              conns[k].fd = waiters[i].fd => conns[k].phase = "WAITING"
<1>1. Distinct(conns) /\ Distinct(waiters)
  BY DEF Inv, OneConnPerSocket, WaitersAreParked, Distinct
<1>2. /\ \A k \in DOMAIN conns : conns[k] \in Conn
      /\ \A i \in DOMAIN waiters : waiters[i] \in Waiter
  BY ElementOfSeq, LenProperties DEF Inv, TypeInv
<1>3. {waiters[k].fd : k \in DOMAIN waiters} = FdsIn("WAITING")
  BY DEF Inv, WaitersAreParked
<1>4. /\ \A i \in DOMAIN waiters :
           \E k \in DOMAIN conns : conns[k].fd = waiters[i].fd /\ conns[k].phase = "WAITING"
      /\ \A k \in DOMAIN conns :
           conns[k].phase = "WAITING" => \E i \in DOMAIN waiters : waiters[i].fd = conns[k].fd
  BY <1>3 DEF FdsIn
<1> QED
  BY <1>1, <1>2, <1>4 DEF Distinct

LEMMA AnswerType ==
  ASSUME TypeInv, NEW ops, Handles(ops), NEW c \in Conn, NEW u \in Int
  PROVE  Answer(c, u) \in Conn /\ Answer(c, u).fd = c.fd /\ Answered(Answer(c, u), Req)
<1> DEFINE d == [c EXCEPT !.got = READ_CAP]
           r == [op |-> Req.op, ch |-> Req.ch, since |-> Req.since, upto |-> u]
<1>1. d \in Conn /\ d.fd = c.fd
  BY DEF Conn, READ_CAP
<1>2. Req \in Requests
  BY HandlesFacts
<1>3. r \in Replies /\ r.op = Req.op /\ r.ch = Req.ch /\ r.since = Req.since
  BY <1>2, RequestType DEF Replies
<1>4. Answer(c, u) = StartWriting(d, r)
  BY DEF Answer
<1> HIDE DEF d, r
<1> QED
  BY <1>1, <1>3, <1>4, StartWritingType DEF Answered

(* An answer on the spot: to a plain request, or to a poll when there is news. *)
LEMMA AnswerEffect ==
  ASSUME Inv, HandlePlain \/ PollNow
  PROVE  /\ Scanning /\ at \in DOMAIN conns /\ Cur = conns[at] /\ Cur.phase = "READING"
         /\ sock[Cur.fd] \in Heard /\ Req = sock[Cur.fd].req /\ Req \in Requests
         /\ sock[Cur.fd].sent > 0
         /\ conns' \in Seq(Conn) /\ DOMAIN conns' = DOMAIN conns
         /\ \A k \in DOMAIN conns : k # at => conns'[k] = conns[k]
         /\ conns'[at].fd = Cur.fd /\ Answered(conns'[at], Req)
         /\ channels' = channels \/ channels' = EnsureChannel(Req.ch)
         /\ at' = at + 1 /\ pc' = pc /\ UNCHANGED <<sock, waiters, toClose>>
<1>1. /\ TypeInv /\ conns \in Seq(Conn)
      /\ DOMAIN channels \subseteq Channel /\ channels \in [DOMAIN channels -> Nat]
  BY DEF Inv, TypeInv
<1>2. PICK u \in Int :
        /\ conns' = [conns EXCEPT ![at] = Answer(@, u)]
        /\ Handles({"page"}) \/ Handles({"create"}) \/ CutOff \/ Handles({"poll"})
  <2>1. CASE HandlePlain
    <3>1. /\ conns' = [conns EXCEPT ![at] = Answer(@, 0)]
          /\ Handles({"page"}) \/ Handles({"create"}) \/ CutOff
      BY <2>1 DEF HandlePlain
    <3>2. 0 \in Int
      OBVIOUS
    <3> QED
      BY <3>1, <3>2
  <2>2. CASE PollNow
    <3>1. /\ conns' = [conns EXCEPT ![at] = Answer(@, channels[Req.ch])] /\ Handles({"poll"})
          /\ Req.ch \in DOMAIN channels
      BY <2>2 DEF PollNow
    <3>2. channels[Req.ch] \in Int
      BY <1>1, <3>1
    <3> QED
      BY <3>1, <3>2
  <2> QED
    BY <2>1, <2>2
<1>3. /\ channels' = channels \/ channels' = EnsureChannel(Req.ch)
      /\ at' = at + 1 /\ pc' = pc /\ UNCHANGED <<sock, waiters, toClose>>
  BY DEF HandlePlain, PollNow, NextConn, kernel, chat
<1>4. /\ Scanning /\ Cur.phase = "READING" /\ at \in DOMAIN conns /\ Cur \in Conn
      /\ Cur = conns[at]
      /\ sock[Cur.fd] \in Heard /\ Req \in Requests
      /\ Req = sock[Cur.fd].req /\ sock[Cur.fd].sent > 0
  BY <1>1, <1>2, HandlesFacts DEF CutOff
<1>5. /\ Answer(conns[at], u) \in Conn /\ Answer(conns[at], u).fd = Cur.fd
      /\ Answered(Answer(conns[at], u), Req)
  <2>1. PICK ops \in {{"page"}, {"create"}, {"create", "send"}, {"poll"}} : Handles(ops)
    BY <1>2 DEF CutOff
  <2>2. conns[at] \in Conn
    BY <1>4
  <2> QED
    BY <1>1, <1>4, <2>1, <2>2, AnswerType
<1>6. conns' = [conns EXCEPT ![at] = Answer(conns[at], u)]
  BY <1>2
<1>7. /\ conns' \in Seq(Conn) /\ DOMAIN conns' = DOMAIN conns
      /\ conns'[at] = Answer(conns[at], u)
      /\ \A k \in DOMAIN conns : k # at => conns'[k] = conns[k]
  BY <1>1, <1>4, <1>5, <1>6, ReplaceFacts
<1> QED
  BY <1>3, <1>4, <1>5, <1>7

(* A send wakes the waiters of its channel that are behind it, then answers. *)
LEMMA SendEffect ==
  ASSUME Inv, HandleSend
  PROVE  /\ Scanning /\ at \in DOMAIN conns /\ Cur = conns[at] /\ Cur.phase = "READING"
         /\ sock[Cur.fd] \in Heard /\ Req = sock[Cur.fd].req /\ Req \in Requests
         /\ sock[Cur.fd].sent > 0 /\ Req.op = "send"
         /\ conns' \in Seq(Conn) /\ DOMAIN conns' = DOMAIN conns
         /\ conns'[at].fd = Cur.fd /\ Answered(conns'[at], Req)
         /\ channels' = [EnsureChannel(Req.ch) EXCEPT ![Req.ch] = EnsureChannel(Req.ch)[Req.ch] + 1]
         /\ at' = at + 1 /\ pc' = pc /\ UNCHANGED <<sock, toClose>>
         /\ \E I \in SUBSET DOMAIN waiters :
              /\ \A i \in DOMAIN waiters :
                   i \in I <=> Woken(waiters[i], Req.ch, EnsureChannel(Req.ch)[Req.ch] + 1)
              /\ Drained(I, DOMAIN conns \ {at}, Told(EnsureChannel(Req.ch)[Req.ch] + 1))
<1> DEFINE upto == EnsureChannel(Req.ch)[Req.ch] + 1
           I == {i \in DOMAIN waiters : Woken(waiters[i], Req.ch, upto)}
           J == DOMAIN waiters \ I
           taken == Picked(waiters, I)
           ws == [j \in DOMAIN taken |-> Wakeup(taken[j], upto)]
           woken == WakeAll(ws)
<1>1. /\ TypeInv /\ conns \in Seq(Conn) /\ waiters \in Seq(Waiter)
      /\ DOMAIN channels \subseteq Channel /\ channels \in [DOMAIN channels -> Nat]
      /\ Distinct(conns) /\ Distinct(waiters)
      /\ \A k \in DOMAIN conns : conns[k] \in Conn
      /\ \A i \in DOMAIN waiters : waiters[i] \in Waiter
  BY ParkedFacts DEF Inv, TypeInv
<1>2. Handles({"send"})
  BY DEF HandleSend
<1>3. /\ Scanning /\ Cur.phase = "READING" /\ at \in DOMAIN conns /\ Cur \in Conn
      /\ Cur = conns[at]
      /\ sock[Cur.fd] \in Heard /\ Req \in Requests
      /\ Req = sock[Cur.fd].req /\ sock[Cur.fd].sent > 0
      /\ Req.op = "send"
  BY <1>1, <1>2, HandlesFacts
<1>4. /\ channels' = [EnsureChannel(Req.ch) EXCEPT ![Req.ch] = upto]
      /\ conns' = [woken EXCEPT ![at] = Answer(@, 0)]
      /\ UNCHANGED <<sock, toClose>> /\ at' = at + 1 /\ pc' = pc
  BY DEF HandleSend, NextConn, kernel, Sift, Passing
<1>5. waiters' = Picked(waiters, {i \in DOMAIN waiters : ~ Woken(waiters[i], Req.ch, upto)})
  BY DEF HandleSend, Sift, Passing
<1>6. waiters' = Picked(waiters, J)
  <2>1. {i \in DOMAIN waiters : ~ Woken(waiters[i], Req.ch, upto)} = J
    OBVIOUS
  <2> QED
    BY <1>5, <2>1
<1>7. upto \in Int
  BY <1>1 DEF EnsureChannel
<1>8. /\ I \in SUBSET DOMAIN waiters /\ J \in SUBSET DOMAIN waiters
      /\ \A i \in DOMAIN waiters : i \in I <=> Woken(waiters[i], Req.ch, upto)
      /\ J = DOMAIN waiters \ I
  OBVIOUS
<1>9. /\ Told(upto) \in [Waiter -> Int] /\ DOMAIN ws = DOMAIN taken
      /\ \A j \in DOMAIN ws : ws[j] = Wakeup(taken[j], Told(upto)[taken[j]])
  <2>1. taken \in Seq(Waiter)
    BY <1>1, <1>8, PickedFacts
  <2> HIDE DEF taken, upto
  <2>2. \A j \in DOMAIN taken : taken[j] \in Waiter
    BY <2>1, ElementOfSeq, LenProperties
  <2> QED
    BY <1>7, <2>2 DEF Told
<1> HIDE DEF upto, I, J
<1>10. /\ woken \in Seq(Conn) /\ DOMAIN woken = DOMAIN conns
       /\ \A k \in DOMAIN conns :
            /\ woken[k].fd = conns[k].fd
            /\ \/ woken[k] = conns[k] /\ \A i \in I : waiters[i].fd # conns[k].fd
               \/ \E i \in I : WokenBy(conns[k], woken[k], waiters[i], Told(upto))
  <2> HIDE DEF ws
  <2> QED
    BY <1>1, <1>8, <1>9, DrainFacts
<1>11. /\ waiters' \in Seq(Waiter) /\ Distinct(waiters')
       /\ \A p \in DOMAIN waiters' : \E i \in J : waiters'[p] = waiters[i]
       /\ \A i \in J : \E p \in DOMAIN waiters' : waiters'[p] = waiters[i]
  <2>1. /\ Picked(waiters, J) \in Seq(Waiter) /\ Distinct(Picked(waiters, J))
        /\ \A p \in DOMAIN Picked(waiters, J) : \E i \in J : Picked(waiters, J)[p] = waiters[i]
        /\ \A i \in J : \E p \in DOMAIN Picked(waiters, J) : Picked(waiters, J)[p] = waiters[i]
    <3>1. waiters \in Seq(Waiter) /\ Distinct(waiters) /\ J \in SUBSET DOMAIN waiters
      BY <1>1, <1>8
    <3> QED
      BY ONLY <3>1, PickedFacts
  <2>2. Distinct(Picked(waiters, J)) <=> Distinct(waiters')
    BY <1>6 DEF Distinct
  <2> QED
    BY <1>6, <2>1, <2>2
<1> HIDE DEF woken
<1>12. woken[at] \in Conn /\ woken[at].fd = Cur.fd
  BY <1>3, <1>10, ElementOfSeq, LenProperties
<1>13. /\ Answer(woken[at], 0) \in Conn /\ Answer(woken[at], 0).fd = Cur.fd
       /\ Answered(Answer(woken[at], 0), Req)
  BY <1>1, <1>2, <1>12, AnswerType
<1>14. conns' = [woken EXCEPT ![at] = Answer(woken[at], 0)]
  BY <1>4
<1>15. /\ conns' \in Seq(Conn) /\ DOMAIN conns' = DOMAIN conns
       /\ conns'[at] = Answer(woken[at], 0)
       /\ \A k \in DOMAIN conns : k # at => conns'[k] = woken[k]
  BY <1>3, <1>10, <1>13, <1>14, ReplaceFacts
<1>16. Drained(I, DOMAIN conns \ {at}, Told(upto))
  BY <1>8, <1>10, <1>11, <1>15 DEF Drained
<1>17. \E L \in SUBSET DOMAIN waiters :
         /\ \A i \in DOMAIN waiters : i \in L <=> Woken(waiters[i], Req.ch, upto)
         /\ Drained(L, DOMAIN conns \ {at}, Told(upto))
  BY <1>8, <1>16
<1> QED
  BY <1>3, <1>4, <1>13, <1>15, <1>17 DEF upto

(* Whose deadline has passed is answered with what there was when it parked. *)
LEMMA ExpireEffect ==
  ASSUME Inv, DrainExpired
  PROVE  /\ conns' \in Seq(Conn) /\ DOMAIN conns' = DOMAIN conns
         /\ \A k \in DOMAIN conns : conns'[k].fd = conns[k].fd
         /\ toClose = <<>> /\ pc' = "build" /\ UNCHANGED <<sock, channels, toClose, at>>
         /\ \E I \in SUBSET DOMAIN waiters : Drained(I, DOMAIN conns, OwnCursor)
<1> DEFINE I == {i \in DOMAIN waiters : waiters[i].left = 0}
           J == DOMAIN waiters \ I
           taken == Picked(waiters, I)
           ws == [j \in DOMAIN taken |-> Wakeup(taken[j], taken[j].since)]
<1>1. /\ conns \in Seq(Conn) /\ waiters \in Seq(Waiter)
      /\ Distinct(conns) /\ Distinct(waiters)
      /\ \A i \in DOMAIN waiters : waiters[i] \in Waiter
  BY ParkedFacts DEF Inv, TypeInv
<1>2. /\ conns' = WakeAll(ws)
      /\ toClose = <<>> /\ pc' = "build" /\ UNCHANGED <<sock, channels, toClose, at>>
  BY DEF DrainExpired, kernel, loop, Sift, Passing
<1>3. waiters' = Picked(waiters, {i \in DOMAIN waiters : ~ (waiters[i].left = 0)})
  BY DEF DrainExpired, Sift, Passing
<1>4. waiters' = Picked(waiters, J)
  <2>1. {i \in DOMAIN waiters : ~ (waiters[i].left = 0)} = J
    OBVIOUS
  <2> QED
    BY <1>3, <2>1
<1>5. I \in SUBSET DOMAIN waiters /\ J \in SUBSET DOMAIN waiters /\ J = DOMAIN waiters \ I
  OBVIOUS
<1> HIDE DEF I, J
<1>6. \A j \in DOMAIN taken : taken[j] \in Waiter
  <2>1. taken \in Seq(Waiter)
    BY <1>1, <1>5, PickedFacts
  <2> HIDE DEF taken
  <2> QED
    BY <2>1, ElementOfSeq, LenProperties
<1>7. /\ OwnCursor \in [Waiter -> Int] /\ DOMAIN ws = DOMAIN taken
      /\ \A j \in DOMAIN ws : ws[j] = Wakeup(taken[j], OwnCursor[taken[j]])
  <2>1. \A w \in Waiter : w.since \in Int
    BY DEF Waiter
  <2> QED
    BY <1>6, <2>1 DEF OwnCursor
<1> HIDE DEF ws
<1>8. /\ WakeAll(ws) \in Seq(Conn) /\ DOMAIN WakeAll(ws) = DOMAIN conns
      /\ \A k \in DOMAIN conns :
           /\ WakeAll(ws)[k].fd = conns[k].fd
           /\ \/ WakeAll(ws)[k] = conns[k] /\ \A i \in I : waiters[i].fd # conns[k].fd
              \/ \E i \in I : WokenBy(conns[k], WakeAll(ws)[k], waiters[i], OwnCursor)
  BY <1>1, <1>5, <1>7, DrainFacts
<1>9. /\ waiters' \in Seq(Waiter) /\ Distinct(waiters')
      /\ \A p \in DOMAIN waiters' : \E i \in J : waiters'[p] = waiters[i]
      /\ \A i \in J : \E p \in DOMAIN waiters' : waiters'[p] = waiters[i]
  <2>1. /\ Picked(waiters, J) \in Seq(Waiter) /\ Distinct(Picked(waiters, J))
        /\ \A p \in DOMAIN Picked(waiters, J) : \E i \in J : Picked(waiters, J)[p] = waiters[i]
        /\ \A i \in J : \E p \in DOMAIN Picked(waiters, J) : Picked(waiters, J)[p] = waiters[i]
    <3>1. waiters \in Seq(Waiter) /\ Distinct(waiters) /\ J \in SUBSET DOMAIN waiters
      BY <1>1, <1>5
    <3> QED
      BY ONLY <3>1, PickedFacts
  <2>2. Distinct(Picked(waiters, J)) <=> Distinct(waiters')
    BY <1>4 DEF Distinct
  <2> QED
    BY <1>4, <2>1, <2>2
<1>10. Drained(I, DOMAIN conns, OwnCursor)
  BY <1>2, <1>5, <1>8, <1>9 DEF Drained
<1> QED
  BY <1>2, <1>5, <1>8, <1>10

LEMMA ParkEffect ==
  ASSUME Inv, PollPark
  PROVE  /\ Scanning /\ at \in DOMAIN conns /\ Cur = conns[at] /\ Cur.phase = "READING"
         /\ sock[Cur.fd] \in Heard /\ Req = sock[Cur.fd].req /\ Req \in Requests
         /\ sock[Cur.fd].sent > 0 /\ Req.op = "poll"
         /\ ~ (Req.ch \in DOMAIN channels /\ channels[Req.ch] > Req.since)
         /\ conns' \in Seq(Conn) /\ DOMAIN conns' = DOMAIN conns
         /\ \A k \in DOMAIN conns : k # at => conns'[k] = conns[k]
         /\ conns'[at].fd = Cur.fd /\ conns'[at].phase = "WAITING"
         /\ waiters' \in Seq(Waiter) /\ DOMAIN waiters' = DOMAIN waiters \cup {Len(waiters) + 1}
         /\ Len(waiters) + 1 \notin DOMAIN waiters
         /\ \A i \in DOMAIN waiters : waiters'[i] = waiters[i]
         /\ LET w == waiters'[Len(waiters) + 1] IN
              w.fd = Cur.fd /\ w.ch = Req.ch /\ w.since = Req.since
         /\ at' = at + 1 /\ pc' = pc /\ UNCHANGED <<sock, channels, toClose>>
<1> DEFINE w == [fd |-> Cur.fd, ch |-> Req.ch, since |-> Req.since, left |-> WaitMs(Req.wait)]
           c == [conns[at] EXCEPT !.got = READ_CAP, !.phase = "WAITING"]
<1>1. /\ TypeInv /\ conns \in Seq(Conn) /\ waiters \in Seq(Waiter)
  BY DEF Inv, TypeInv
<1>2. /\ Handles({"poll"})
      /\ ~ (Req.ch \in DOMAIN channels /\ channels[Req.ch] > Req.since)
      /\ waiters' = Append(waiters, w)
      /\ at' = at + 1 /\ pc' = pc /\ UNCHANGED <<sock, channels, toClose>>
  BY DEF PollPark, NextConn, kernel
<1>3. /\ Scanning /\ Cur.phase = "READING" /\ at \in DOMAIN conns /\ Cur \in Conn
      /\ Cur = conns[at]
      /\ Cur.fd \in FD /\ sock[Cur.fd] \in Heard /\ Req \in Requests
      /\ Req = sock[Cur.fd].req /\ sock[Cur.fd].sent > 0
      /\ Req.op = "poll"
  BY <1>1, <1>2, HandlesFacts
<1>4. c \in Conn /\ c.fd = Cur.fd /\ c.phase = "WAITING"
  <2> DEFINE d == [conns[at] EXCEPT !.got = READ_CAP]
  <2>1. d \in Conn /\ d.fd = Cur.fd
    BY <1>3 DEF Conn, READ_CAP
  <2>2. c = [d EXCEPT !.phase = "WAITING"]
    BY <1>3 DEF Conn
  <2> HIDE DEF d, c
  <2> QED
    BY <2>1, <2>2 DEF Conn, Phases
<1>5. conns' = [conns EXCEPT ![at] = c]
  BY <1>1, <1>3 DEF PollPark, Conn
<1>6. WaitMs(Req.wait) \in 0 .. MaxWait
  BY <1>3, RequestType, WaitAssumption DEF WaitMs, Min2
<1>7. w \in Waiter /\ w.fd = Cur.fd /\ w.ch = Req.ch /\ w.since = Req.since
  BY <1>3, <1>6, RequestType DEF Waiter
<1> HIDE DEF w, c
<1>8. /\ conns' \in Seq(Conn) /\ DOMAIN conns' = DOMAIN conns /\ conns'[at] = c
      /\ \A k \in DOMAIN conns : k # at => conns'[k] = conns[k]
  BY <1>1, <1>3, <1>4, <1>5, ReplaceFacts
<1>9. /\ waiters' \in Seq(Waiter) /\ DOMAIN waiters' = DOMAIN waiters \cup {Len(waiters) + 1}
      /\ Len(waiters) + 1 \notin DOMAIN waiters
      /\ \A i \in DOMAIN waiters : waiters'[i] = waiters[i]
      /\ waiters'[Len(waiters) + 1] = w
  BY <1>1, <1>2, <1>7, AppendFacts
<1> QED
  BY <1>2, <1>3, <1>4, <1>7, <1>8, <1>9

LEMMA ReadPartEffect ==
  ASSUME Inv, ReadPart
  PROVE  /\ Scanning /\ at \in DOMAIN conns /\ Cur = conns[at] /\ Cur.phase = "READING"
         /\ conns' \in Seq(Conn) /\ DOMAIN conns' = DOMAIN conns
         /\ \A k \in DOMAIN conns : k # at => conns'[k] = conns[k]
         /\ conns'[at].fd = Cur.fd /\ conns'[at].phase = "READING"
         /\ at' = at + 1 /\ pc' = pc /\ UNCHANGED <<sock, chat, toClose>>
<1>1. PICK n \in 1 .. READ_CAP : Reads(n) /\ conns' = [conns EXCEPT ![at].got = n]
  BY DEF ReadPart
<1>2. /\ Scanning /\ Cur.phase = "READING"
      /\ n \in Cur.got + 1 .. Min2(sock[Cur.fd].sent, READ_CAP)
  BY <1>1 DEF Reads, CanRead
<1>3. TypeInv /\ conns \in Seq(Conn)
  BY DEF Inv, TypeInv
<1>4. /\ at \in DOMAIN conns /\ Cur = conns[at] /\ Cur \in Conn /\ Cur.fd \in FD
      /\ Cur.got \in 0 .. READ_CAP
  BY <1>2, <1>3, CurType
<1> DEFINE c == [conns[at] EXCEPT !.got = n]
<1>5. c \in Conn /\ c.fd = Cur.fd /\ c.phase = "READING"
  BY <1>2, <1>4 DEF Conn, READ_CAP
<1>6. conns' = [conns EXCEPT ![at] = c]
  BY <1>1
<1> HIDE DEF c
<1>7. /\ conns' \in Seq(Conn) /\ DOMAIN conns' = DOMAIN conns /\ conns'[at] = c
      /\ \A k \in DOMAIN conns : k # at => conns'[k] = conns[k]
  BY <1>3, <1>4, <1>5, <1>6, ReplaceFacts
<1>8. at' = at + 1 /\ pc' = pc /\ UNCHANGED <<sock, chat, toClose>>
  BY DEF ReadPart, NextConn, kernel
<1> QED
  BY <1>2, <1>4, <1>5, <1>7, <1>8

LEMMA AcceptEffect ==
  ASSUME Inv, AcceptOne
  PROVE  /\ \E fd \in FD :
              /\ sock[fd] = Closed
              /\ sock' = [sock EXCEPT ![fd] = [sent |-> 0, open |-> TRUE]]
              /\ conns'[Len(conns) + 1] = Fresh(fd)
         /\ conns' \in Seq(Conn) /\ DOMAIN conns' = DOMAIN conns \cup {Len(conns) + 1}
         /\ Len(conns) + 1 \notin DOMAIN conns
         /\ \A k \in DOMAIN conns : conns'[k] = conns[k]
         /\ pc = "accept" /\ pc' = "scan" /\ at' = 1 /\ UNCHANGED <<chat, toClose>>
<1>1. PICK fd \in FD :
        /\ sock[fd] = Closed
        /\ sock' = [sock EXCEPT ![fd] = [sent |-> 0, open |-> TRUE]]
        /\ conns' = Append(conns, Fresh(fd))
  BY DEF AcceptOne
<1>2. pc = "accept" /\ pc' = "scan" /\ at' = 1 /\ UNCHANGED <<chat, toClose>>
  BY DEF AcceptOne
<1>3. Fresh(fd) \in Conn
  BY DEF Fresh, Conn, Phases, Replies, READ_CAP
<1>4. conns \in Seq(Conn)
  BY DEF Inv, TypeInv
<1>5. /\ conns' \in Seq(Conn) /\ DOMAIN conns' = DOMAIN conns \cup {Len(conns) + 1}
      /\ Len(conns) + 1 \notin DOMAIN conns
      /\ \A k \in DOMAIN conns : conns'[k] = conns[k]
      /\ conns'[Len(conns) + 1] = Fresh(fd)
  BY <1>1, <1>3, <1>4, AppendFacts
<1> QED
  BY <1>1, <1>2, <1>5

(* A close takes one descriptor out of every table. *)
LEMMA CloseEffect ==
  ASSUME Inv, CloseOne
  PROVE  /\ pc = "close" /\ pc' = pc /\ at' = at /\ channels' = channels
         /\ conns' \in Seq(Conn) /\ waiters' \in Seq(Waiter) /\ toClose' \in Seq(FD)
         /\ Distinct(conns') /\ Distinct(waiters')
         /\ \A p, q \in DOMAIN toClose' : toClose'[p] = toClose'[q] => p = q
         /\ \E fd \in FD :
              /\ \E j \in DOMAIN toClose : toClose[j] = fd
              /\ sock' = [sock EXCEPT ![fd] = Closed]
              /\ \A p \in DOMAIN conns' :
                   \E k \in DOMAIN conns : conns[k].fd # fd /\ conns'[p] = conns[k]
              /\ \A k \in DOMAIN conns :
                   conns[k].fd # fd => \E p \in DOMAIN conns' : conns'[p] = conns[k]
              /\ \A p \in DOMAIN waiters' :
                   \E i \in DOMAIN waiters : waiters[i].fd # fd /\ waiters'[p] = waiters[i]
              /\ \A i \in DOMAIN waiters :
                   waiters[i].fd # fd => \E p \in DOMAIN waiters' : waiters'[p] = waiters[i]
              /\ \A p \in DOMAIN toClose' :
                   \E j \in DOMAIN toClose : toClose[j] # fd /\ toClose'[p] = toClose[j]
<1> DEFINE fd == Head(toClose)
<1>1. /\ conns \in Seq(Conn) /\ waiters \in Seq(Waiter) /\ toClose \in Seq(FD)
      /\ Distinct(conns) /\ Distinct(waiters)
      /\ \A j, k \in DOMAIN toClose : toClose[j] = toClose[k] => j = k
      /\ \A j \in DOMAIN toClose : sock[toClose[j]] # Closed
      /\ \A f \in FD : sock[f] # Closed => \E k \in DOMAIN conns : conns[k].fd = f
  BY ParkedFacts DEF Inv, TypeInv, OneConnPerSocket
<1>2. /\ pc = "close" /\ pc' = pc /\ at' = at /\ channels' = channels
      /\ toClose # <<>> /\ toClose' = Tail(toClose)
      /\ waiters' = DropWaiter(fd)
      /\ conns' = (IF IndexOfFd(fd) = 0 THEN conns ELSE RemoveAt(conns, IndexOfFd(fd)))
      /\ sock' = (IF IndexOfFd(fd) = 0 THEN sock ELSE [sock EXCEPT ![fd] = Closed])
  BY DEF CloseOne
<1>3. fd \in FD /\ 1 \in DOMAIN toClose /\ fd = toClose[1]
  BY <1>1, <1>2, HeadTailProperties, LenProperties, EmptySeq
<1> HIDE DEF fd
<1>4. PICK i \in DOMAIN conns : conns[i].fd = fd
  BY <1>1, <1>3
<1>5. IndexOfFd(fd) = i /\ i # 0
  BY <1>1, <1>4, IndexFacts, LenProperties
<1>6. \A k \in DOMAIN conns : conns[k].fd # fd <=> k # i
  BY <1>1, <1>4 DEF Distinct
<1>7. /\ conns' \in Seq(Conn) /\ Distinct(RemoveAt(conns, i)) /\ conns' = RemoveAt(conns, i)
      /\ \A p \in DOMAIN conns' :
           \E k \in DOMAIN conns : conns[k].fd # fd /\ conns'[p] = conns[k]
      /\ \A k \in DOMAIN conns :
           conns[k].fd # fd => \E p \in DOMAIN conns' : conns'[p] = conns[k]
  BY <1>1, <1>2, <1>4, <1>5, <1>6, RemoveFacts
<1>8. /\ waiters' \in Seq(Waiter) /\ Distinct(DropWaiter(fd))
      /\ \A p \in DOMAIN waiters' :
           \E k \in DOMAIN waiters : waiters[k].fd # fd /\ waiters'[p] = waiters[k]
      /\ \A k \in DOMAIN waiters :
           waiters[k].fd # fd => \E p \in DOMAIN waiters' : waiters'[p] = waiters[k]
  BY <1>1, <1>2, DropFacts
<1>9. Distinct(conns') /\ Distinct(waiters')
  BY <1>2, <1>7, <1>8 DEF Distinct
<1>10. /\ toClose' \in Seq(FD)
       /\ \A p, q \in DOMAIN toClose' : toClose'[p] = toClose'[q] => p = q
       /\ \A p \in DOMAIN toClose' :
            \E j \in DOMAIN toClose : toClose[j] # fd /\ toClose'[p] = toClose[j]
  <2>1. Tail(toClose) \in Seq(FD) /\ PicksOut(Tail(toClose), toClose, DOMAIN toClose \ {1})
    BY <1>1, <1>2, TailPicksOut
  <2>2. PICK f \in [DOMAIN toClose' -> DOMAIN toClose \ {1}] :
          /\ \A p \in DOMAIN toClose' : toClose'[p] = toClose[f[p]]
          /\ \A p, q \in DOMAIN toClose' : f[p] = f[q] => p = q
    BY <1>2, <2>1, SMTT(30) DEF PicksOut
  <2>3. \A j \in DOMAIN toClose \ {1} : toClose[j] # fd
    BY <1>1, <1>3
  <2> QED
    BY <1>1, <1>2, <2>1, <2>2, <2>3, SMTT(30)
<1>11. sock' = [sock EXCEPT ![fd] = Closed]
  BY <1>2, <1>5
<1> QED
  BY <1>2, <1>3, <1>7, <1>8, <1>9, <1>10, <1>11

LEMMA ElapseEffect ==
  ASSUME Inv, Elapse
  PROVE  /\ waiters' \in Seq(Waiter) /\ DOMAIN waiters' = DOMAIN waiters
         /\ \A i \in DOMAIN waiters : /\ waiters'[i].fd = waiters[i].fd
                                      /\ waiters'[i].ch = waiters[i].ch
                                      /\ waiters'[i].since = waiters[i].since
         /\ UNCHANGED <<sock, conns, channels, pc, at, toClose>>
<1> DEFINE Older(w) == [w EXCEPT !.left = IF w.left > 0 THEN w.left - 1 ELSE 0]
<1>1. /\ waiters' = [i \in DOMAIN waiters |-> Older(waiters[i])]
      /\ UNCHANGED <<sock, conns, channels, pc, at, toClose>>
  BY DEF Elapse, kernel
<1>2. \A i \in DOMAIN waiters : waiters[i] \in Waiter
  BY ElementOfSeq, LenProperties DEF Inv, TypeInv
<1>3. ASSUME NEW w \in Waiter
      PROVE  /\ Older(w) \in Waiter /\ Older(w).fd = w.fd /\ Older(w).ch = w.ch
             /\ Older(w).since = w.since
  <2>1. (IF w.left > 0 THEN w.left - 1 ELSE 0) \in 0 .. MaxWait
    BY WaitAssumption DEF Waiter
  <2> QED
    BY <2>1 DEF Waiter
<1> HIDE DEF Older
<1>4. /\ DOMAIN waiters' = DOMAIN waiters
      /\ \A i \in DOMAIN waiters : waiters'[i] = Older(waiters[i])
  BY <1>1
<1>5. Len(waiters) \in Nat /\ DOMAIN waiters = 1 .. Len(waiters)
  BY LenProperties DEF Inv, TypeInv
<1>6. waiters' \in [1 .. Len(waiters) -> Waiter]
  BY <1>1, <1>2, <1>3, <1>5
<1>7. waiters' \in Seq(Waiter)
  BY <1>5, <1>6, SeqDef
<1> QED
  BY <1>1, <1>2, <1>3, <1>4, <1>7

(* What a client does to its socket: the request stays what it is. *)
LEMMA PeerEffect ==
  ASSUME Inv, NEW fd \in FD, SendPiece(fd) \/ HangUp(fd)
  PROVE  /\ sock' \in [FD -> {Closed} \cup Idle \cup Heard]
         /\ sock[fd] # Closed /\ sock'[fd] # Closed /\ sock[fd].sent <= sock'[fd].sent
         /\ sock[fd].sent > 0 => sock'[fd].sent > 0 /\ sock'[fd].req = sock[fd].req
         /\ \A g \in FD : g # fd => sock'[g] = sock[g]
         /\ UNCHANGED <<conns, channels, waiters, pc, at, toClose>>
<1> DEFINE Goes(s) == /\ sock' = [sock EXCEPT ![fd] = s] /\ sock[fd].sent <= s.sent
                      /\ sock[fd].sent > 0 => s.sent > 0 /\ s.req = sock[fd].req
<1>1. /\ sock \in [FD -> {Closed} \cup Idle \cup Heard] /\ TypeInv
      /\ UNCHANGED <<conns, channels, waiters, pc, at, toClose>>
      /\ sock[fd].open
  BY DEF Inv, TypeInv, SendPiece, HangUp, chat, loop
<1>2. /\ sock[fd] \in Idle \/ sock[fd] \in Heard
      /\ sock[fd] \in Heard <=> sock[fd].sent > 0
      /\ \A s \in Idle \cup Heard : s # Closed /\ s.sent \in Nat /\ (s \in Heard <=> s.sent > 0)
  <2>1. \A s \in Idle \cup Heard : s # Closed /\ s.sent \in Nat /\ (s \in Heard <=> s.sent > 0)
    BY DEF Idle, Heard, Closed, READ_CAP
  <2> QED
    BY <1>1, <2>1, SockType
<1>3. ASSUME NEW s \in Idle \cup Heard, sock' = [sock EXCEPT ![fd] = s],
             sock[fd].sent <= s.sent,
             sock[fd].sent > 0 => s.sent > 0 /\ s.req = sock[fd].req
      PROVE  /\ sock' \in [FD -> {Closed} \cup Idle \cup Heard]
             /\ sock'[fd] # Closed /\ sock[fd].sent <= sock'[fd].sent
             /\ sock[fd].sent > 0 => sock'[fd].sent > 0 /\ sock'[fd].req = sock[fd].req
             /\ \A g \in FD : g # fd => sock'[g] = sock[g]
  BY <1>1, <1>2, <1>3
<1>4. ASSUME NEW r \in Requests, sock[fd].sent = 0,
             sock' = [sock EXCEPT ![fd] = [req |-> r, sent |-> 1, open |-> TRUE]]
      PROVE  \E s \in Idle \cup Heard : Goes(s)
  <2> DEFINE s == [req |-> r, sent |-> 1, open |-> TRUE]
  <2>1. s \in Heard /\ s.sent = 1
    BY DEF Heard, READ_CAP
  <2>2. Goes(s)
    BY <1>4, <2>1
  <2> HIDE DEF s, Goes
  <2> QED
    BY <2>1, <2>2
<1>5. ASSUME sock[fd].sent > 0, sock[fd].sent < Pieces(sock[fd].req),
             sock' = [sock EXCEPT ![fd].sent = @ + 1]
      PROVE  \E s \in Idle \cup Heard : Goes(s)
  <2> DEFINE s == [sock[fd] EXCEPT !.sent = sock[fd].sent + 1]
  <2>1. sock[fd] \in Heard
    BY <1>2, <1>5
  <2>2. s \in Heard /\ s.sent = sock[fd].sent + 1 /\ s.req = sock[fd].req
    BY <1>5, <2>1 DEF Heard, Pieces, READ_CAP
  <2>3. sock' = [sock EXCEPT ![fd] = s]
    BY <1>5
  <2>4. sock[fd].sent \in Nat
    BY <1>2
  <2> HIDE DEF s
  <2>5. sock[fd].sent <= s.sent /\ s.sent > 0
    BY <2>2, <2>4
  <2>6. Goes(s)
    BY <2>2, <2>3, <2>5
  <2> HIDE DEF Goes
  <2> QED
    BY <2>2, <2>6
<1>6. ASSUME sock' = [sock EXCEPT ![fd].open = FALSE]
      PROVE  \E s \in Idle \cup Heard : Goes(s)
  <2> DEFINE s == [sock[fd] EXCEPT !.open = FALSE]
  <2>1. /\ s \in Idle \cup Heard /\ s.sent = sock[fd].sent
        /\ sock[fd] \in Heard => s.req = sock[fd].req
    BY <1>2 DEF Idle, Heard
  <2>2. sock' = [sock EXCEPT ![fd] = s]
    BY <1>6
  <2> HIDE DEF s
  <2>3. sock[fd].sent \in Nat
    BY <1>2
  <2>4. Goes(s)
    BY <1>2, <2>1, <2>2, <2>3
  <2> HIDE DEF Goes
  <2> QED
    BY <2>1, <2>4
<1>7. \E s \in Idle \cup Heard : Goes(s)
  <2>1. CASE SendPiece(fd)
    BY <1>4, <1>5, <2>1 DEF SendPiece
  <2>2. CASE HangUp(fd)
    BY <1>6, <2>2 DEF HangUp
  <2> QED
    BY <2>1, <2>2
<1> QED
  BY <1>1, <1>2, <1>3, <1>7

(* A connection that is over is marked for closing. *)
LEMMA MarkEffect ==
  ASSUME Inv, ReadEnds \/ WriteDone
  PROVE  /\ Scanning /\ at \in DOMAIN conns /\ Cur = conns[at] /\ Cur.fd \in FD
         /\ toClose' \in Seq(FD) /\ DOMAIN toClose' = DOMAIN toClose \cup {Len(toClose) + 1}
         /\ Len(toClose) + 1 \notin DOMAIN toClose
         /\ \A j \in DOMAIN toClose : toClose'[j] = toClose[j]
         /\ toClose'[Len(toClose) + 1] = Cur.fd
         /\ at' = at + 1 /\ pc' = pc /\ UNCHANGED <<sock, conns, channels, waiters>>
<1>1. /\ Scanning /\ toClose' = Append(toClose, Cur.fd)
      /\ at' = at + 1 /\ pc' = pc /\ UNCHANGED <<sock, conns, channels, waiters>>
  BY DEF ReadEnds, WriteDone, CanRead, CanWrite, NextConn, kernel, chat
<1>2. TypeInv /\ toClose \in Seq(FD)
  BY DEF Inv, TypeInv
<1>3. at \in DOMAIN conns /\ Cur = conns[at] /\ Cur.fd \in FD
  BY <1>1, <1>2, CurType
<1> QED
  BY <1>1, <1>2, <1>3, AppendFacts

(* The steps that leave sockets, connections, channels and waiters alone. *)
Quiet ==
  \/ Connect \/ SelectError \/ BuildSets \/ SelectOk \/ NoAccept \/ AcceptFails
  \/ SkipConn \/ ReadWouldBlock \/ WriteBlocks \/ EndScan \/ UNCHANGED vars

LEMMA QuietEffect ==
  ASSUME Quiet
  PROVE  /\ UNCHANGED <<sock, conns, channels, waiters, toClose>>
         /\ \/ pc' = pc /\ at' = at
            \/ /\ pc \notin {"scan", "close"} /\ pc' \in {"build", "select", "accept", "scan"}
               /\ at' = at \/ at' = 1
            \/ pc = "scan" /\ pc' = "scan" /\ at' = at + 1
            \/ pc = "scan" /\ pc' = "close" /\ at' = 1
<1>1. CASE Connect \/ UNCHANGED vars
  BY <1>1 DEF Connect, chat, loop, kernel, vars
<1>2. CASE SelectError \/ BuildSets \/ SelectOk \/ NoAccept \/ AcceptFails
  BY <1>2 DEF SelectError, BuildSets, SelectOk, NoAccept, AcceptFails, chat, kernel
<1>3. CASE SkipConn \/ ReadWouldBlock \/ WriteBlocks \/ EndScan
  BY <1>3 DEF SkipConn, ReadWouldBlock, WriteBlocks, EndScan, CanRead, CanWrite, Scanning,
              NextConn, chat, kernel
<1> QED
  BY <1>1, <1>2, <1>3 DEF Quiet

LEMMA StepCases ==
  ASSUME [Next]_vars
  PROVE  \/ Quiet \/ Elapse \/ ReadEnds \/ WriteDone \/ AcceptOne \/ ReadPart
         \/ HandlePlain \/ PollNow \/ HandleSend \/ PollPark \/ CloseOne \/ DrainExpired
         \/ \E fd \in FD : SendPiece(fd) \/ HangUp(fd)
BY DEF Next, Clients, Tick, Handler, Quiet

-----------------------------------------------------------------------------
(***************************************************************************)
(* Every step keeps each part of the invariant.                              *)
(***************************************************************************)
LEMMA EnsureType ==
  ASSUME TypeInv, NEW ch \in Channel
  PROVE  /\ EnsureChannel(ch) \in [DOMAIN channels \cup {ch} -> Nat]
         /\ DOMAIN channels \cup {ch} \subseteq Channel
         /\ \A c \in DOMAIN channels : EnsureChannel(ch)[c] = channels[c]
         /\ ch \notin DOMAIN channels => EnsureChannel(ch)[ch] = 0
BY DEF TypeInv, EnsureChannel

LEMMA SendChannels ==
  ASSUME TypeInv, NEW ch \in Channel,
         channels' = [EnsureChannel(ch) EXCEPT ![ch] = EnsureChannel(ch)[ch] + 1]
  PROVE  /\ channels' \in [DOMAIN channels \cup {ch} -> Nat]
         /\ DOMAIN channels' = DOMAIN channels \cup {ch}
         /\ DOMAIN channels' \subseteq Channel
         /\ channels'[ch] = EnsureChannel(ch)[ch] + 1
         /\ \A c \in DOMAIN channels : c # ch => channels'[c] = channels[c]
<1> DEFINE e == EnsureChannel(ch)
           D == DOMAIN channels \cup {ch}
           n == e[ch] + 1
<1>1. /\ e \in [D -> Nat] /\ D \subseteq Channel /\ ch \in D
      /\ \A c \in DOMAIN channels : c \in D /\ e[c] = channels[c]
  BY EnsureType
<1>2. channels' = [e EXCEPT ![ch] = n]
  OBVIOUS
<1> HIDE DEF e, D
<1>3. n \in Nat
  BY <1>1
<1> HIDE DEF n
<1>4. /\ channels' \in [D -> Nat] /\ channels'[ch] = n
      /\ \A c \in D : c # ch => channels'[c] = e[c]
  BY <1>1, <1>2, <1>3
<1> QED
  BY <1>1, <1>4 DEF D, e, n

LEMMA TypeStep == Inv /\ [Next]_vars => TypeInv'
<1> SUFFICES ASSUME Inv, [Next]_vars PROVE TypeInv'
  OBVIOUS
<1>1. /\ TypeInv
      /\ sock \in [FD -> {Closed} \cup Idle \cup Heard]
      /\ conns \in Seq(Conn) /\ waiters \in Seq(Waiter) /\ toClose \in Seq(FD)
      /\ DOMAIN channels \subseteq Channel /\ channels \in [DOMAIN channels -> Nat]
      /\ pc \in {"build", "select", "accept", "scan", "close"}
      /\ at \in Nat \ {0} /\ at + 1 \in Nat \ {0}
  BY DEF Inv, TypeInv
<1>2. CASE Quiet
  BY <1>1, <1>2, QuietEffect DEF TypeInv
<1>3. CASE Elapse
  BY <1>1, <1>3, ElapseEffect DEF TypeInv
<1>4. CASE ReadEnds \/ WriteDone
  BY <1>1, <1>4, MarkEffect DEF TypeInv
<1>5. CASE AcceptOne
  <2>1. PICK fd \in FD : sock' = [sock EXCEPT ![fd] = [sent |-> 0, open |-> TRUE]]
    BY <1>5, AcceptEffect
  <2>2. [sent |-> 0, open |-> TRUE] \in Idle
    BY DEF Idle
  <2>3. sock' \in [FD -> {Closed} \cup Idle \cup Heard]
    BY <1>1, <2>1, <2>2
  <2> QED
    BY <1>1, <1>5, <2>3, AcceptEffect DEF TypeInv, chat
<1>6. CASE ReadPart
  BY <1>1, <1>6, ReadPartEffect DEF TypeInv, chat
<1>7. CASE HandlePlain \/ PollNow
  <2>1. Req.ch \in Channel
    BY <1>7, AnswerEffect, RequestType
  <2>2. DOMAIN channels' \subseteq Channel /\ channels' \in [DOMAIN channels' -> Nat]
    <3>1. CASE channels' = channels
      BY <1>1, <3>1
    <3>2. CASE channels' = EnsureChannel(Req.ch)
      BY <1>1, <2>1, <3>2, EnsureType
    <3> QED
      BY <1>7, <3>1, <3>2, AnswerEffect
  <2> QED
    BY <1>1, <1>7, <2>2, AnswerEffect DEF TypeInv
<1>8. CASE HandleSend
  <2>1. Req.ch \in Channel
    BY <1>8, SendEffect, RequestType
  <2>2. channels' = [EnsureChannel(Req.ch) EXCEPT ![Req.ch] = EnsureChannel(Req.ch)[Req.ch] + 1]
    BY <1>8, SendEffect
  <2>3. DOMAIN channels' \subseteq Channel /\ channels' \in [DOMAIN channels' -> Nat]
    BY <1>1, <2>1, <2>2, SendChannels
  <2>4. waiters' \in Seq(Waiter)
    BY <1>8, SendEffect DEF Drained
  <2> QED
    BY <1>1, <1>8, <2>3, <2>4, SendEffect DEF TypeInv
<1>9. CASE PollPark
  BY <1>1, <1>9, ParkEffect DEF TypeInv
<1>10. CASE CloseOne
  <2>1. PICK fd \in FD : sock' = [sock EXCEPT ![fd] = Closed]
    BY <1>10, CloseEffect
  <2>2. sock' \in [FD -> {Closed} \cup Idle \cup Heard]
    BY <1>1, <2>1
  <2> QED
    BY <1>1, <1>10, <2>2, CloseEffect DEF TypeInv
<1>11. CASE DrainExpired
  BY <1>1, <1>11, ExpireEffect DEF TypeInv, Drained
<1>12. ASSUME NEW fd \in FD, SendPiece(fd) \/ HangUp(fd)
       PROVE  TypeInv'
  BY <1>1, <1>12, PeerEffect DEF TypeInv
<1> QED
  BY <1>2, <1>3, <1>4, <1>5, <1>6, <1>7, <1>8, <1>9, <1>10, <1>11, <1>12, StepCases

LEMMA SameFds ==
  ASSUME OneConnPerSocket,
         DOMAIN conns' = DOMAIN conns, \A k \in DOMAIN conns : conns'[k].fd = conns[k].fd,
         \A fd \in FD : sock'[fd] = Closed <=> sock[fd] = Closed,
         toClose \in Seq(FD), toClose' = toClose
  PROVE  OneConnPerSocket'
<1>1. \A j \in DOMAIN toClose : toClose[j] \in FD
  BY ElementOfSeq, LenProperties
<1> QED
  BY <1>1 DEF OneConnPerSocket

(* The connections whose handlers answer, park or read on keep their places. *)
LEMMA PlacesKept ==
  ASSUME Inv,
         Elapse \/ ReadPart \/ HandlePlain \/ PollNow \/ HandleSend \/ PollPark \/ DrainExpired
  PROVE  /\ DOMAIN conns' = DOMAIN conns
         /\ \A k \in DOMAIN conns : conns'[k].fd = conns[k].fd
         /\ sock' = sock /\ toClose' = toClose
         /\ \/ pc' = pc /\ at' = at
            \/ pc = "scan" /\ pc' = pc /\ at' = at + 1
            \/ toClose = <<>> /\ pc' = "build"
<1>1. CASE Elapse
  BY <1>1, ElapseEffect
<1>2. CASE ReadPart
  BY <1>2, ReadPartEffect DEF Scanning
<1>3. CASE HandlePlain \/ PollNow
  BY <1>3, AnswerEffect DEF Scanning
<1>4. CASE HandleSend
  <2>1. \A k \in DOMAIN conns : k # at => conns'[k].fd = conns[k].fd
    BY <1>4, SendEffect DEF Drained, WokenBy
  <2> QED
    BY <1>4, <2>1, SendEffect DEF Scanning
<1>5. CASE PollPark
  BY <1>5, ParkEffect DEF Scanning
<1>6. CASE DrainExpired
  BY <1>6, ExpireEffect
<1> QED
  BY <1>1, <1>2, <1>3, <1>4, <1>5, <1>6

LEMMA OneConnStep == Inv /\ [Next]_vars => OneConnPerSocket'
<1> SUFFICES ASSUME Inv, [Next]_vars PROVE OneConnPerSocket'
  OBVIOUS
<1>1. /\ OneConnPerSocket /\ Closing /\ TypeInv /\ toClose \in Seq(FD)
      /\ sock \in [FD -> {Closed} \cup Idle \cup Heard]
      /\ at \in Nat
  BY DEF Inv, TypeInv
<1>2. /\ \A fd \in FD : sock[fd] # Closed <=> \E k \in DOMAIN conns : conns[k].fd = fd
      /\ \A j, k \in DOMAIN conns : conns[j].fd = conns[k].fd => j = k
      /\ \A j, k \in DOMAIN toClose : toClose[j] = toClose[k] => j = k
      /\ \A j \in DOMAIN toClose : sock[toClose[j]] # Closed
      /\ \A j \in DOMAIN toClose : toClose[j] \in FD
  BY <1>1, ElementOfSeq, LenProperties DEF OneConnPerSocket
<1>3. CASE Quiet
  BY <1>1, <1>3, QuietEffect, SameFds
<1>4. CASE Elapse \/ ReadPart \/ HandlePlain \/ PollNow \/ HandleSend \/ PollPark \/ DrainExpired
  BY <1>1, <1>4, PlacesKept, SameFds
<1>5. CASE ReadEnds \/ WriteDone
  <2>1. /\ Scanning /\ at \in DOMAIN conns /\ Cur = conns[at] /\ Cur.fd \in FD
        /\ DOMAIN toClose' = DOMAIN toClose \cup {Len(toClose) + 1}
        /\ Len(toClose) + 1 \notin DOMAIN toClose
        /\ \A j \in DOMAIN toClose : toClose'[j] = toClose[j]
        /\ toClose'[Len(toClose) + 1] = Cur.fd
        /\ UNCHANGED <<sock, conns>>
    BY <1>5, MarkEffect
  <2>2. ASSUME NEW j \in DOMAIN toClose, toClose[j] = Cur.fd
        PROVE  FALSE
    <3>1. PICK k \in DOMAIN conns : k < at /\ conns[k].fd = toClose[j]
      BY <1>1, <2>1 DEF Closing, Scanning
    <3>2. k = at
      BY <1>2, <2>1, <2>2, <3>1
    <3> QED
      BY <1>1, <3>1, <3>2
  <2>3. sock[Cur.fd] # Closed
    BY <1>2, <2>1
  <2>4. \A j, k \in DOMAIN toClose' : toClose'[j] = toClose'[k] => j = k
    BY <1>2, <2>1, <2>2
  <2>5. \A j \in DOMAIN toClose' : sock'[toClose'[j]] # Closed
    BY <1>2, <2>1, <2>3
  <2> QED
    BY <1>2, <2>1, <2>4, <2>5 DEF OneConnPerSocket
<1>6. CASE AcceptOne
  <2>1. PICK fd \in FD :
          /\ sock[fd] = Closed
          /\ sock' = [sock EXCEPT ![fd] = [sent |-> 0, open |-> TRUE]]
          /\ conns'[Len(conns) + 1] = Fresh(fd)
    BY <1>6, AcceptEffect
  <2>2. /\ DOMAIN conns' = DOMAIN conns \cup {Len(conns) + 1}
        /\ Len(conns) + 1 \notin DOMAIN conns
        /\ \A k \in DOMAIN conns : conns'[k] = conns[k]
        /\ toClose' = toClose
    BY <1>6, AcceptEffect
  <2>3. Fresh(fd).fd = fd /\ [sent |-> 0, open |-> TRUE] # Closed
    BY DEF Fresh, Closed
  <2>4. /\ sock'[fd] # Closed
        /\ \A g \in FD : g # fd => sock'[g] = sock[g]
    BY <1>1, <2>1, <2>3
  <2>5. \A g \in FD : sock'[g] # Closed <=> \E k \in DOMAIN conns' : conns'[k].fd = g
    BY <1>2, <2>1, <2>2, <2>3, <2>4
  <2>6. \A k \in DOMAIN conns : conns[k].fd # fd
    BY <1>2, <2>1
  <2>7. \A j, k \in DOMAIN conns' : conns'[j].fd = conns'[k].fd => j = k
    BY <1>2, <2>1, <2>2, <2>3, <2>6
  <2>8. \A j \in DOMAIN toClose : sock'[toClose[j]] # Closed
    BY <1>2, <2>1, <2>4
  <2> QED
    BY <1>2, <2>2, <2>5, <2>7, <2>8 DEF OneConnPerSocket
<1>7. CASE CloseOne
  <2>1. PICK fd \in FD :
          /\ sock' = [sock EXCEPT ![fd] = Closed]
          /\ \A p \in DOMAIN conns' :
               \E k \in DOMAIN conns : conns[k].fd # fd /\ conns'[p] = conns[k]
          /\ \A k \in DOMAIN conns :
               conns[k].fd # fd => \E p \in DOMAIN conns' : conns'[p] = conns[k]
          /\ \A p \in DOMAIN toClose' :
               \E j \in DOMAIN toClose : toClose[j] # fd /\ toClose'[p] = toClose[j]
    BY <1>7, CloseEffect
  <2>2. /\ Distinct(conns')
        /\ \A p, q \in DOMAIN toClose' : toClose'[p] = toClose'[q] => p = q
    BY <1>7, CloseEffect
  <2>3. sock'[fd] = Closed /\ \A g \in FD : g # fd => sock'[g] = sock[g]
    BY <1>1, <2>1
  <2>4. ASSUME NEW g \in FD
        PROVE  sock'[g] # Closed <=> \E k \in DOMAIN conns' : conns'[k].fd = g
    <3>1. CASE g = fd
      BY <2>1, <2>3, <3>1
    <3>2. CASE g # fd
      BY <1>2, <2>1, <2>3, <3>2
    <3> QED
      BY <3>1, <3>2
  <2>5. \A p \in DOMAIN toClose' : sock'[toClose'[p]] # Closed
    BY <1>2, <2>1, <2>3
  <2> QED
    BY <2>2, <2>4, <2>5 DEF OneConnPerSocket, Distinct
<1>8. ASSUME NEW fd \in FD, SendPiece(fd) \/ HangUp(fd)
      PROVE  OneConnPerSocket'
  <2>1. /\ sock[fd] # Closed /\ sock'[fd] # Closed
        /\ \A g \in FD : g # fd => sock'[g] = sock[g]
        /\ conns' = conns /\ toClose' = toClose
    BY <1>8, PeerEffect
  <2> QED
    BY <1>1, <2>1, SameFds
<1> QED
  BY <1>3, <1>4, <1>5, <1>6, <1>7, <1>8, StepCases

LEMMA ClosingStep == Inv /\ [Next]_vars => Closing'
<1> SUFFICES ASSUME Inv, [Next]_vars PROVE Closing'
  OBVIOUS
<1>1. Closing /\ TypeInv /\ at \in Nat \ {0} /\ conns \in Seq(Conn)
  BY DEF Inv, TypeInv
<1>2. DOMAIN conns \subseteq Nat
  BY <1>1, LenProperties
<1>3. CASE Quiet
  BY <1>1, <1>2, <1>3, QuietEffect DEF Closing
<1>4. CASE Elapse \/ ReadPart \/ HandlePlain \/ PollNow \/ HandleSend \/ PollPark \/ DrainExpired
  BY <1>1, <1>2, <1>4, PlacesKept DEF Closing
<1>5. CASE ReadEnds \/ WriteDone
  <2>1. /\ pc = "scan" /\ pc' = pc /\ at' = at + 1 /\ conns' = conns
        /\ at \in DOMAIN conns /\ Cur = conns[at]
        /\ DOMAIN toClose' = DOMAIN toClose \cup {Len(toClose) + 1}
        /\ \A j \in DOMAIN toClose : toClose'[j] = toClose[j]
        /\ toClose'[Len(toClose) + 1] = Cur.fd
    BY <1>5, MarkEffect DEF Scanning
  <2>2. \A j \in DOMAIN toClose' :
          \E k \in DOMAIN conns : k < at + 1 /\ conns[k].fd = toClose'[j]
    BY <1>1, <1>2, <2>1 DEF Closing
  <2> QED
    BY <2>1, <2>2 DEF Closing
<1>6. CASE AcceptOne
  <2>1. toClose' = <<>> /\ pc' = "scan"
    BY <1>1, <1>6, AcceptEffect DEF Closing
  <2> QED
    BY <2>1 DEF Closing
<1>7. CASE CloseOne
  BY <1>7, CloseEffect DEF Closing
<1>8. ASSUME NEW fd \in FD, SendPiece(fd) \/ HangUp(fd)
      PROVE  Closing'
  BY <1>1, <1>8, PeerEffect DEF Closing
<1> QED
  BY <1>3, <1>4, <1>5, <1>6, <1>7, <1>8, StepCases

(* Who is woken was parked, and is told what it asked. *)
LEMMA WokenOwn ==
  ASSUME Inv, NEW k \in DOMAIN conns, NEW i \in DOMAIN waiters, NEW d, NEW U,
         WokenBy(conns[k], d, waiters[i], U)
  PROVE  /\ conns[k].phase = "WAITING" /\ d.fd = conns[k].fd
         /\ d.phase = "WRITING" /\ waiters[i].fd = conns[k].fd
         /\ sock[conns[k].fd].sent > 0
         /\ LET r == sock[conns[k].fd].req IN
              d.reply.op = r.op /\ d.reply.ch = r.ch /\ d.reply.since = r.since
<1>1. /\ waiters[i].fd = conns[k].fd /\ d.fd = conns[k].fd
      /\ d.phase = "WRITING"
      /\ d.reply.op = "poll" /\ d.reply.ch = waiters[i].ch /\ d.reply.since = waiters[i].since
  BY DEF WokenBy
<1>2. conns[k].phase = "WAITING"
  BY <1>1, ParkedFacts
<1>3. sock[conns[k].fd].sent > 0
  BY <1>2 DEF Inv, Owned
<1>4. LET r == sock[waiters[i].fd].req IN
      r.op = "poll" /\ r.ch = waiters[i].ch /\ r.since = waiters[i].since
  BY DEF Inv, ParkedAsked
<1> QED
  BY <1>1, <1>2, <1>3, <1>4

LEMMA OwnedStep == Inv /\ [Next]_vars => Owned'
<1> SUFFICES ASSUME Inv, [Next]_vars PROVE Owned'
  OBVIOUS
<1>1. /\ TypeInv /\ Owned /\ OneConnPerSocket
      /\ sock \in [FD -> {Closed} \cup Idle \cup Heard]
      /\ \A k \in DOMAIN conns : conns[k] \in Conn
  BY ParkedFacts DEF Inv, TypeInv
<1>2. \A k \in DOMAIN conns :
        conns[k].fd \in FD /\ sock[conns[k].fd].sent \in Int
  BY <1>1, SockType DEF Conn, READ_CAP
<1>3. \A k \in DOMAIN conns :
        conns[k].phase # "READING" => sock[conns[k].fd].sent > 0
  BY <1>1 DEF Owned
<1>4. CASE Quiet
  BY <1>3, <1>4, QuietEffect DEF Owned
<1>5. CASE Elapse
  BY <1>3, <1>5, ElapseEffect DEF Owned
<1>6. CASE ReadEnds \/ WriteDone
  BY <1>3, <1>6, MarkEffect DEF Owned
<1>7. CASE AcceptOne
  <2>1. PICK fd \in FD :
          /\ sock[fd] = Closed
          /\ sock' = [sock EXCEPT ![fd] = [sent |-> 0, open |-> TRUE]]
          /\ conns'[Len(conns) + 1] = Fresh(fd)
    BY <1>7, AcceptEffect
  <2>2. /\ DOMAIN conns' = DOMAIN conns \cup {Len(conns) + 1}
        /\ \A k \in DOMAIN conns : conns'[k] = conns[k]
    BY <1>7, AcceptEffect
  <2>3. Fresh(fd).fd = fd /\ Fresh(fd).phase = "READING"
    BY DEF Fresh
  <2>4. \A k \in DOMAIN conns : conns[k].fd # fd
    BY <1>1, <2>1 DEF OneConnPerSocket
  <2>5. sock'[fd].sent = 0 /\ \A g \in FD : g # fd => sock'[g] = sock[g]
    BY <1>1, <2>1
  <2> QED
    BY <1>2, <1>3, <2>1, <2>2, <2>3, <2>4, <2>5 DEF Owned
<1>8. CASE ReadPart
  BY <1>3, <1>8, ReadPartEffect DEF Owned
<1>9. CASE HandlePlain \/ PollNow
  <2>1. /\ DOMAIN conns' = DOMAIN conns /\ sock' = sock /\ sock[Cur.fd].sent > 0
        /\ \A k \in DOMAIN conns : k # at => conns'[k] = conns[k]
        /\ at \in DOMAIN conns /\ Cur = conns[at]
        /\ conns'[at].fd = Cur.fd
    BY <1>9, AnswerEffect DEF Answered
  <2>2. \A k \in DOMAIN conns' :
          conns'[k].phase # "READING" => sock'[conns'[k].fd].sent > 0
    BY <1>2, <1>3, <2>1 DEF READ_CAP
  <2> QED
    BY <2>2 DEF Owned
<1>10. CASE HandleSend
  <2>1. /\ DOMAIN conns' = DOMAIN conns /\ sock' = sock /\ sock[Cur.fd].sent > 0
        /\ at \in DOMAIN conns /\ Cur = conns[at]
        /\ conns'[at].fd = Cur.fd
    BY <1>10, SendEffect DEF Answered
  <2>2. \A k \in DOMAIN conns \ {at} :
          \/ conns'[k] = conns[k]
          \/ \E U : \E i \in DOMAIN waiters : WokenBy(conns[k], conns'[k], waiters[i], U)
    BY <1>10, SendEffect DEF Drained
  <2>3. \A k \in DOMAIN conns' :
          conns'[k].phase # "READING" => sock'[conns'[k].fd].sent > 0
    <3>1. ASSUME NEW k \in DOMAIN conns, k # at
          PROVE  conns'[k].phase # "READING" => sock'[conns'[k].fd].sent > 0
      BY <1>3, <2>1, <2>2, <3>1, WokenOwn
    <3> QED
      BY <1>2, <2>1, <3>1 DEF READ_CAP
  <2> QED
    BY <2>3 DEF Owned
<1>11. CASE PollPark
  <2>1. /\ DOMAIN conns' = DOMAIN conns /\ sock' = sock /\ sock[Cur.fd].sent > 0
        /\ \A k \in DOMAIN conns : k # at => conns'[k] = conns[k]
        /\ at \in DOMAIN conns /\ Cur = conns[at]
        /\ conns'[at].fd = Cur.fd
    BY <1>11, ParkEffect
  <2>2. \A k \in DOMAIN conns' :
          conns'[k].phase # "READING" => sock'[conns'[k].fd].sent > 0
    BY <1>2, <1>3, <2>1 DEF READ_CAP
  <2> QED
    BY <2>2 DEF Owned
<1>12. CASE CloseOne
  <2>1. PICK fd \in FD :
          /\ sock' = [sock EXCEPT ![fd] = Closed]
          /\ \A p \in DOMAIN conns' :
               \E k \in DOMAIN conns : conns[k].fd # fd /\ conns'[p] = conns[k]
    BY <1>12, CloseEffect
  <2>2. \A g \in FD : g # fd => sock'[g] = sock[g]
    BY <1>1, <2>1
  <2> QED
    BY <1>2, <1>3, <2>1, <2>2 DEF Owned
<1>13. CASE DrainExpired
  <2>1. DOMAIN conns' = DOMAIN conns /\ sock' = sock
    BY <1>13, ExpireEffect
  <2>2. \A k \in DOMAIN conns :
          \/ conns'[k] = conns[k]
          \/ \E U : \E i \in DOMAIN waiters : WokenBy(conns[k], conns'[k], waiters[i], U)
    BY <1>13, ExpireEffect DEF Drained
  <2>3. \A k \in DOMAIN conns' :
          conns'[k].phase # "READING" => sock'[conns'[k].fd].sent > 0
    BY <1>3, <2>1, <2>2, WokenOwn
  <2> QED
    BY <2>3 DEF Owned
<1>14. ASSUME NEW fd \in FD, SendPiece(fd) \/ HangUp(fd)
       PROVE  Owned'
  <2>1. /\ sock[fd].sent <= sock'[fd].sent
        /\ sock[fd].sent > 0 => sock'[fd].sent > 0
        /\ \A g \in FD : g # fd => sock'[g] = sock[g]
        /\ conns' = conns
        /\ sock' \in [FD -> {Closed} \cup Idle \cup Heard]
    BY <1>14, PeerEffect
  <2>2. sock'[fd].sent \in Int /\ sock[fd].sent \in Int
    BY <1>1, <2>1 DEF Closed, Idle, Heard, READ_CAP
  <2>3. ASSUME NEW k \in DOMAIN conns'
        PROVE  conns'[k].phase # "READING" => sock'[conns'[k].fd].sent > 0
    <3>1. CASE conns[k].fd = fd
      BY <1>2, <1>3, <2>1, <2>2, <3>1
    <3>2. CASE conns[k].fd # fd
      BY <1>2, <1>3, <2>1, <3>2
    <3> QED
      BY <3>1, <3>2
  <2> QED
    BY <2>3 DEF Owned
<1> QED
  BY <1>4, <1>5, <1>6, <1>7, <1>8, <1>9, <1>10, <1>11, <1>12, <1>13, <1>14, StepCases

LEMMA AnswersStep == Inv /\ [Next]_vars => AnswersOwnRequest'
<1> SUFFICES ASSUME Inv, [Next]_vars PROVE AnswersOwnRequest'
  OBVIOUS
<1> DEFINE Own(c, r) == c.phase = "WRITING" =>
                          c.reply.op = r.op /\ c.reply.ch = r.ch /\ c.reply.since = r.since
<1>1. /\ TypeInv /\ OneConnPerSocket
      /\ sock \in [FD -> {Closed} \cup Idle \cup Heard]
      /\ \A k \in DOMAIN conns : conns[k] \in Conn
      /\ \A k \in DOMAIN conns : Own(conns[k], sock[conns[k].fd].req)
  BY ParkedFacts DEF Inv, TypeInv, AnswersOwnRequest
<1>2. \A k \in DOMAIN conns : conns[k].fd \in FD
  BY <1>1 DEF Conn
<1>3. (\A k \in DOMAIN conns' : Own(conns'[k], sock'[conns'[k].fd].req)) => AnswersOwnRequest'
  BY DEF AnswersOwnRequest
<1>4. \A c, r : Answered(c, r) => Own(c, r)
  BY DEF Answered
<1>5. \A c, r : c.phase # "WRITING" => Own(c, r)
  OBVIOUS
<1>6. ASSUME NEW k \in DOMAIN conns, NEW i \in DOMAIN waiters, NEW U,
             WokenBy(conns[k], conns'[k], waiters[i], U)
      PROVE  conns'[k].fd = conns[k].fd /\ Own(conns'[k], sock[conns[k].fd].req)
  BY <1>6, WokenOwn
<1> HIDE DEF Own
<1>7. CASE Quiet
  BY <1>1, <1>3, <1>7, QuietEffect
<1>8. CASE Elapse
  BY <1>1, <1>3, <1>8, ElapseEffect
<1>9. CASE ReadEnds \/ WriteDone
  BY <1>1, <1>3, <1>9, MarkEffect
<1>10. CASE AcceptOne
  <2>1. PICK fd \in FD :
          /\ sock[fd] = Closed
          /\ sock' = [sock EXCEPT ![fd] = [sent |-> 0, open |-> TRUE]]
          /\ conns'[Len(conns) + 1] = Fresh(fd)
    BY <1>10, AcceptEffect
  <2>2. /\ DOMAIN conns' = DOMAIN conns \cup {Len(conns) + 1}
        /\ \A k \in DOMAIN conns : conns'[k] = conns[k]
    BY <1>10, AcceptEffect
  <2>3. Fresh(fd).phase # "WRITING"
    BY DEF Fresh
  <2>4. \A k \in DOMAIN conns : conns[k].fd # fd
    BY <1>1, <2>1 DEF OneConnPerSocket
  <2>5. \A g \in FD : g # fd => sock'[g] = sock[g]
    BY <1>1, <2>1
  <2> QED
    BY <1>1, <1>2, <1>3, <1>5, <2>1, <2>2, <2>3, <2>4, <2>5
<1>11. CASE ReadPart
  <2>1. /\ DOMAIN conns' = DOMAIN conns /\ sock' = sock
        /\ \A k \in DOMAIN conns : k # at => conns'[k] = conns[k]
        /\ conns'[at].phase = "READING"
    BY <1>11, ReadPartEffect
  <2> QED
    BY <1>1, <1>3, <1>5, <2>1
<1>12. CASE HandlePlain \/ PollNow
  <2>1. /\ DOMAIN conns' = DOMAIN conns /\ sock' = sock
        /\ \A k \in DOMAIN conns : k # at => conns'[k] = conns[k]
        /\ conns'[at].fd = Cur.fd /\ Req = sock[Cur.fd].req
        /\ Answered(conns'[at], Req)
    BY <1>12, AnswerEffect
  <2> QED
    BY <1>1, <1>3, <1>4, <2>1
<1>13. CASE HandleSend
  <2>1. /\ DOMAIN conns' = DOMAIN conns /\ sock' = sock
        /\ conns'[at].fd = Cur.fd /\ Req = sock[Cur.fd].req
        /\ Answered(conns'[at], Req)
    BY <1>13, SendEffect
  <2>2. \A k \in DOMAIN conns \ {at} :
          \/ conns'[k] = conns[k]
          \/ \E U : \E i \in DOMAIN waiters : WokenBy(conns[k], conns'[k], waiters[i], U)
    BY <1>13, SendEffect DEF Drained
  <2>3. \A k \in DOMAIN conns \ {at} : Own(conns'[k], sock[conns'[k].fd].req)
    BY <1>1, <1>6, <2>2
  <2> QED
    BY <1>3, <1>4, <2>1, <2>3
<1>14. CASE PollPark
  <2>1. /\ DOMAIN conns' = DOMAIN conns /\ sock' = sock
        /\ \A k \in DOMAIN conns : k # at => conns'[k] = conns[k]
        /\ conns'[at].phase = "WAITING"
    BY <1>14, ParkEffect
  <2> QED
    BY <1>1, <1>3, <1>5, <2>1
<1>15. CASE CloseOne
  <2>1. PICK fd \in FD :
          /\ sock' = [sock EXCEPT ![fd] = Closed]
          /\ \A p \in DOMAIN conns' :
               \E k \in DOMAIN conns : conns[k].fd # fd /\ conns'[p] = conns[k]
    BY <1>15, CloseEffect
  <2>2. \A g \in FD : g # fd => sock'[g] = sock[g]
    BY <1>1, <2>1
  <2> QED
    BY <1>1, <1>2, <1>3, <2>1, <2>2
<1>16. CASE DrainExpired
  <2>1. DOMAIN conns' = DOMAIN conns /\ sock' = sock
    BY <1>16, ExpireEffect
  <2>2. \A k \in DOMAIN conns :
          \/ conns'[k] = conns[k]
          \/ \E U : \E i \in DOMAIN waiters : WokenBy(conns[k], conns'[k], waiters[i], U)
    BY <1>16, ExpireEffect DEF Drained
  <2> QED
    BY <1>1, <1>3, <1>6, <2>1, <2>2
<1>17. ASSUME NEW fd \in FD, SendPiece(fd) \/ HangUp(fd)
       PROVE  AnswersOwnRequest'
  <2>1. /\ sock[fd].sent > 0 => sock'[fd].req = sock[fd].req
        /\ \A g \in FD : g # fd => sock'[g] = sock[g]
        /\ conns' = conns
    BY <1>17, PeerEffect
  <2>2. ASSUME NEW k \in DOMAIN conns
        PROVE  Own(conns[k], sock'[conns[k].fd].req)
    <3>1. conns[k].phase = "WRITING" => sock[conns[k].fd].sent > 0
      BY DEF Inv, Owned
    <3> QED
      BY <1>1, <1>2, <1>5, <2>1, <3>1
  <2> QED
    BY <1>3, <2>1, <2>2
<1> QED
  BY <1>7, <1>8, <1>9, <1>10, <1>11, <1>12, <1>13, <1>14, <1>15, <1>16, <1>17, StepCases

LEMMA ParkedIntro ==
  ASSUME Distinct(waiters'),
         \A i \in DOMAIN waiters' :
           \E k \in DOMAIN conns' : conns'[k].fd = waiters'[i].fd /\ conns'[k].phase = "WAITING",
         \A k \in DOMAIN conns' :
           conns'[k].phase = "WAITING" => \E i \in DOMAIN waiters' : waiters'[i].fd = conns'[k].fd
  PROVE  WaitersAreParked'
<1>1. {waiters'[i].fd : i \in DOMAIN waiters'}
        = {conns'[k].fd : k \in {j \in DOMAIN conns' : conns'[j].phase = "WAITING"}}
  OBVIOUS
<1> QED
  BY <1>1 DEF WaitersAreParked, FdsIn, Distinct

(* Draining keeps the correspondence: who leaves the list has been woken. *)
LEMMA DrainedParked ==
  ASSUME Inv, NEW I \in SUBSET DOMAIN waiters, NEW K \in SUBSET DOMAIN conns,
         NEW U, Drained(I, K, U),
         DOMAIN conns' = DOMAIN conns,
         \A k \in DOMAIN conns \ K :
           conns[k].phase # "WAITING" /\ conns'[k].phase # "WAITING"
  PROVE  WaitersAreParked'
<1>1. /\ Distinct(waiters')
      /\ \A p \in DOMAIN waiters' : \E i \in DOMAIN waiters \ I : waiters'[p] = waiters[i]
      /\ \A i \in DOMAIN waiters \ I : \E p \in DOMAIN waiters' : waiters'[p] = waiters[i]
      /\ \A k \in K :
           \/ conns'[k] = conns[k] /\ \A i \in I : waiters[i].fd # conns[k].fd
           \/ \E i \in I : WokenBy(conns[k], conns'[k], waiters[i], U)
  BY DEF Drained
<1>2. /\ Distinct(waiters)
      /\ \A i \in DOMAIN waiters :
           \E k \in DOMAIN conns : conns[k].fd = waiters[i].fd /\ conns[k].phase = "WAITING"
      /\ \A k \in DOMAIN conns :
           conns[k].phase = "WAITING" => \E i \in DOMAIN waiters : waiters[i].fd = conns[k].fd
  BY ParkedFacts
<1>3. \A p \in DOMAIN waiters' :
        \E k \in DOMAIN conns' : conns'[k].fd = waiters'[p].fd /\ conns'[k].phase = "WAITING"
  <2> TAKE p \in DOMAIN waiters'
  <2>1. PICK i \in DOMAIN waiters \ I : waiters'[p] = waiters[i]
    BY <1>1
  <2>2. PICK k \in DOMAIN conns : conns[k].fd = waiters[i].fd /\ conns[k].phase = "WAITING"
    BY <1>2
  <2>3. k \in K
    BY <2>2
  <2>4. \A j \in I : ~ WokenBy(conns[k], conns'[k], waiters[j], U)
    BY <1>2, <2>1, <2>2 DEF WokenBy, Distinct
  <2> QED
    BY <1>1, <2>1, <2>2, <2>3, <2>4
<1>4. \A k \in DOMAIN conns' :
        conns'[k].phase = "WAITING" => \E p \in DOMAIN waiters' : waiters'[p].fd = conns'[k].fd
  <2> SUFFICES ASSUME NEW k \in DOMAIN conns', conns'[k].phase = "WAITING"
               PROVE  \E p \in DOMAIN waiters' : waiters'[p].fd = conns'[k].fd
    OBVIOUS
  <2>1. k \in K
    OBVIOUS
  <2>2. \A i \in I : ~ WokenBy(conns[k], conns'[k], waiters[i], U)
    BY DEF WokenBy
  <2>3. conns'[k] = conns[k] /\ \A i \in I : waiters[i].fd # conns[k].fd
    BY <1>1, <2>1, <2>2
  <2>4. PICK i \in DOMAIN waiters : waiters[i].fd = conns[k].fd
    BY <1>2, <2>3
  <2> QED
    BY <1>1, <2>3, <2>4
<1> QED
  BY <1>1, <1>3, <1>4, ParkedIntro

LEMMA ParkedStep == Inv /\ [Next]_vars => WaitersAreParked'
<1> SUFFICES ASSUME Inv, [Next]_vars PROVE WaitersAreParked'
  OBVIOUS
<1>1. /\ WaitersAreParked /\ Distinct(waiters) /\ Distinct(conns)
      /\ \A i \in DOMAIN waiters :
           \E k \in DOMAIN conns : conns[k].fd = waiters[i].fd /\ conns[k].phase = "WAITING"
      /\ \A k \in DOMAIN conns :
           conns[k].phase = "WAITING" => \E i \in DOMAIN waiters : waiters[i].fd = conns[k].fd
  BY ParkedFacts DEF Inv
<1>2. ASSUME UNCHANGED <<conns, waiters>> PROVE WaitersAreParked'
  BY <1>1, <1>2 DEF WaitersAreParked, FdsIn
<1>3. CASE Quiet
  BY <1>2, <1>3, QuietEffect
<1>4. CASE ReadEnds \/ WriteDone
  BY <1>2, <1>4, MarkEffect
<1>5. CASE Elapse
  <2>1. /\ DOMAIN waiters' = DOMAIN waiters /\ conns' = conns
        /\ \A i \in DOMAIN waiters : waiters'[i].fd = waiters[i].fd
    BY <1>5, ElapseEffect
  <2>2. Distinct(waiters')
    BY <1>1, <2>1 DEF Distinct
  <2> QED
    BY <1>1, <2>1, <2>2, ParkedIntro
<1>6. CASE AcceptOne
  <2>1. PICK fd \in FD : conns'[Len(conns) + 1] = Fresh(fd)
    BY <1>6, AcceptEffect
  <2>2. Fresh(fd).phase = "READING"
    BY DEF Fresh
  <2>3. /\ DOMAIN conns' = DOMAIN conns \cup {Len(conns) + 1}
        /\ \A k \in DOMAIN conns : conns'[k] = conns[k]
        /\ waiters' = waiters
    BY <1>6, AcceptEffect DEF chat
  <2> QED
    BY <1>1, <2>1, <2>2, <2>3, ParkedIntro
<1>7. CASE ReadPart \/ HandlePlain \/ PollNow
  <2>1. /\ DOMAIN conns' = DOMAIN conns /\ waiters' = waiters
        /\ \A k \in DOMAIN conns : k # at => conns'[k] = conns[k]
        /\ Cur = conns[at] /\ Cur.phase = "READING" /\ conns'[at].phase # "WAITING"
    BY <1>7, ReadPartEffect, AnswerEffect DEF Answered, chat
  <2> QED
    BY <1>1, <2>1, ParkedIntro
<1>8. CASE HandleSend
  <2>1. PICK I \in SUBSET DOMAIN waiters :
          \E U : Drained(I, DOMAIN conns \ {at}, U)
    BY <1>8, SendEffect
  <2>2. /\ DOMAIN conns' = DOMAIN conns /\ Cur = conns[at] /\ Cur.phase = "READING"
        /\ conns'[at].phase = "WRITING"
    BY <1>8, SendEffect DEF Answered
  <2> QED
    BY <2>1, <2>2, DrainedParked
<1>9. CASE PollPark
  <2>1. /\ at \in DOMAIN conns /\ Cur = conns[at] /\ Cur.phase = "READING"
        /\ DOMAIN conns' = DOMAIN conns
        /\ \A k \in DOMAIN conns : k # at => conns'[k] = conns[k]
        /\ conns'[at].fd = Cur.fd /\ conns'[at].phase = "WAITING"
        /\ DOMAIN waiters' = DOMAIN waiters \cup {Len(waiters) + 1}
        /\ \A i \in DOMAIN waiters : waiters'[i] = waiters[i]
        /\ waiters'[Len(waiters) + 1].fd = Cur.fd
    BY <1>9, ParkEffect
  <2>2. \A i \in DOMAIN waiters : waiters[i].fd # Cur.fd
    BY <2>1, ParkedFacts
  <2>3. Distinct(waiters')
    BY <1>1, <2>1, <2>2 DEF Distinct
  <2>4. \A i \in DOMAIN waiters' :
          \E k \in DOMAIN conns' : conns'[k].fd = waiters'[i].fd /\ conns'[k].phase = "WAITING"
    BY <1>1, <2>1
  <2>5. \A k \in DOMAIN conns' :
          conns'[k].phase = "WAITING" => \E i \in DOMAIN waiters' : waiters'[i].fd = conns'[k].fd
    BY <1>1, <2>1
  <2> QED
    BY <2>3, <2>4, <2>5, ParkedIntro
<1>10. CASE CloseOne
  <2>1. PICK fd \in FD :
          /\ \A p \in DOMAIN conns' :
               \E k \in DOMAIN conns : conns[k].fd # fd /\ conns'[p] = conns[k]
          /\ \A k \in DOMAIN conns :
               conns[k].fd # fd => \E p \in DOMAIN conns' : conns'[p] = conns[k]
          /\ \A p \in DOMAIN waiters' :
               \E i \in DOMAIN waiters : waiters[i].fd # fd /\ waiters'[p] = waiters[i]
          /\ \A i \in DOMAIN waiters :
               waiters[i].fd # fd => \E p \in DOMAIN waiters' : waiters'[p] = waiters[i]
    BY <1>10, CloseEffect
  <2>2. Distinct(waiters')
    BY <1>10, CloseEffect
  <2>3. \A i \in DOMAIN waiters' :
          \E k \in DOMAIN conns' : conns'[k].fd = waiters'[i].fd /\ conns'[k].phase = "WAITING"
    BY <1>1, <2>1
  <2>4. \A k \in DOMAIN conns' :
          conns'[k].phase = "WAITING" => \E i \in DOMAIN waiters' : waiters'[i].fd = conns'[k].fd
    BY <1>1, <2>1
  <2> QED
    BY <2>2, <2>3, <2>4, ParkedIntro
<1>11. CASE DrainExpired
  BY <1>11, ExpireEffect, DrainedParked
<1>12. ASSUME NEW fd \in FD, SendPiece(fd) \/ HangUp(fd)
       PROVE  WaitersAreParked'
  BY <1>2, <1>12, PeerEffect
<1> QED
  BY <1>3, <1>4, <1>5, <1>6, <1>7, <1>8, <1>9, <1>10, <1>11, <1>12, StepCases

LEMMA AskedStep == Inv /\ [Next]_vars => ParkedAsked'
<1> SUFFICES ASSUME Inv, [Next]_vars PROVE ParkedAsked'
  OBVIOUS
<1> DEFINE Asks(w, r) == r.op = "poll" /\ r.ch = w.ch /\ r.since = w.since
<1>1. /\ TypeInv /\ sock \in [FD -> {Closed} \cup Idle \cup Heard]
      /\ \A i \in DOMAIN waiters : waiters[i] \in Waiter
      /\ \A i \in DOMAIN waiters : Asks(waiters[i], sock[waiters[i].fd].req)
  BY ParkedFacts DEF Inv, TypeInv, ParkedAsked
<1>2. \A i \in DOMAIN waiters : waiters[i].fd \in FD /\ sock[waiters[i].fd].sent > 0
  <2> TAKE i \in DOMAIN waiters
  <2>1. PICK k \in DOMAIN conns : conns[k].fd = waiters[i].fd /\ conns[k].phase = "WAITING"
    BY ParkedFacts
  <2>2. sock[conns[k].fd].sent > 0
    BY <2>1 DEF Inv, Owned
  <2> QED
    BY <1>1, <2>1, <2>2 DEF Waiter
<1>3. (\A i \in DOMAIN waiters' : Asks(waiters'[i], sock'[waiters'[i].fd].req)) => ParkedAsked'
  BY DEF ParkedAsked
<1>4. \A v, w, r : v.ch = w.ch /\ v.since = w.since /\ Asks(w, r) => Asks(v, r)
  OBVIOUS
<1>5. \A w : w.fd = Cur.fd /\ w.ch = Req.ch /\ w.since = Req.since /\ Req.op = "poll"
             => Asks(w, Req)
  OBVIOUS
<1> HIDE DEF Asks
<1>6. CASE Quiet
  BY <1>1, <1>3, <1>6, QuietEffect
<1>7. CASE ReadEnds \/ WriteDone
  BY <1>1, <1>3, <1>7, MarkEffect
<1>8. CASE Elapse
  BY <1>1, <1>3, <1>4, <1>8, ElapseEffect
<1>9. CASE AcceptOne
  <2>1. PICK fd \in FD : sock[fd] = Closed
                         /\ sock' = [sock EXCEPT ![fd] = [sent |-> 0, open |-> TRUE]]
    BY <1>9, AcceptEffect
  <2>2. waiters' = waiters
    BY <1>9, AcceptEffect DEF chat
  <2>3. \A g \in FD : g # fd => sock'[g] = sock[g]
    BY <1>1, <2>1
  <2>4. \A i \in DOMAIN waiters : waiters[i].fd # fd
    BY <1>2, <2>1 DEF Closed
  <2> QED
    BY <1>1, <1>2, <1>3, <2>2, <2>3, <2>4
<1>10. CASE ReadPart \/ HandlePlain \/ PollNow
  <2>1. sock' = sock /\ waiters' = waiters
    BY <1>10, ReadPartEffect, AnswerEffect DEF chat
  <2> QED
    BY <1>1, <1>3, <2>1
<1>11. CASE HandleSend \/ DrainExpired
  <2>1. /\ sock' = sock
        /\ \A p \in DOMAIN waiters' : \E i \in DOMAIN waiters : waiters'[p] = waiters[i]
    BY <1>11, SendEffect, ExpireEffect DEF Drained
  <2> QED
    BY <1>1, <1>3, <2>1
<1>12. CASE PollPark
  <2>1. /\ sock' = sock /\ Req = sock[Cur.fd].req /\ Req.op = "poll"
        /\ DOMAIN waiters' = DOMAIN waiters \cup {Len(waiters) + 1}
        /\ \A i \in DOMAIN waiters : waiters'[i] = waiters[i]
        /\ LET w == waiters'[Len(waiters) + 1] IN
             w.fd = Cur.fd /\ w.ch = Req.ch /\ w.since = Req.since
    BY <1>12, ParkEffect
  <2> QED
    BY <1>1, <1>3, <1>5, <2>1
<1>13. CASE CloseOne
  <2>1. PICK fd \in FD :
          /\ sock' = [sock EXCEPT ![fd] = Closed]
          /\ \A p \in DOMAIN waiters' :
               \E i \in DOMAIN waiters : waiters[i].fd # fd /\ waiters'[p] = waiters[i]
    BY <1>13, CloseEffect
  <2>2. \A g \in FD : g # fd => sock'[g] = sock[g]
    BY <1>1, <2>1
  <2> QED
    BY <1>1, <1>2, <1>3, <2>1, <2>2
<1>14. ASSUME NEW fd \in FD, SendPiece(fd) \/ HangUp(fd)
       PROVE  ParkedAsked'
  <2>1. /\ sock[fd].sent > 0 => sock'[fd].req = sock[fd].req
        /\ \A g \in FD : g # fd => sock'[g] = sock[g]
        /\ waiters' = waiters
    BY <1>14, PeerEffect
  <2> QED
    BY <1>1, <1>2, <1>3, <2>1
<1> QED
  BY <1>6, <1>7, <1>8, <1>9, <1>10, <1>11, <1>12, <1>13, <1>14, StepCases

LEMMA MissedStep == Inv /\ [Next]_vars => NoMissedWakeup'
<1> SUFFICES ASSUME Inv, [Next]_vars PROVE NoMissedWakeup'
  OBVIOUS
<1> DEFINE Calm(w) == w.ch \in DOMAIN channels /\ channels[w.ch] >= 1
                        => channels[w.ch] <= w.since
           Still(w) == w.ch \in DOMAIN channels' /\ channels'[w.ch] >= 1
                         => channels'[w.ch] <= w.since
<1>1. /\ TypeInv
      /\ DOMAIN channels \subseteq Channel /\ channels \in [DOMAIN channels -> Nat]
      /\ \A i \in DOMAIN waiters : waiters[i] \in Waiter
      /\ \A i \in DOMAIN waiters : Calm(waiters[i])
  BY ParkedFacts DEF Inv, TypeInv, NoMissedWakeup
<1>2. (\A i \in DOMAIN waiters' : Still(waiters'[i])) => NoMissedWakeup'
  BY DEF NoMissedWakeup
<1>3. ASSUME channels' = channels, NEW w, Calm(w)
      PROVE  Still(w)
  BY <1>3
<1>4. ASSUME NEW v, NEW w, v.ch = w.ch, v.since = w.since, Calm(w)
      PROVE  Calm(v)
  BY <1>4
<1>5. ASSUME HandlePlain \/ PollNow, NEW w, Calm(w)
      PROVE  Still(w)
  <2>1. CASE channels' = channels
    BY <1>3, <1>5, <2>1
  <2>2. CASE channels' = EnsureChannel(Req.ch)
    <3>1. /\ channels' \in [DOMAIN channels \cup {Req.ch} -> Nat]
          /\ \A c \in DOMAIN channels : channels'[c] = channels[c]
          /\ Req.ch \notin DOMAIN channels => channels'[Req.ch] = 0
      BY <1>1, <1>5, <2>2, AnswerEffect, RequestType, EnsureType
    <3> QED
      BY <1>5, <3>1
  <2> QED
    BY <1>5, <2>1, <2>2, AnswerEffect
<1>6. ASSUME HandleSend, NEW w \in Waiter, Calm(w),
             ~ Woken(w, Req.ch, EnsureChannel(Req.ch)[Req.ch] + 1)
      PROVE  Still(w)
  <2>1. /\ Req.ch \in Channel
        /\ channels' = [EnsureChannel(Req.ch) EXCEPT ![Req.ch] = EnsureChannel(Req.ch)[Req.ch] + 1]
    BY <1>6, SendEffect, RequestType
  <2>2. /\ channels' \in [DOMAIN channels \cup {Req.ch} -> Nat]
        /\ channels'[Req.ch] = EnsureChannel(Req.ch)[Req.ch] + 1
        /\ \A c \in DOMAIN channels : c # Req.ch => channels'[c] = channels[c]
    BY <1>1, <2>1, SendChannels
  <2>3. CASE w.ch = Req.ch
    <3>1. ~ (channels'[Req.ch] > w.since)
      BY <1>6, <2>2, <2>3 DEF Woken
    <3>2. w.since \in Int /\ channels'[Req.ch] \in Nat
      BY <2>2 DEF Waiter
    <3> QED
      BY <2>3, <3>1, <3>2
  <2>4. CASE w.ch # Req.ch
    BY <1>6, <2>2, <2>4
  <2> QED
    BY <2>3, <2>4
<1>7. CASE PollPark
  <2>1. /\ channels' = channels /\ Req \in Requests
        /\ ~ (Req.ch \in DOMAIN channels /\ channels[Req.ch] > Req.since)
        /\ DOMAIN waiters' = DOMAIN waiters \cup {Len(waiters) + 1}
        /\ \A i \in DOMAIN waiters : waiters'[i] = waiters[i]
        /\ LET w == waiters'[Len(waiters) + 1] IN w.ch = Req.ch /\ w.since = Req.since
    BY <1>7, ParkEffect
  <2>2. Req.since \in Int
    BY <2>1, RequestType
  <2>3. Calm(waiters'[Len(waiters) + 1])
    BY <1>1, <2>1, <2>2
  <2>4. \A i \in DOMAIN waiters' : Calm(waiters'[i])
    BY <1>1, <2>1, <2>3
  <2> HIDE DEF Calm, Still
  <2> QED
    BY <1>2, <1>3, <2>1, <2>4
<1> HIDE DEF Calm, Still
<1>8. ASSUME UNCHANGED <<channels, waiters>> PROVE NoMissedWakeup'
  BY <1>1, <1>2, <1>3, <1>8
<1>9. CASE Quiet
  BY <1>8, <1>9, QuietEffect
<1>10. CASE ReadEnds \/ WriteDone
  BY <1>8, <1>10, MarkEffect
<1>11. CASE Elapse
  <2>1. /\ channels' = channels /\ DOMAIN waiters' = DOMAIN waiters
        /\ \A i \in DOMAIN waiters : waiters'[i].ch = waiters[i].ch
                                     /\ waiters'[i].since = waiters[i].since
    BY <1>11, ElapseEffect
  <2>2. \A i \in DOMAIN waiters' : Calm(waiters'[i])
    BY <1>1, <1>4, <2>1
  <2> QED
    BY <1>2, <1>3, <2>1, <2>2
<1>12. CASE AcceptOne \/ ReadPart
  BY <1>8, <1>12, AcceptEffect, ReadPartEffect DEF chat
<1>13. CASE HandlePlain \/ PollNow
  <2>1. waiters' = waiters
    BY <1>13, AnswerEffect
  <2> QED
    BY <1>1, <1>2, <1>5, <1>13, <2>1
<1>14. CASE HandleSend
  <2>1. PICK I \in SUBSET DOMAIN waiters :
          /\ \A i \in DOMAIN waiters :
               i \in I <=> Woken(waiters[i], Req.ch, EnsureChannel(Req.ch)[Req.ch] + 1)
          /\ \E U : Drained(I, DOMAIN conns \ {at}, U)
    BY <1>14, SendEffect
  <2>2. \A p \in DOMAIN waiters' : \E i \in DOMAIN waiters \ I : waiters'[p] = waiters[i]
    BY <2>1 DEF Drained
  <2>3. \A i \in DOMAIN waiters \ I : Still(waiters[i])
    BY <1>1, <1>6, <1>14, <2>1
  <2> QED
    BY <1>2, <2>2, <2>3
<1>15. CASE CloseOne
  <2>1. /\ channels' = channels
        /\ \A p \in DOMAIN waiters' : \E i \in DOMAIN waiters : waiters'[p] = waiters[i]
    BY <1>15, CloseEffect
  <2> QED
    BY <1>1, <1>2, <1>3, <2>1
<1>16. CASE DrainExpired
  <2>1. /\ channels' = channels
        /\ \A p \in DOMAIN waiters' : \E i \in DOMAIN waiters : waiters'[p] = waiters[i]
    BY <1>16, ExpireEffect DEF Drained
  <2> QED
    BY <1>1, <1>2, <1>3, <2>1
<1>17. ASSUME NEW fd \in FD, SendPiece(fd) \/ HangUp(fd)
       PROVE  NoMissedWakeup'
  BY <1>8, <1>17, PeerEffect
<1> QED
  BY <1>7, <1>9, <1>10, <1>11, <1>12, <1>13, <1>14, <1>15, <1>16, <1>17, StepCases

LEMMA MarkedStep == Inv /\ [Next]_vars => MarkedAwake'
<1> SUFFICES ASSUME Inv, [Next]_vars PROVE MarkedAwake'
  OBVIOUS
<1>1. /\ MarkedAwake /\ Closing /\ TypeInv /\ OneConnPerSocket
      /\ at \in Nat \ {0} /\ DOMAIN conns \subseteq Nat
      /\ \A j \in DOMAIN toClose : toClose[j] \in FD
  BY LenProperties, ElementOfSeq DEF Inv, TypeInv
<1>2. ASSUME DOMAIN conns' = DOMAIN conns, toClose' = toClose,
             \A k \in DOMAIN conns : conns'[k].fd = conns[k].fd,
             \A k \in DOMAIN conns : conns'[k].phase = "WAITING" => conns[k].phase = "WAITING"
      PROVE  MarkedAwake'
  BY <1>1, <1>2 DEF MarkedAwake
<1>3. CASE Quiet
  BY <1>2, <1>3, QuietEffect
<1>4. CASE Elapse
  BY <1>2, <1>4, ElapseEffect
<1>5. CASE ReadPart
  BY <1>2, <1>5, ReadPartEffect
<1>6. CASE HandlePlain \/ PollNow
  BY <1>2, <1>6, AnswerEffect DEF Answered
<1>7. CASE HandleSend
  <2>1. \A k \in DOMAIN conns : conns'[k].phase = "WAITING" => conns[k].phase = "WAITING"
    BY <1>7, SendEffect DEF Drained, WokenBy, Answered
  <2> QED
    BY <1>2, <1>7, <2>1, PlacesKept
<1>8. CASE DrainExpired
  <2>1. \A k \in DOMAIN conns : conns'[k].phase = "WAITING" => conns[k].phase = "WAITING"
    BY <1>8, ExpireEffect DEF Drained, WokenBy
  <2> QED
    BY <1>2, <1>8, <2>1, PlacesKept
<1>9. CASE PollPark
  <2>1. /\ pc = "scan" /\ at \in DOMAIN conns /\ DOMAIN conns' = DOMAIN conns
        /\ \A k \in DOMAIN conns : k # at => conns'[k] = conns[k]
        /\ conns'[at].fd = conns[at].fd /\ toClose' = toClose
    BY <1>9, ParkEffect DEF Scanning
  <2>2. ASSUME NEW j \in DOMAIN toClose, toClose[j] = conns[at].fd
        PROVE  FALSE
    <3>1. PICK k \in DOMAIN conns : k < at /\ conns[k].fd = toClose[j]
      BY <1>1, <2>1 DEF Closing
    <3>2. k = at
      BY <1>1, <2>1, <2>2, <3>1 DEF OneConnPerSocket
    <3> QED
      BY <1>1, <3>1, <3>2
  <2> QED
    BY <1>1, <2>1, <2>2 DEF MarkedAwake
<1>10. CASE ReadEnds \/ WriteDone
  <2>1. /\ at \in DOMAIN conns /\ Cur = conns[at] /\ conns' = conns
        /\ DOMAIN toClose' = DOMAIN toClose \cup {Len(toClose) + 1}
        /\ \A j \in DOMAIN toClose : toClose'[j] = toClose[j]
        /\ toClose'[Len(toClose) + 1] = Cur.fd
    BY <1>10, MarkEffect
  <2>2. Cur.phase # "WAITING"
    BY <1>10 DEF ReadEnds, WriteDone, CanRead, CanWrite
  <2>3. \A k \in DOMAIN conns : conns[k].fd = Cur.fd => conns[k].phase # "WAITING"
    BY <1>1, <2>1, <2>2 DEF OneConnPerSocket
  <2> QED
    BY <1>1, <2>1, <2>3 DEF MarkedAwake
<1>11. CASE AcceptOne
  <2>1. toClose' = <<>>
    BY <1>1, <1>11, AcceptEffect DEF Closing
  <2> QED
    BY <2>1 DEF MarkedAwake
<1>12. CASE CloseOne
  <2>1. /\ \A p \in DOMAIN conns' : \E k \in DOMAIN conns : conns'[p] = conns[k]
        /\ \A p \in DOMAIN toClose' : \E j \in DOMAIN toClose : toClose'[p] = toClose[j]
    BY <1>12, CloseEffect
  <2> QED
    BY <1>1, <2>1 DEF MarkedAwake
<1>13. ASSUME NEW fd \in FD, SendPiece(fd) \/ HangUp(fd)
       PROVE  MarkedAwake'
  BY <1>2, <1>13, PeerEffect
<1> QED
  BY <1>3, <1>4, <1>5, <1>6, <1>7, <1>8, <1>9, <1>10, <1>11, <1>12, <1>13, StepCases

LEMMA InvInit == Init => Inv
<1> SUFFICES ASSUME Init PROVE Inv
  OBVIOUS
<1>1. /\ conns = <<>> /\ waiters = <<>> /\ toClose = <<>>
      /\ pc = "build" /\ at = 1
      /\ sock = [fd \in FD |-> Closed]
      /\ channels = [c \in {General} |-> 0]
  BY DEF Init
<1>2. DOMAIN conns = {} /\ DOMAIN waiters = {} /\ DOMAIN toClose = {}
  BY <1>1
<1>3. TypeInv
  <2>1. conns \in Seq(Conn) /\ waiters \in Seq(Waiter) /\ toClose \in Seq(FD)
    BY <1>1
  <2>2. DOMAIN channels \subseteq Channel /\ channels \in [DOMAIN channels -> Nat]
    BY <1>1, RequestAssumption
  <2>3. sock \in [FD -> {Closed} \cup Idle \cup Heard]
    BY <1>1
  <2> QED
    BY <1>1, <2>1, <2>2, <2>3 DEF TypeInv
<1>4. OneConnPerSocket
  BY <1>1, <1>2 DEF OneConnPerSocket
<1>5. Owned /\ Closing /\ MarkedAwake /\ ParkedAsked /\ NoMissedWakeup /\ AnswersOwnRequest
  BY <1>1, <1>2 DEF Owned, Closing, MarkedAwake, ParkedAsked, NoMissedWakeup, AnswersOwnRequest
<1>6. WaitersAreParked
  BY <1>2 DEF WaitersAreParked, FdsIn
<1> QED
  BY <1>3, <1>4, <1>5, <1>6 DEF Inv

LEMMA InvStep == Inv /\ [Next]_vars => Inv'
BY TypeStep, OneConnStep, OwnedStep, ClosingStep, MarkedStep, ParkedStep, AskedStep,
   MissedStep, AnswersStep DEF Inv

LEMMA Invariant == Spec => []Inv
BY InvInit, InvStep, PTL DEF Spec

-----------------------------------------------------------------------------
(***************************************************************************)
(* The bound on messages: a channel has, or is being asked for, no more than  *)
(* MaxMsgs of them.                                                         *)
(***************************************************************************)
Posted(ch) == IF ch \in DOMAIN channels THEN channels[ch] ELSE 0

Sending(fd, ch) ==
  /\ sock[fd].sent > 0 /\ sock[fd].req.op = "send" /\ sock[fd].req.ch = ch
  /\ \A k \in DOMAIN conns : conns[k].fd = fd => conns[k].phase = "READING"

Bounded == \A ch \in Channel : Asked(ch) <= MaxMsgs

LEMMA AskedIs ==
  ASSUME NEW ch
  PROVE  Asked(ch) = Posted(ch) + Cardinality({fd \in FD : Sending(fd, ch)})
BY DEF Asked, Posted, Sending

LEMMA SetsOfFds ==
  ASSUME NEW S \in SUBSET FD
  PROVE  /\ IsFiniteSet(S) /\ Cardinality(S) \in Nat
         /\ \A U \in SUBSET S : Cardinality(U) <= Cardinality(S)
         /\ \A x \in S : Cardinality(S \ {x}) = Cardinality(S) - 1
         /\ \A x : Cardinality(S \cup {x}) <= Cardinality(S) + 1
<1>1. IsFiniteSet(S)
  BY FS_Subset, BoundAssumption
<1> QED
  BY <1>1, FS_Subset, FS_CardinalityType, FS_RemoveElement, FS_AddElement

LEMMA PostedType ==
  ASSUME TypeInv, NEW ch \in Channel
  PROVE  Posted(ch) \in Nat
BY DEF TypeInv, Posted

(* Where no message is posted and nobody begins to send, nothing grows. *)
LEMMA AskedShrinks ==
  ASSUME TypeInv, NEW ch \in Channel, Posted(ch)' = Posted(ch),
         \A fd \in FD : Sending(fd, ch)' => Sending(fd, ch)
  PROVE  Asked(ch)' <= Asked(ch)
<1> DEFINE S == {fd \in FD : Sending(fd, ch)}
           U == {fd \in FD : Sending(fd, ch)'}
<1>1. Asked(ch) = Posted(ch) + Cardinality(S) /\ Asked(ch)' = Posted(ch)' + Cardinality(U)
  BY AskedIs DEF Asked, Posted, Sending
<1>2. U \subseteq S /\ S \in SUBSET FD /\ U \in SUBSET FD
  OBVIOUS
<1>3. Posted(ch) \in Nat
  BY PostedType
<1> HIDE DEF S, U
<1>4. Cardinality(U) <= Cardinality(S) /\ Cardinality(S) \in Nat /\ Cardinality(U) \in Nat
  BY <1>2, SetsOfFds
<1> QED
  BY <1>1, <1>3, <1>4

(* No connection begins to read again. *)
LEMMA PhasesKept ==
  ASSUME Inv,
         Elapse \/ ReadPart \/ HandlePlain \/ PollNow \/ HandleSend \/ PollPark \/ DrainExpired
  PROVE  \A k \in DOMAIN conns : conns'[k].phase = "READING" => conns[k].phase = "READING"
<1>1. CASE Elapse
  BY <1>1, ElapseEffect
<1>2. CASE ReadPart
  BY <1>2, ReadPartEffect
<1>3. CASE HandlePlain \/ PollNow
  BY <1>3, AnswerEffect DEF Answered
<1>4. CASE HandleSend
  BY <1>4, SendEffect DEF Drained, WokenBy
<1>5. CASE PollPark
  BY <1>5, ParkEffect
<1>6. CASE DrainExpired
  BY <1>6, ExpireEffect DEF Drained, WokenBy
<1> QED
  BY <1>1, <1>2, <1>3, <1>4, <1>5, <1>6

LEMMA BoundedStep == Inv /\ Bounded /\ [Next]_vars => Bounded'
<1> SUFFICES ASSUME Inv, Bounded, [Next]_vars, NEW ch \in Channel
             PROVE  Asked(ch)' <= MaxMsgs
  BY DEF Bounded
<1>1. /\ TypeInv /\ OneConnPerSocket
      /\ sock \in [FD -> {Closed} \cup Idle \cup Heard]
      /\ DOMAIN channels \subseteq Channel /\ channels \in [DOMAIN channels -> Nat]
      /\ \A k \in DOMAIN conns : conns[k] \in Conn
  BY ParkedFacts DEF Inv, TypeInv
<1>2. Asked(ch) <= MaxMsgs /\ Posted(ch) \in Nat /\ MaxMsgs \in Nat
  BY <1>1, PostedType, BoundAssumption DEF Bounded
<1>3. Asked(ch) \in Nat
  <2>1. Cardinality({fd \in FD : Sending(fd, ch)}) \in Nat
    BY SetsOfFds
  <2> QED
    BY <1>2, <2>1, AskedIs
<1>4. ASSUME Posted(ch)' = Posted(ch), \A fd \in FD : Sending(fd, ch)' => Sending(fd, ch)
      PROVE  Asked(ch)' <= MaxMsgs
  <2>1. Asked(ch)' <= Asked(ch)
    BY <1>1, <1>4, AskedShrinks
  <2>2. Asked(ch)' \in Int
    <3>1. Cardinality({fd \in FD : Sending(fd, ch)'}) \in Nat
      BY SetsOfFds
    <3>2. Asked(ch)' = Posted(ch)' + Cardinality({fd \in FD : Sending(fd, ch)'})
      BY DEF Asked, Posted, Sending
    <3> QED
      BY <1>2, <1>4, <3>1, <3>2
  <2> QED
    BY <1>2, <1>3, <2>1, <2>2
<1>5. ASSUME UNCHANGED <<sock, conns, channels>>
      PROVE  Asked(ch)' <= MaxMsgs
  BY <1>4, <1>5 DEF Posted, Sending
<1>6. CASE Quiet
  BY <1>5, <1>6, QuietEffect
<1>7. CASE ReadEnds \/ WriteDone
  BY <1>5, <1>7, MarkEffect
<1>8. CASE Elapse \/ ReadPart \/ HandlePlain \/ PollNow \/ PollPark \/ DrainExpired
  <2>1. /\ DOMAIN conns' = DOMAIN conns /\ sock' = sock
        /\ \A k \in DOMAIN conns : conns'[k].fd = conns[k].fd
        /\ \A k \in DOMAIN conns : conns'[k].phase = "READING" => conns[k].phase = "READING"
    BY <1>8, PlacesKept, PhasesKept
  <2>2. \A fd \in FD : Sending(fd, ch)' => Sending(fd, ch)
    BY <2>1 DEF Sending
  <2>3. channels' = channels
        \/ \E c \in Channel : channels' = EnsureChannel(c)
    BY <1>8, ElapseEffect, ReadPartEffect, AnswerEffect, ParkEffect, ExpireEffect, RequestType
       DEF chat
  <2>4. Posted(ch)' = Posted(ch)
    <3>1. CASE channels' = channels
      BY <3>1 DEF Posted
    <3>2. ASSUME NEW c \in Channel, channels' = EnsureChannel(c)
          PROVE  Posted(ch)' = Posted(ch)
      <4>1. /\ DOMAIN EnsureChannel(c) = DOMAIN channels \cup {c}
            /\ \A d \in DOMAIN channels : EnsureChannel(c)[d] = channels[d]
            /\ c \notin DOMAIN channels => EnsureChannel(c)[c] = 0
        BY <1>1, EnsureType
      <4> QED
        BY ONLY <3>2, <4>1 DEF Posted
    <3> QED
      BY <2>3, <3>1, <3>2
  <2> QED
    BY <1>4, <2>2, <2>4
<1>9. CASE AcceptOne
  <2>1. PICK fd \in FD : sock[fd] = Closed
                         /\ sock' = [sock EXCEPT ![fd] = [sent |-> 0, open |-> TRUE]]
    BY <1>9, AcceptEffect
  <2>2. /\ DOMAIN conns \subseteq DOMAIN conns' /\ channels' = channels
        /\ \A k \in DOMAIN conns : conns'[k] = conns[k]
    BY <1>9, AcceptEffect DEF chat
  <2>3. sock'[fd].sent = 0 /\ \A g \in FD : g # fd => sock'[g] = sock[g]
    BY <1>1, <2>1
  <2>4. \A g \in FD : Sending(g, ch)' => Sending(g, ch)
    BY <2>2, <2>3 DEF Sending
  <2> QED
    BY <1>4, <2>2, <2>4 DEF Posted
<1>10. CASE CloseOne
  <2>1. PICK fd \in FD :
          /\ sock' = [sock EXCEPT ![fd] = Closed]
          /\ \A k \in DOMAIN conns :
               conns[k].fd # fd => \E p \in DOMAIN conns' : conns'[p] = conns[k]
    BY <1>10, CloseEffect
  <2>2. channels' = channels
    BY <1>10, CloseEffect
  <2>3. sock'[fd].sent = -1 /\ \A g \in FD : g # fd => sock'[g] = sock[g]
    BY <1>1, <2>1 DEF Closed
  <2>4. \A g \in FD : Sending(g, ch)' => Sending(g, ch)
    BY <2>1, <2>3 DEF Sending
  <2> QED
    BY <1>4, <2>2, <2>4 DEF Posted
<1>11. CASE HandleSend
  <2>1. /\ at \in DOMAIN conns /\ Cur = conns[at] /\ Cur.phase = "READING"
        /\ sock[Cur.fd] \in Heard /\ Req = sock[Cur.fd].req /\ Req \in Requests
        /\ sock[Cur.fd].sent > 0 /\ Req.op = "send"
        /\ channels' = [EnsureChannel(Req.ch) EXCEPT ![Req.ch] = EnsureChannel(Req.ch)[Req.ch] + 1]
        /\ conns'[at].phase = "WRITING"
    BY <1>11, SendEffect DEF Answered
  <2>2. /\ DOMAIN conns' = DOMAIN conns /\ sock' = sock
        /\ \A k \in DOMAIN conns : conns'[k].fd = conns[k].fd
        /\ \A k \in DOMAIN conns : conns'[k].phase = "READING" => conns[k].phase = "READING"
    BY <1>11, PlacesKept, PhasesKept
  <2>3. \A fd \in FD : Sending(fd, ch)' => Sending(fd, ch)
    BY <2>2 DEF Sending
  <2>4. Req.ch \in Channel /\ Cur.fd \in FD
    BY <1>1, <2>1, RequestType DEF Conn
  <2>5. CASE Req.ch # ch
    <3>1. Posted(ch)' = Posted(ch)
      <4>1. /\ DOMAIN channels' = DOMAIN channels \cup {Req.ch}
            /\ \A c \in DOMAIN channels : c # Req.ch => channels'[c] = channels[c]
        BY <1>1, <2>1, <2>4, SendChannels
      <4> QED
        BY <2>5, <4>1 DEF Posted
    <3> QED
      BY <1>4, <2>3, <3>1
  <2>6. CASE Req.ch = ch
    <3> DEFINE S == {fd \in FD : Sending(fd, ch)}
               U == {fd \in FD : Sending(fd, ch)'}
    <3> PICK g \in FD : g = Cur.fd
      BY <2>4
    <3>1. Sending(g, ch)
      <4>1. sock[Cur.fd].sent > 0
        BY <1>1, <2>1, <2>4, SockType
      <4>2. \A k \in DOMAIN conns : conns[k].fd = Cur.fd => conns[k].phase = "READING"
        BY <1>1, <2>1 DEF OneConnPerSocket
      <4> QED
        BY <2>1, <2>6, <4>1, <4>2 DEF Sending
    <3>2. ~ Sending(g, ch)'
      <4>1. at \in DOMAIN conns' /\ conns'[at].fd = g /\ conns'[at].phase # "READING"
        BY <2>1, <2>2
      <4> QED
        BY <4>1 DEF Sending
    <3>3. U \in SUBSET (S \ {g}) /\ S \in SUBSET FD /\ U \in SUBSET FD /\ g \in S
      BY <2>3, <3>1, <3>2
    <3>4. Posted(ch)' = Posted(ch) + 1
      <4>1. /\ DOMAIN channels' = DOMAIN channels \cup {ch}
            /\ channels'[ch] = EnsureChannel(ch)[ch] + 1
        BY <1>1, <2>1, <2>4, <2>6, SendChannels
      <4>2. EnsureChannel(ch)[ch] = Posted(ch)
        BY <1>1, EnsureType DEF Posted
      <4> QED
        BY <4>1, <4>2 DEF Posted
    <3>5. Asked(ch) = Posted(ch) + Cardinality(S) /\ Asked(ch)' = Posted(ch)' + Cardinality(U)
      BY AskedIs DEF Asked, Posted, Sending
    <3> HIDE DEF S, U
    <3>6. S \ {g} \in SUBSET FD
      BY <3>3
    <3>7. /\ Cardinality(S) \in Nat /\ Cardinality(U) \in Nat
          /\ Cardinality(S \ {g}) = Cardinality(S) - 1
          /\ Cardinality(U) <= Cardinality(S \ {g})
      BY <3>3, <3>6, SetsOfFds
    <3> QED
      BY <1>2, <3>4, <3>5, <3>7
  <2> QED
    BY <2>5, <2>6
<1>12. ASSUME NEW fd \in FD, SendPiece(fd) \/ HangUp(fd)
       PROVE  Asked(ch)' <= MaxMsgs
  <2>1. /\ \A g \in FD : g # fd => sock'[g] = sock[g]
        /\ sock[fd].sent > 0 => sock'[fd].req = sock[fd].req
        /\ conns' = conns /\ channels' = channels
    BY <1>12, PeerEffect
  <2>2. Posted(ch)' = Posted(ch)
    BY <2>1 DEF Posted
  <2>3. CASE ~ Sending(fd, ch)' \/ sock[fd].sent > 0
    <3>1. \A g \in FD : Sending(g, ch)' => Sending(g, ch)
      BY <2>1, <2>3 DEF Sending
    <3> QED
      BY <1>4, <2>2, <3>1
  <2>4. CASE Sending(fd, ch)' /\ ~ (sock[fd].sent > 0)
    <3> DEFINE S == {g \in FD : Sending(g, ch)}
               U == {g \in FD : Sending(g, ch)'}
    <3>1. Asked(ch) < MaxMsgs
      <4>1. sock'[fd].sent > 0 /\ sock'[fd].req.op = "send" /\ sock'[fd].req.ch = ch
        BY <2>4 DEF Sending
      <4>2. CASE HangUp(fd)
        BY <1>1, <2>4, <4>1, <4>2 DEF HangUp, Idle, Heard, Closed
      <4>3. CASE SendPiece(fd)
        <5>1. PICK r \in Requests :
                /\ r.op = "send" => Asked(r.ch) < MaxMsgs
                /\ sock' = [sock EXCEPT ![fd] = [req |-> r, sent |-> 1, open |-> TRUE]]
          BY <2>4, <4>3 DEF SendPiece
        <5>2. sock'[fd].req = r
          BY <1>1, <5>1
        <5> QED
          BY <4>1, <5>1, <5>2
      <4> QED
        BY <1>12, <4>2, <4>3
    <3>2. U \in SUBSET (S \cup {fd}) /\ S \in SUBSET FD /\ U \in SUBSET FD
      BY <2>1 DEF Sending
    <3>3. Asked(ch) = Posted(ch) + Cardinality(S) /\ Asked(ch)' = Posted(ch)' + Cardinality(U)
      BY AskedIs DEF Asked, Posted, Sending
    <3> HIDE DEF S, U
    <3>4. S \cup {fd} \in SUBSET FD
      BY <3>2
    <3>5. /\ Cardinality(S) \in Nat /\ Cardinality(U) \in Nat
          /\ Cardinality(S \cup {fd}) \in Nat
          /\ Cardinality(S \cup {fd}) <= Cardinality(S) + 1
          /\ Cardinality(U) <= Cardinality(S \cup {fd})
      BY <3>2, <3>4, SetsOfFds
    <3> QED
      BY <1>2, <2>2, <3>1, <3>3, <3>5
  <2> QED
    BY <2>3, <2>4
<1> QED
  BY <1>6, <1>7, <1>8, <1>9, <1>10, <1>11, <1>12, StepCases

LEMMA BoundedInit == Init => Bounded
<1> SUFFICES ASSUME Init, NEW ch \in Channel PROVE Asked(ch) <= MaxMsgs
  BY DEF Bounded
<1>1. sock = [fd \in FD |-> Closed] /\ channels = [c \in {General} |-> 0]
  BY DEF Init
<1>2. {fd \in FD : Sending(fd, ch)} = {}
  BY <1>1 DEF Sending, Closed
<1>3. Posted(ch) = 0
  BY <1>1 DEF Posted
<1> QED
  BY <1>2, <1>3, AskedIs, FS_EmptySet, BoundAssumption

-----------------------------------------------------------------------------
(***************************************************************************)
(* The theorems.                                                            *)
(***************************************************************************)
(* A socket is open exactly while one connection lists it, and no descriptor  *)
(* is closed twice or behind the back of the next connection to get it        *)
(* (accept_one, close_fd, the closing loop of tick).                        *)
THEOREM OneConnection == Spec => []OneConnPerSocket
<1>1. Inv => OneConnPerSocket
  BY DEF Inv
<1> QED
  BY Invariant, <1>1, PTL

(* The WAITING connections are exactly those on the waiter list, one entry     *)
(* each (WaitLong in handle_readable, take_woken, take_expired,              *)
(* drop_waiter_for_fd).                                                     *)
THEOREM TheParkedAreTheWaiters == Spec => []WaitersAreParked
<1>1. Inv => WaitersAreParked
  BY DEF Inv
<1> QED
  BY Invariant, <1>1, PTL

(* No parked poll is behind its channel: a message either arrives before the   *)
(* poll looks, or finds it on the list (append and drain_waiters against the   *)
(* route of a poll).                                                        *)
THEOREM NoPollIsBehind == Spec => []NoMissedWakeup
<1>1. Inv => NoMissedWakeup
  BY DEF Inv
<1> QED
  BY Invariant, <1>1, PTL

(* Whoever stages an answer (its own handler, another sender, a deadline), it  *)
(* answers the request its connection sent (start_writing, wake_fd).         *)
THEOREM OwnAnswer == Spec => []AnswersOwnRequest
<1>1. Inv => AnswersOwnRequest
  BY DEF Inv
<1> QED
  BY Invariant, <1>1, PTL

(* The types of the state; no channel ever holds more messages than the bound lets  *)
(* clients ask for, and no deadline lies beyond MAX_WAIT_MS (the cap of route). *)
THEOREM TypeCorrect == Spec => []TypeOK
<1>1. Inv /\ Bounded => TypeOK
  <2> SUFFICES ASSUME Inv, Bounded PROVE TypeOK
    OBVIOUS
  <2>1. TypeInv
    BY DEF Inv
  <2>2. \A fd \in FD : sock[fd] = Closed \/ sock[fd].sent \in 0 .. READ_CAP + 1
    BY <2>1, SockType
  <2>3. \A k \in DOMAIN conns : conns[k].fd \in FD /\ conns[k].phase \in Phases
    BY ParkedFacts DEF Conn
  <2>4. \A c \in DOMAIN channels : channels[c] \in 0 .. MaxMsgs
    <3> TAKE c \in DOMAIN channels
    <3>1. c \in Channel /\ channels[c] \in Nat
      BY <2>1 DEF TypeInv
    <3>2. Cardinality({fd \in FD : Sending(fd, c)}) \in Nat
      BY SetsOfFds
    <3>3. channels[c] + Cardinality({fd \in FD : Sending(fd, c)}) <= MaxMsgs
      BY <3>1, AskedIs DEF Bounded, Posted
    <3> QED
      BY <3>1, <3>2, <3>3, BoundAssumption
  <2>5. \A k \in DOMAIN waiters : waiters[k].fd \in FD /\ waiters[k].left \in 0 .. MaxWait
    BY ParkedFacts DEF Waiter
  <2> QED
    BY <2>1, <2>2, <2>3, <2>4, <2>5 DEF TypeOK, TypeInv
<1> QED
  BY Invariant, BoundedInit, BoundedStep, <1>1, PTL DEF Spec

-----------------------------------------------------------------------------
(***************************************************************************)
(* The reactor keeps the promise of a long poll: seen through its tables,  *)
(* every step of the event loop is one of LongPoll's or changes nothing    *)
(* there.                                                                  *)
(***************************************************************************)

Polls  == [fd \in FD |-> PollOf(fd)]
NoPoll == [st |-> "idle"]

(* What a connection with request r is to its client. *)
View(c, r) ==
  IF c.phase = "WAITING" THEN [st |-> "parked", ch |-> r.ch, since |-> r.since]
  ELSE IF c.phase = "WRITING" /\ c.reply.op = "poll"
  THEN [st |-> "answered", ch |-> c.reply.ch, since |-> c.reply.since, upto |-> c.reply.upto]
  ELSE NoPoll

Viewed ==
  \A fd \in FD :
    /\ \A k \in DOMAIN conns : conns[k].fd = fd => Polls[fd] = View(conns[k], sock[fd].req)
    /\ (\A k \in DOMAIN conns : conns[k].fd # fd) => Polls[fd] = NoPoll

LEMMA ViewFacts == Inv => Viewed
<1> SUFFICES ASSUME Inv, NEW fd \in FD
             PROVE  /\ \A k \in DOMAIN conns :
                         conns[k].fd = fd => PollOf(fd) = View(conns[k], sock[fd].req)
                    /\ (\A k \in DOMAIN conns : conns[k].fd # fd) => PollOf(fd) = NoPoll
  BY DEF Viewed, Polls
<1>1. conns \in Seq(Conn) /\ Distinct(conns)
  BY ParkedFacts DEF Inv, TypeInv
<1>2. DOMAIN conns \subseteq Nat \ {0}
  BY <1>1, LenProperties
<1>3. /\ \A k \in DOMAIN conns : conns[k].fd = fd => IndexOfFd(fd) = k
      /\ IndexOfFd(fd) # 0 => \E k \in DOMAIN conns : conns[k].fd = fd
  BY <1>1, IndexFacts
<1>4. ASSUME NEW k \in DOMAIN conns, conns[k].fd = fd
      PROVE  PollOf(fd) = View(conns[k], sock[fd].req)
  <2>1. IndexOfFd(fd) = k /\ k # 0
    BY <1>2, <1>3, <1>4
  <2> QED
    BY <2>1 DEF PollOf, View, NoPoll
<1>5. ASSUME \A k \in DOMAIN conns : conns[k].fd # fd
      PROVE  PollOf(fd) = NoPoll
  <2>1. IndexOfFd(fd) = 0
    BY <1>3, <1>5
  <2> QED
    BY <2>1 DEF PollOf, NoPoll
<1> QED
  BY <1>4, <1>5

LEMMA ViewNext == Inv' => Viewed'
BY ViewFacts, PTL

-----------------------------------------------------------------------------
(***************************************************************************)
(* What the steps do to the two variables of LongPoll.                        *)
(***************************************************************************)
LEMMA NewsIs == News = [ch \in Channel |-> Posted(ch)]
BY DEF News, Posted

LEMMA NewsKept ==
  ASSUME Inv, channels' = channels \/ \E c \in Channel : channels' = EnsureChannel(c)
  PROVE  News' = News
<1>1. TypeInv
  BY DEF Inv
<1>2. ASSUME NEW ch \in Channel
      PROVE  Posted(ch)' = Posted(ch)
  <2>1. CASE channels' = channels
    BY <2>1 DEF Posted
  <2>2. ASSUME NEW c \in Channel, channels' = EnsureChannel(c)
        PROVE  Posted(ch)' = Posted(ch)
    BY <1>1, <2>2, EnsureType DEF Posted
  <2> QED
    BY <2>1, <2>2
<1> QED
  BY <1>2 DEF News, Posted

LEMMA NewsPosted ==
  ASSUME Inv, NEW ch \in Channel,
         channels' = [EnsureChannel(ch) EXCEPT ![ch] = EnsureChannel(ch)[ch] + 1]
  PROVE  /\ News' = [News EXCEPT ![ch] = @ + 1]
         /\ News[ch] = EnsureChannel(ch)[ch] /\ News[ch] \in Nat
         /\ News'[ch] = EnsureChannel(ch)[ch] + 1
<1>1. TypeInv
  BY DEF Inv
<1>2. /\ DOMAIN channels' = DOMAIN channels \cup {ch}
      /\ channels'[ch] = EnsureChannel(ch)[ch] + 1
      /\ \A c \in DOMAIN channels : c # ch => channels'[c] = channels[c]
  BY <1>1, SendChannels
<1>3. EnsureChannel(ch)[ch] = Posted(ch) /\ Posted(ch) \in Nat
  BY <1>1, EnsureType, PostedType DEF Posted
<1>4. \A c \in Channel : Posted(c)' = IF c = ch THEN Posted(ch) + 1 ELSE Posted(c)
  BY <1>2, <1>3 DEF Posted
<1>5. News' = [c \in Channel |-> IF c = ch THEN Posted(ch) + 1 ELSE Posted(c)]
  BY <1>4 DEF News, Posted
<1> QED
  BY <1>3, <1>5, NewsIs

(* The connections keep their places: what their clients see, before and after. *)
LEMMA PollsKept ==
  ASSUME Inv, Inv', DOMAIN conns' = DOMAIN conns,
         \A k \in DOMAIN conns : conns'[k].fd = conns[k].fd
  PROVE  \A fd \in FD :
           \/ Polls[fd] = NoPoll /\ Polls'[fd] = NoPoll
              /\ \A k \in DOMAIN conns : conns[k].fd # fd
           \/ \E k \in DOMAIN conns :
                /\ conns[k].fd = fd
                /\ Polls[fd] = View(conns[k], sock[fd].req)
                /\ Polls'[fd] = View(conns'[k], sock'[fd].req)
<1> TAKE fd \in FD
<1>1. Viewed /\ Viewed'
  BY ViewFacts, ViewNext
<1>2. /\ \A k \in DOMAIN conns : conns[k].fd = fd => Polls[fd] = View(conns[k], sock[fd].req)
      /\ (\A k \in DOMAIN conns : conns[k].fd # fd) => Polls[fd] = NoPoll
  BY <1>1 DEF Viewed
<1>3. /\ \A k \in DOMAIN conns' : conns'[k].fd = fd => Polls'[fd] = View(conns'[k], sock'[fd].req)
      /\ (\A k \in DOMAIN conns' : conns'[k].fd # fd) => Polls'[fd] = NoPoll
  BY <1>1 DEF Viewed, View, NoPoll
<1> QED
  BY <1>2, <1>3

LEMMA PollsAre == Polls = [fd \in FD |-> Polls[fd]]
BY DEF Polls

LEMMA PollsSame ==
  ASSUME \A fd \in FD : Polls'[fd] = Polls[fd]
  PROVE  Polls' = Polls
BY DEF Polls

(* A step that LongPoll does not see. *)
LEMMA Stutters ==
  ASSUME News' = News, Polls' = Polls
  PROVE  UNCHANGED LP!vars
BY DEF LP!vars, Polls

-----------------------------------------------------------------------------
(***************************************************************************)
(* Every step, as LongPoll sees it.                                          *)
(***************************************************************************)
LEMMA QuietMaps ==
  ASSUME Inv, Inv', Quiet \/ Elapse \/ ReadEnds \/ WriteDone
  PROVE  UNCHANGED LP!vars
<1>1. UNCHANGED <<sock, conns, channels>>
  BY QuietEffect, ElapseEffect, MarkEffect
<1>2. Polls' = Polls
  BY <1>1, PollsKept, PollsSame
<1> QED
  BY <1>1, <1>2, NewsKept, Stutters

LEMMA PeerMaps ==
  ASSUME Inv, Inv', NEW fd \in FD, SendPiece(fd) \/ HangUp(fd)
  PROVE  UNCHANGED LP!vars
<1>1. /\ sock[fd].sent > 0 => sock'[fd].req = sock[fd].req
      /\ \A g \in FD : g # fd => sock'[g] = sock[g]
      /\ UNCHANGED <<conns, channels>>
  BY PeerEffect
<1>2. \A g \in FD : Polls'[g] = Polls[g]
  <2> TAKE g \in FD
  <2>1. CASE Polls[g] = NoPoll /\ Polls'[g] = NoPoll
    BY <2>1
  <2>2. ASSUME NEW k \in DOMAIN conns, conns[k].fd = g,
               Polls[g] = View(conns[k], sock[g].req),
               Polls'[g] = View(conns'[k], sock'[g].req)
        PROVE  Polls'[g] = Polls[g]
    <3>1. conns[k].phase = "WAITING" => sock[g].sent > 0
      BY <2>2 DEF Inv, Owned
    <3> QED
      BY <1>1, <2>2, <3>1 DEF View
  <2> QED
    BY <1>1, <2>1, <2>2, PollsKept
<1> QED
  BY <1>1, <1>2, NewsKept, PollsSame, Stutters

LEMMA AcceptMaps ==
  ASSUME Inv, Inv', AcceptOne
  PROVE  UNCHANGED LP!vars
<1>1. PICK fd \in FD :
        /\ sock[fd] = Closed
        /\ sock' = [sock EXCEPT ![fd] = [sent |-> 0, open |-> TRUE]]
        /\ conns'[Len(conns) + 1] = Fresh(fd)
  BY AcceptEffect
<1>2. /\ DOMAIN conns' = DOMAIN conns \cup {Len(conns) + 1}
      /\ \A k \in DOMAIN conns : conns'[k] = conns[k]
      /\ channels' = channels
  BY AcceptEffect DEF chat
<1>3. Fresh(fd).fd = fd /\ Fresh(fd).phase = "READING"
  BY DEF Fresh
<1>4. /\ \A k \in DOMAIN conns : conns[k].fd # fd
      /\ \A g \in FD : g # fd => sock'[g] = sock[g]
  BY <1>1 DEF Inv, TypeInv, OneConnPerSocket
<1>5. \A g \in FD :
        /\ \A k \in DOMAIN conns : conns[k].fd = g => Polls[g] = View(conns[k], sock[g].req)
        /\ (\A k \in DOMAIN conns : conns[k].fd # g) => Polls[g] = NoPoll
  BY ViewFacts DEF Viewed
<1>6. \A g \in FD :
        /\ \A k \in DOMAIN conns' : conns'[k].fd = g => Polls'[g] = View(conns'[k], sock'[g].req)
        /\ (\A k \in DOMAIN conns' : conns'[k].fd # g) => Polls'[g] = NoPoll
  BY ViewNext DEF Viewed, View, NoPoll
<1>7. Polls'[fd] = NoPoll /\ Polls[fd] = NoPoll
  <2>1. Polls'[fd] = View(Fresh(fd), sock'[fd].req)
    BY <1>1, <1>2, <1>3, <1>6
  <2>2. Polls[fd] = NoPoll
    BY <1>4, <1>5
  <2> QED
    BY <1>3, <2>1, <2>2 DEF View
<1>8. ASSUME NEW g \in FD, g # fd
      PROVE  Polls'[g] = Polls[g]
  <2>1. CASE \E k \in DOMAIN conns : conns[k].fd = g
    BY <1>2, <1>4, <1>5, <1>6, <1>8, <2>1
  <2>2. CASE \A k \in DOMAIN conns : conns[k].fd # g
    BY <1>1, <1>2, <1>3, <1>5, <1>6, <1>8, <2>2
  <2> QED
    BY <2>1, <2>2
<1> QED
  BY <1>2, <1>7, <1>8, NewsKept, PollsSame, Stutters

(* Reading on, and answering what is not a poll. *)
LEMMA PlainMaps ==
  ASSUME Inv, Inv', ReadPart \/ HandlePlain
  PROVE  UNCHANGED LP!vars
<1>1. /\ at \in DOMAIN conns /\ conns[at].phase = "READING"
      /\ DOMAIN conns' = DOMAIN conns /\ sock' = sock
      /\ \A k \in DOMAIN conns : conns'[k].fd = conns[k].fd
      /\ \A k \in DOMAIN conns : k # at => conns'[k] = conns[k]
  BY ReadPartEffect, AnswerEffect, PlacesKept
<1>2. View(conns'[at], sock[conns[at].fd].req) = NoPoll
  <2>1. CASE ReadPart
    BY <2>1, ReadPartEffect DEF View
  <2>2. CASE HandlePlain
    <3>1. conns'[at].phase = "WRITING" /\ conns'[at].reply.op = Req.op
      BY <2>2, AnswerEffect DEF Answered
    <3>2. Req.op # "poll"
      <4>1. TypeInv /\ (Handles({"page"}) \/ Handles({"create"}) \/ Handles({"create", "send"}))
        BY <2>2 DEF HandlePlain, CutOff, Inv
      <4> QED
        BY <4>1, HandlesFacts
    <3> QED
      BY <3>1, <3>2 DEF View
  <2> QED
    BY <2>1, <2>2
<1>3. View(conns[at], sock[conns[at].fd].req) = NoPoll
  BY <1>1 DEF View
<1>4. \A g \in FD : Polls'[g] = Polls[g]
  <2> TAKE g \in FD
  <2>1. CASE Polls[g] = NoPoll /\ Polls'[g] = NoPoll
    BY <2>1
  <2>2. ASSUME NEW k \in DOMAIN conns, conns[k].fd = g,
               Polls[g] = View(conns[k], sock[g].req),
               Polls'[g] = View(conns'[k], sock'[g].req)
        PROVE  Polls'[g] = Polls[g]
    BY <1>1, <1>2, <1>3, <2>2
  <2> QED
    BY <1>1, <2>1, <2>2, PollsKept
<1>5. channels' = channels \/ \E c \in Channel : channels' = EnsureChannel(c)
  BY ReadPartEffect, AnswerEffect, RequestType DEF chat
<1> QED
  BY <1>4, <1>5, NewsKept, PollsSame, Stutters

(* A poll that finds news. *)
LEMMA PollNowMaps ==
  ASSUME Inv, Inv', PollNow
  PROVE  LP!Next
<1> DEFINE a == [st |-> "answered", ch |-> Req.ch, since |-> Req.since, upto |-> channels[Req.ch]]
<1>1. /\ at \in DOMAIN conns /\ Cur = conns[at] /\ Cur.phase = "READING"
      /\ Req \in Requests /\ Req = sock[Cur.fd].req
      /\ DOMAIN conns' = DOMAIN conns
      /\ \A k \in DOMAIN conns : k # at => conns'[k] = conns[k]
      /\ conns'[at].fd = Cur.fd /\ Answered(conns'[at], Req)
      /\ conns \in Seq(Conn) /\ conns[at] \in Conn
  BY AnswerEffect, ParkedFacts DEF Inv, TypeInv
<1>2. /\ sock' = sock
      /\ \A k \in DOMAIN conns : conns'[k].fd = conns[k].fd
  BY PlacesKept
<1>3. /\ Handles({"poll"}) /\ Req.ch \in DOMAIN channels /\ channels[Req.ch] > Req.since
      /\ conns' = [conns EXCEPT ![at] = Answer(@, channels[Req.ch])]
      /\ channels' = channels
  BY DEF PollNow, chat
<1>4. Req.op = "poll" /\ Req.ch \in Channel /\ Req.since \in Int
  BY <1>1, <1>3, HandlesFacts, RequestType DEF Inv
<1>5. conns'[at].reply.upto = channels[Req.ch]
  <2>1. conns'[at] = Answer(conns[at], channels[Req.ch])
    BY <1>1, <1>3
  <2> QED
    BY <1>1, <2>1 DEF Answer, StartWriting, Conn
<1>6. PICK fd \in FD : fd = Cur.fd
  BY <1>1 DEF Conn
<1>7. PICK r \in Requests : r = Req
  BY <1>1
<1>8. View(conns'[at], sock[fd].req) = a /\ View(conns[at], sock[fd].req) = NoPoll
  BY <1>1, <1>4, <1>5, <1>6 DEF View, Answered
<1> HIDE DEF a
<1>9. /\ Polls[fd] = NoPoll /\ Polls'[fd] = a
      /\ \A g \in FD : g # fd => Polls'[g] = Polls[g]
  <2>1. \A k \in DOMAIN conns : conns[k].fd = fd <=> k = at
    BY <1>1, <1>6 DEF Inv, OneConnPerSocket
  <2> QED
    BY <1>1, <1>2, <1>8, <2>1, PollsKept
<1>10. Polls' = [Polls EXCEPT ![fd] = a]
  BY <1>9 DEF Polls
<1>11. News' = News /\ News[r.ch] = channels[r.ch]
  BY <1>3, <1>4, <1>7, NewsKept DEF News
<1>12. LP!AnswerNow(fd, r.ch, r.since)
  BY <1>3, <1>7, <1>10, <1>11 DEF LP!AnswerNow, LP!Answered, Polls, a
<1>13. Polls[fd] = LP!Idle
  BY <1>9 DEF LP!Idle, NoPoll
<1>14. r.ch \in Channel /\ r.since \in {q.since : q \in Requests}
  BY <1>4, <1>7
<1> QED
  BY <1>12, <1>13, <1>14 DEF LP!Next, Polls

(* A poll that finds none. *)
LEMMA PollParkMaps ==
  ASSUME Inv, Inv', PollPark
  PROVE  LP!Next
<1> DEFINE a == [st |-> "parked", ch |-> Req.ch, since |-> Req.since]
<1>1. /\ at \in DOMAIN conns /\ Cur = conns[at] /\ Cur.phase = "READING"
      /\ Req \in Requests /\ Req = sock[Cur.fd].req
      /\ ~ (Req.ch \in DOMAIN channels /\ channels[Req.ch] > Req.since)
      /\ DOMAIN conns' = DOMAIN conns /\ channels' = channels
      /\ \A k \in DOMAIN conns : k # at => conns'[k] = conns[k]
      /\ conns'[at].fd = Cur.fd /\ conns'[at].phase = "WAITING"
      /\ conns[at] \in Conn
  BY ParkEffect, ParkedFacts
<1>2. /\ sock' = sock
      /\ \A k \in DOMAIN conns : conns'[k].fd = conns[k].fd
  BY PlacesKept
<1>3. Req.ch \in Channel /\ Req.since \in Int
  BY <1>1, RequestType
<1>4. PICK fd \in FD : fd = Cur.fd
  BY <1>1 DEF Conn
<1>5. PICK r \in Requests : r = Req
  BY <1>1
<1>6. View(conns'[at], sock[fd].req) = a /\ View(conns[at], sock[fd].req) = NoPoll
  BY <1>1, <1>4 DEF View
<1> HIDE DEF a
<1>7. /\ Polls[fd] = NoPoll /\ Polls'[fd] = a
      /\ \A g \in FD : g # fd => Polls'[g] = Polls[g]
  <2>1. \A k \in DOMAIN conns : conns[k].fd = fd <=> k = at
    BY <1>1, <1>4 DEF Inv, OneConnPerSocket
  <2> QED
    BY <1>1, <1>2, <1>6, <2>1, PollsKept
<1>8. Polls' = [Polls EXCEPT ![fd] = a]
  BY <1>7 DEF Polls
<1>9. News' = News
  BY <1>1, NewsKept
<1>10. ~ LP!HasNews(News[r.ch], r.since)
  BY <1>1, <1>3, <1>5 DEF News, LP!HasNews
<1>11. LP!Park(fd, r.ch, r.since)
  BY <1>5, <1>8, <1>9, <1>10 DEF LP!Park, LP!Parked, Polls, a
<1>12. Polls[fd] = LP!Idle
  BY <1>7 DEF LP!Idle, NoPoll
<1>13. r.ch \in Channel /\ r.since \in {q.since : q \in Requests}
  BY <1>3, <1>5
<1> QED
  BY <1>11, <1>12, <1>13 DEF LP!Next, Polls

(* What a parked client sees, and what it sees once it is woken. *)
LEMMA WokenView ==
  ASSUME Inv, NEW k \in DOMAIN conns, NEW i \in DOMAIN waiters, NEW d, NEW U,
         WokenBy(conns[k], d, waiters[i], U)
  PROVE  LET w == waiters[i]
             r == sock[conns[k].fd].req IN
         /\ conns[k].phase = "WAITING"
         /\ View(conns[k], r) = [st |-> "parked", ch |-> w.ch, since |-> w.since]
         /\ View(d, r) = [st |-> "answered", ch |-> w.ch, since |-> w.since, upto |-> U[w]]
<1>1. conns[k].phase = "WAITING" /\ waiters[i].fd = conns[k].fd
  BY WokenOwn
<1>2. sock[waiters[i].fd].req.ch = waiters[i].ch
      /\ sock[waiters[i].fd].req.since = waiters[i].since
  BY DEF Inv, ParkedAsked
<1> QED
  BY <1>1, <1>2 DEF WokenBy, View

(* A message is posted. *)
LEMMA SendMaps ==
  ASSUME Inv, Inv', HandleSend
  PROVE  LP!Next
<1>1. /\ at \in DOMAIN conns /\ Cur = conns[at] /\ Cur.phase = "READING"
      /\ Req \in Requests /\ Req.op = "send"
      /\ DOMAIN conns' = DOMAIN conns
      /\ Answered(conns'[at], Req)
      /\ channels' = [EnsureChannel(Req.ch) EXCEPT ![Req.ch] = EnsureChannel(Req.ch)[Req.ch] + 1]
  BY SendEffect
<1>2. /\ sock' = sock
      /\ \A k \in DOMAIN conns : conns'[k].fd = conns[k].fd
  BY PlacesKept
<1>3. PICK ch \in Channel : ch = Req.ch
  BY <1>1, RequestType
<1>4. PICK n : n = EnsureChannel(ch)[ch] + 1
  OBVIOUS
<1>5. /\ News' = [News EXCEPT ![ch] = @ + 1]
      /\ News'[ch] = n /\ n \in Nat /\ n >= 1
  BY <1>1, <1>3, <1>4, NewsPosted
<1>6. PICK I \in SUBSET DOMAIN waiters :
        /\ \A i \in DOMAIN waiters : i \in I <=> Woken(waiters[i], ch, n)
        /\ Drained(I, DOMAIN conns \ {at}, Told(n))
  BY <1>3, <1>4, SendEffect
<1>7. \A k \in DOMAIN conns \ {at} :
        \/ conns'[k] = conns[k] /\ \A i \in I : waiters[i].fd # conns[k].fd
        \/ \E i \in I : WokenBy(conns[k], conns'[k], waiters[i], Told(n))
  BY <1>6 DEF Drained
<1> DEFINE After(p) == IF p.st = "parked" /\ p.ch = ch /\ LP!HasNews(n, p.since)
                       THEN [st |-> "answered", ch |-> ch, since |-> p.since, upto |-> n]
                       ELSE p
<1>8. After(NoPoll) = NoPoll
  BY DEF NoPoll
<1>9. ASSUME NEW k \in DOMAIN conns, k = at
      PROVE  \A r : View(conns[k], r) = NoPoll /\ View(conns'[k], r) = NoPoll
  BY <1>1, <1>9 DEF View, Answered
<1>10. ASSUME NEW k \in DOMAIN conns, k # at, conns'[k] = conns[k],
              \A i \in I : waiters[i].fd # conns[k].fd
       PROVE  After(View(conns[k], sock[conns[k].fd].req)) = View(conns[k], sock[conns[k].fd].req)
  <2>1. CASE conns[k].phase = "WAITING"
    <3>1. PICK i \in DOMAIN waiters : waiters[i].fd = conns[k].fd
      BY <2>1, ParkedFacts
    <3>2. ~ (waiters[i].ch = ch /\ n > waiters[i].since)
      BY <1>6, <1>10, <3>1 DEF Woken
    <3>3. View(conns[k], sock[conns[k].fd].req)
            = [st |-> "parked", ch |-> waiters[i].ch, since |-> waiters[i].since]
      BY <2>1, <3>1 DEF View, Inv, ParkedAsked
    <3> QED
      BY <3>2, <3>3 DEF LP!HasNews
  <2>2. CASE conns[k].phase # "WAITING"
    BY <2>2 DEF View, NoPoll
  <2> QED
    BY <2>1, <2>2
<1>11. ASSUME NEW k \in DOMAIN conns, NEW i \in I,
              WokenBy(conns[k], conns'[k], waiters[i], Told(n))
       PROVE  After(View(conns[k], sock[conns[k].fd].req)) = View(conns'[k], sock[conns[k].fd].req)
  <2>1. waiters[i] \in Waiter /\ Told(n)[waiters[i]] = n
    BY ParkedFacts DEF Told
  <2>2. waiters[i].ch = ch /\ n > waiters[i].since
    BY <1>6 DEF Woken
  <2>3. /\ View(conns[k], sock[conns[k].fd].req)
             = [st |-> "parked", ch |-> ch, since |-> waiters[i].since]
        /\ View(conns'[k], sock[conns[k].fd].req)
             = [st |-> "answered", ch |-> ch, since |-> waiters[i].since, upto |-> n]
    BY <1>11, <2>1, <2>2, WokenView
  <2> QED
    BY <1>5, <2>2, <2>3 DEF LP!HasNews
<1>12. \A g \in FD : Polls'[g] = After(Polls[g])
  <2> HIDE DEF After
  <2> TAKE g \in FD
  <2>1. CASE Polls[g] = NoPoll /\ Polls'[g] = NoPoll
    BY <1>8, <2>1
  <2>2. ASSUME NEW k \in DOMAIN conns, conns[k].fd = g,
               Polls[g] = View(conns[k], sock[g].req),
               Polls'[g] = View(conns'[k], sock'[g].req)
        PROVE  Polls'[g] = After(Polls[g])
    BY <1>2, <1>7, <1>8, <1>9, <1>10, <1>11, <2>2
  <2> QED
    BY <1>1, <1>2, <2>1, <2>2, PollsKept
<1>13. Polls' = [g \in FD |-> After(Polls[g])]
  BY <1>12 DEF Polls
<1>14. LP!Post(ch)
  BY <1>5, <1>13 DEF LP!Post, LP!Answered, Polls
<1> QED
  BY <1>14 DEF LP!Next

(* Deadlines pass. *)
LEMMA ExpireMaps ==
  ASSUME Inv, Inv', DrainExpired
  PROVE  LP!Next
<1>1. /\ DOMAIN conns' = DOMAIN conns /\ sock' = sock /\ channels' = channels
      /\ \A k \in DOMAIN conns : conns'[k].fd = conns[k].fd
  BY ExpireEffect
<1>2. PICK I \in SUBSET DOMAIN waiters : Drained(I, DOMAIN conns, OwnCursor)
  BY ExpireEffect
<1>3. \A k \in DOMAIN conns :
        \/ conns'[k] = conns[k] /\ \A i \in I : waiters[i].fd # conns[k].fd
        \/ \E i \in I : WokenBy(conns[k], conns'[k], waiters[i], OwnCursor)
  BY <1>2 DEF Drained
<1>4. PICK late \in SUBSET FD : late = {waiters[i].fd : i \in I}
  <2>1. \A i \in I : waiters[i].fd \in FD
    BY ParkedFacts DEF Waiter
  <2>2. {waiters[i].fd : i \in I} \in SUBSET FD
    BY <2>1
  <2> QED
    BY <2>2
<1> DEFINE Calm(p) == p.st = "parked" /\ ~ LP!HasNews(News[p.ch], p.since)
           Late(p) == [st |-> "answered", ch |-> p.ch, since |-> p.since, upto |-> p.since]
<1>5. ASSUME NEW k \in DOMAIN conns, NEW i \in I,
             WokenBy(conns[k], conns'[k], waiters[i], OwnCursor)
      PROVE  LET r == sock[conns[k].fd].req IN
             Calm(View(conns[k], r)) /\ View(conns'[k], r) = Late(View(conns[k], r))
  <2>1. waiters[i] \in Waiter /\ OwnCursor[waiters[i]] = waiters[i].since
    BY ParkedFacts DEF OwnCursor
  <2>2. /\ View(conns[k], sock[conns[k].fd].req)
             = [st |-> "parked", ch |-> waiters[i].ch, since |-> waiters[i].since]
        /\ View(conns'[k], sock[conns[k].fd].req)
             = [st |-> "answered", ch |-> waiters[i].ch, since |-> waiters[i].since,
                upto |-> waiters[i].since]
    BY <1>5, <2>1, WokenView
  <2>3. ~ LP!HasNews(News[waiters[i].ch], waiters[i].since)
    <3>1. waiters[i].ch \in DOMAIN channels /\ channels[waiters[i].ch] >= 1
            => channels[waiters[i].ch] <= waiters[i].since
      BY DEF Inv, NoMissedWakeup
    <3>2. waiters[i].ch \in Channel /\ waiters[i].since \in Int
      BY <2>1 DEF Waiter
    <3>3. channels \in [DOMAIN channels -> Nat]
      BY DEF Inv, TypeInv
    <3> QED
      BY <3>1, <3>2, <3>3 DEF LP!HasNews, News
  <2> QED
    BY <2>2, <2>3
<1> HIDE DEF Calm, Late
<1>6. \A g \in late : Calm(Polls[g]) /\ Polls'[g] = Late(Polls[g])
  <2> TAKE g \in late
  <2>1. PICK i \in I : waiters[i].fd = g
    BY <1>4
  <2>2. PICK k \in DOMAIN conns : conns[k].fd = g
    BY <2>1, ParkedFacts
  <2>3. PICK j \in I : WokenBy(conns[k], conns'[k], waiters[j], OwnCursor)
    BY <1>3, <2>1, <2>2
  <2>4. Polls[g] = View(conns[k], sock[g].req) /\ Polls'[g] = View(conns'[k], sock[g].req)
    <3>1. \A j1 \in DOMAIN conns : conns[j1].fd = g <=> j1 = k
      BY <2>2 DEF Inv, OneConnPerSocket
    <3> QED
      BY <1>1, <2>2, <3>1, PollsKept
  <2> QED
    BY <1>5, <2>2, <2>3, <2>4
<1>7. \A g \in FD \ late : Polls'[g] = Polls[g]
  <2> TAKE g \in FD \ late
  <2>1. CASE Polls[g] = NoPoll /\ Polls'[g] = NoPoll
    BY <2>1
  <2>2. ASSUME NEW k \in DOMAIN conns, conns[k].fd = g,
               Polls[g] = View(conns[k], sock[g].req),
               Polls'[g] = View(conns'[k], sock'[g].req)
        PROVE  Polls'[g] = Polls[g]
    <3>1. \A i \in I : ~ WokenBy(conns[k], conns'[k], waiters[i], OwnCursor)
      BY <1>4, <2>2 DEF WokenBy
    <3> QED
      BY <1>1, <1>3, <2>2, <3>1
  <2> QED
    BY <1>1, <2>1, <2>2, PollsKept
<1>8. Polls' = [g \in FD |-> IF g \in late THEN Late(Polls[g]) ELSE Polls[g]]
  BY <1>6, <1>7 DEF Polls
<1>9. News' = News
  BY <1>1, NewsKept
<1>10. LP!Expire(late)
  BY <1>6, <1>8, <1>9 DEF LP!Expire, LP!Answered, Polls, Calm, Late
<1> QED
  BY <1>10 DEF LP!Next

(* A connection is closed: it was not waiting. *)
LEMMA CloseMaps ==
  ASSUME Inv, Inv', CloseOne
  PROVE  LP!Next \/ UNCHANGED LP!vars
<1>1. PICK fd \in FD :
        /\ \E j \in DOMAIN toClose : toClose[j] = fd
        /\ sock' = [sock EXCEPT ![fd] = Closed]
        /\ \A p \in DOMAIN conns' :
             \E k \in DOMAIN conns : conns[k].fd # fd /\ conns'[p] = conns[k]
        /\ \A k \in DOMAIN conns :
             conns[k].fd # fd => \E p \in DOMAIN conns' : conns'[p] = conns[k]
  BY CloseEffect
<1>2. \A g \in FD : g # fd => sock'[g] = sock[g]
  BY <1>1 DEF Inv, TypeInv
<1>3. \A g \in FD :
        /\ \A k \in DOMAIN conns : conns[k].fd = g => Polls[g] = View(conns[k], sock[g].req)
        /\ (\A k \in DOMAIN conns : conns[k].fd # g) => Polls[g] = NoPoll
  BY ViewFacts DEF Viewed
<1>4. \A g \in FD :
        /\ \A k \in DOMAIN conns' : conns'[k].fd = g => Polls'[g] = View(conns'[k], sock'[g].req)
        /\ (\A k \in DOMAIN conns' : conns'[k].fd # g) => Polls'[g] = NoPoll
  BY ViewNext DEF Viewed, View, NoPoll
<1>5. Polls'[fd] = NoPoll
  BY <1>1, <1>4
<1>6. Polls[fd] = NoPoll \/ Polls[fd].st = "answered"
  <2>1. CASE \E k \in DOMAIN conns : conns[k].fd = fd
    <3>1. PICK k \in DOMAIN conns : conns[k].fd = fd
      BY <2>1
    <3>2. conns[k].phase # "WAITING"
      BY <1>1, <3>1 DEF Inv, MarkedAwake
    <3>3. \A c, q : c.phase # "WAITING" => View(c, q) = NoPoll \/ View(c, q).st = "answered"
      BY DEF View
    <3> QED
      BY <1>3, <3>1, <3>2, <3>3
  <2>2. CASE \A k \in DOMAIN conns : conns[k].fd # fd
    BY <1>3, <2>2
  <2> QED
    BY <2>1, <2>2
<1>7. ASSUME NEW g \in FD, g # fd
      PROVE  Polls'[g] = Polls[g]
  <2>1. CASE \E k \in DOMAIN conns : conns[k].fd = g
    <3>1. PICK k \in DOMAIN conns : conns[k].fd = g
      BY <2>1
    <3>2. PICK p \in DOMAIN conns' : conns'[p] = conns[k]
      BY <1>1, <1>7, <3>1
    <3> QED
      BY <1>2, <1>3, <1>4, <1>7, <3>1, <3>2
  <2>2. CASE \A k \in DOMAIN conns : conns[k].fd # g
    <3>1. \A p \in DOMAIN conns' : conns'[p].fd # g
      BY <1>1, <2>2
    <3> QED
      BY <1>3, <1>4, <2>2, <3>1
  <2> QED
    BY <2>1, <2>2
<1>8. News' = News
  BY CloseEffect, NewsKept
<1>9. CASE Polls[fd] = NoPoll
  BY <1>5, <1>7, <1>8, <1>9, PollsSame, Stutters
<1>10. CASE Polls[fd].st = "answered"
  <2>1. Polls' = [Polls EXCEPT ![fd] = NoPoll]
    BY <1>5, <1>7 DEF Polls
  <2>2. LP!Forget(fd)
    BY <1>8, <1>10, <2>1 DEF LP!Forget, LP!Idle, NoPoll, Polls
  <2> QED
    BY <2>2 DEF LP!Next
<1> QED
  BY <1>6, <1>9, <1>10

LEMMA StepMaps == Inv /\ Inv' /\ [Next]_vars => [LP!Next]_LP!vars
BY QuietMaps, PeerMaps, AcceptMaps, PlainMaps, PollNowMaps, PollParkMaps, SendMaps,
   ExpireMaps, CloseMaps, StepCases

LEMMA InitMaps == Init => LP!Init
<1> SUFFICES ASSUME Init PROVE LP!Init
  OBVIOUS
<1>1. Inv /\ conns = <<>> /\ channels = [c \in {General} |-> 0]
  BY InvInit DEF Init
<1>2. DOMAIN conns = {}
  BY <1>1
<1>3. \A fd \in FD : Polls[fd] = NoPoll
  BY <1>1, <1>2, ViewFacts DEF Viewed
<1>4. Polls = [c \in FD |-> LP!Idle]
  BY <1>3 DEF Polls, LP!Idle, NoPoll
<1>5. News = [ch \in Channel |-> 0]
  BY <1>1 DEF News
<1> QED
  BY <1>4, <1>5 DEF LP!Init, Polls

(* Through connections, buffers, the waiter list and the event loop, the        *)
(* server does what LongPoll says: a poll is answered at once when there is      *)
(* news and parked otherwise, a message answers in its own step everyone it is   *)
(* news to, a deadline answers only who has missed nothing, and no parked poll   *)
(* is forgotten (route, drain_waiters, drain_expired and close_fd together).   *)
THEOREM KeepsThePromise == Spec => RefinesLongPoll
<1>1. Init => LP!Init
  BY InitMaps
<1>2. Inv /\ Inv' /\ [Next]_vars => [LP!Next]_LP!vars
  BY StepMaps
<1> QED
  BY Invariant, <1>1, <1>2, PTL DEF Spec, RefinesLongPoll, LP!Spec
=============================================================================
