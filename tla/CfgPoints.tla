------------------------------ MODULE CfgPoints -------------------------------
(***************************************************************************)
(* What the code of a program point has to do.  A point is a place in the      *)
(* blocks together with what is left to do there (`cont`, statements and what   *)
(* they leave behind, the next one first) and the scopes its names are looked   *)
(* up in.  Continuations are counted from the end, where they stay the same     *)
(* while things are pushed and popped at the front.                          *)
(***************************************************************************)
EXTENDS CfgRun

AnySeq(s)  == \E X : s \in Seq(X)
Back(s, k) == s[Len(s) + 1 - k]
Last(s, m) == SubSeq(s, Len(s) - m + 1, Len(s))

Point(b, i, c, sc) == [b |-> b, i |-> i, cont |-> c, sc |-> sc]

ForKinds == {"list", "iter"}
Micro    == {"init", "round", "get", "test", "some"}

(* A loop: its statement, the blocks to continue and to leave it, its first    *)
(* local, the scopes and what is left after it.  It stands in a continuation    *)
(* where the statements have Again.                                          *)
LoopRec(s, c, x, l, sc, rest) ==
  [k |-> "again", stmt |-> s, cont |-> c, exit |-> x, l |-> l, sc |-> sc, rest |-> rest]

(* The end of a for's body; a stage of a for that is under way. *)
FPop           == [k |-> "fpop"]
Stage(kind, l) == [k |-> kind, loop |-> l]

(* What closes a loop's body, and the body with what follows it. *)
Closing(l)   == IF l.stmt.k = "while" THEN <<l>> ELSE <<FPop, l>>
Inside(l, c) == <<Block(l.stmt.body)>> \o (Closing(l) \o c)

(* The local of a for's variable, and those it keeps for itself. *)
VarOf(l)   == IF l.stmt.k = "list" THEN l.l + 3 ELSE l.l + 2
Keeps(l)   == IF l.stmt.k \in ForKinds THEN l.l .. VarOf(l) - 1 ELSE {}
Reserves(x) == IF x.k = "again" THEN Keeps(x) ELSE IF x.k \in Micro THEN Keeps(x.loop) ELSE {}

Holding(sc, x)  == {k \in DOMAIN sc : x \in DOMAIN sc[k]}
LookupIn(sc, x) == sc[CHOOSE k \in Holding(sc, x) : \A j \in Holding(sc, x) : j <= k][x]

Fresh(p, l) ==
  /\ \A k \in DOMAIN p.sc : \A x \in DOMAIN p.sc[k] : p.sc[k][x] # l
  /\ \A k \in 1 .. Len(p.cont) : l \notin Reserves(Back(p.cont, k))

(* The innermost loop of a continuation. *)
Nearest(c, k) ==
  /\ k \in 1 .. Len(c) /\ Back(c, k).k = "again"
  /\ \A j \in k + 1 .. Len(c) : Back(c, j).k # "again"

ExitPoint(l) == Point(l.exit, 1, l.rest, l.sc)
ContItem(l)  == IF l.stmt.k = "iter" THEN Stage("round", l) ELSE l
ContPoint(l) == Point(l.cont, 1, <<ContItem(l)>> \o l.rest, l.sc)

-----------------------------------------------------------------------------
(* The point's head, what is left after it, and the next point. *)
H(p)          == Head(p.cont)
R(p)          == Tail(p.cont)
Is(p, K)      == p.cont # <<>> /\ H(p).k \in K
On(p, c, sc)  == Point(p.b, p.i + 1, c, sc)

(* Nothing is emitted for it: the code is that of a point at the same place. *)
HereBlock(p, P) ==
  Is(p, {"block"}) /\ Point(p.b, p.i, H(p).body \o <<Pop>> \o R(p), Append(p.sc, [x \in {} |-> 0])) \in P
HerePop(p, P)   == Is(p, {"pop"}) /\ Point(p.b, p.i, R(p), SubSeq(p.sc, 1, Len(p.sc) - 1)) \in P
HereAgain(p, P) ==
  Is(p, {"again"}) /\ H(p).stmt.k = "while" /\ Point(p.b, p.i, <<H(p).stmt>> \o R(p), p.sc) \in P

Here(p, P) == HereBlock(p, P) \/ HerePop(p, P) \/ HereAgain(p, P)

(* Statement x is emitted. *)
StepAct(p, P, x) ==
  /\ Is(p, {"act", "drop"})
  /\ x = IF H(p).k = "act" THEN [op |-> "act", val |-> H(p).val] ELSE [op |-> "drop"]
  /\ On(p, R(p), p.sc) \in P
StepUse(p, P, x) ==
  /\ Is(p, {"use"}) /\ x = [op |-> "use", src |-> LookupIn(p.sc, H(p).name)]
  /\ On(p, R(p), p.sc) \in P
StepAssign(p, P, x) ==
  /\ Is(p, {"assign"}) /\ x = Set(LookupIn(p.sc, H(p).name), H(p).val)
  /\ On(p, R(p), p.sc) \in P
StepVar(p, P, x) ==
  /\ Is(p, {"var"}) /\ \E d \in {x.dst} : x = Set(d, H(p).val) /\ d \in Nat /\ Fresh(p, d)
  /\ On(p, R(p), Bound(p.sc, H(p).name, x.dst)) \in P

(* A for begins: loop l binds the variable to its last local. *)
Begins(p, l, first) ==
  /\ l = LoopRec(H(p), l.cont, l.exit, l.l, Bound(p.sc, H(p).name, VarOf(l)), R(p))
  /\ l.l = first /\ first \in Nat /\ \A d \in first .. VarOf(l) : Fresh(p, d)
StepList(p, P, x) ==
  /\ Is(p, {"list"}) /\ x = [op |-> "size", dst |-> x.dst]
  /\ \E l : Begins(p, l, x.dst) /\ On(p, <<Stage("init", l)>> \o R(p), l.sc) \in P
StepIter(p, P, x) ==
  /\ Is(p, {"iter"}) /\ x = Set(x.dst, 0)
  /\ \E l : Begins(p, l, x.dst) /\ On(p, <<Stage("round", l)>> \o R(p), l.sc) \in P

StepInit(p, P, x) ==
  /\ Is(p, {"init"}) /\ x = Set(H(p).loop.l + 1, 0)
  /\ On(p, <<Stage("round", H(p).loop)>> \o R(p), p.sc) \in P
StepInc(p, P, x) ==
  /\ Is(p, {"again"}) /\ H(p).stmt.k = "list" /\ x = [op |-> "inc", dst |-> H(p).l + 1]
  /\ On(p, <<Stage("round", H(p))>> \o R(p), p.sc) \in P
StepGet(p, P, x) ==
  /\ Is(p, {"get"}) /\ x = [op |-> "get", dst |-> H(p).loop.l + 2, at |-> H(p).loop.l + 1]
  /\ On(p, <<Stage("some", H(p).loop)>> \o R(p), p.sc) \in P
StepNext(p, P, x) ==
  /\ Is(p, {"round"}) /\ H(p).loop.stmt.k = "iter"
  /\ x = [op |-> "next", dst |-> H(p).loop.l + 1, it |-> H(p).loop.l]
  /\ On(p, <<Stage("test", H(p).loop)>> \o R(p), p.sc) \in P
StepSome(p, P, x) ==
  /\ Is(p, {"some"})
  /\ x = [op |-> "payload", dst |-> VarOf(H(p).loop), src |-> VarOf(H(p).loop) - 1]
  /\ On(p, Inside(H(p).loop, R(p)), p.sc) \in P

Steps(p, P, x) ==
  \/ StepAct(p, P, x) \/ StepUse(p, P, x) \/ StepAssign(p, P, x) \/ StepVar(p, P, x)
  \/ StepList(p, P, x) \/ StepIter(p, P, x) \/ StepInit(p, P, x) \/ StepInc(p, P, x)
  \/ StepGet(p, P, x) \/ StepNext(p, P, x) \/ StepSome(p, P, x)

(* The block ends with t. *)
EndReturn(p, P, t) ==
  \/ p.cont = <<>> /\ t = Return(0)
  \/ Is(p, {"return"}) /\ t = Return(H(p).val)
EndBreak(p, P, t) ==
  /\ Is(p, {"break"})
  /\ \E k \in 1 .. Len(p.cont) :
       Nearest(p.cont, k) /\ t = Goto(Back(p.cont, k).exit) /\ ExitPoint(Back(p.cont, k)) \in P
EndContinue(p, P, t) ==
  /\ Is(p, {"continue"})
  /\ \E k \in 1 .. Len(p.cont) :
       Nearest(p.cont, k) /\ t = Goto(Back(p.cont, k).cont) /\ ContPoint(Back(p.cont, k)) \in P
EndBody(p, P, t) ==
  /\ Is(p, {"fpop"}) /\ R(p) # <<>> /\ Head(R(p)).k = "again"
  /\ t = Goto(Head(R(p)).cont) /\ ContPoint(Head(R(p))) \in P
EndIf(p, P, t) ==
  /\ Is(p, {"if"}) /\ t.t = "cond" /\ t = CondBr(<<"free">>, t.yes, t.no)
  /\ Point(t.yes, 1, <<Block(H(p).body)>> \o R(p), p.sc) \in P
  /\ Point(t.no, 1, <<Block(H(p).else)>> \o R(p), p.sc) \in P
EndWhile(p, P, t) ==
  /\ Is(p, {"while"}) /\ t.t = "cond"
  /\ \E l : /\ l = LoopRec(H(p), l.cont, l.exit, l.l, p.sc, R(p))
            /\ t = CondBr(<<"free">>, t.yes, l.exit) /\ ExitPoint(l) \in P
            /\ Point(t.yes, 1, Inside(l, R(p)), p.sc) \in P
EndRound(p, P, t) ==
  /\ Is(p, {"round"}) /\ H(p).loop.stmt.k = "list" /\ t.t = "cond"
  /\ LET l == H(p).loop IN
       /\ t = CondBr(<<"ge", l.l + 1, l.l>>, l.exit, t.no)
       /\ ExitPoint(l) \in P /\ Point(t.no, 1, <<Stage("get", l)>> \o R(p), p.sc) \in P
EndTest(p, P, t) ==
  /\ Is(p, {"test"}) /\ t.t = "cond"
  /\ LET l == H(p).loop IN
       /\ t = CondBr(<<"null", l.l + 1>>, l.exit, t.no)
       /\ ExitPoint(l) \in P /\ Point(t.no, 1, <<Stage("some", l)>> \o R(p), p.sc) \in P
EndJump(p, P, t) == t.t = "goto" /\ t = Goto(t.to) /\ Point(t.to, 1, p.cont, p.sc) \in P

Closes(p, P, t) ==
  \/ EndReturn(p, P, t) \/ EndBreak(p, P, t) \/ EndContinue(p, P, t) \/ EndBody(p, P, t)
  \/ EndIf(p, P, t) \/ EndWhile(p, P, t) \/ EndRound(p, P, t) \/ EndTest(p, P, t) \/ EndJump(p, P, t)

StepsAt(p, P, bs) == p.i \in 1 .. Len(bs[p.b].stmts) /\ Steps(p, P, bs[p.b].stmts[p.i])
ClosesAt(p, P, bs) ==
  p.i = Len(bs[p.b].stmts) + 1 /\ bs[p.b].term # Unreachable /\ Closes(p, P, bs[p.b].term)

Coded(p, P, bs) == Here(p, P) \/ StepsAt(p, P, bs) \/ ClosesAt(p, P, bs)

-----------------------------------------------------------------------------
(* While the lowering is under way: W[k] is what is left to do before the      *)
(* k-th item of the agenda, from its end: the continuation, how many scopes     *)
(* and loops there are then, and where in it the innermost loop is.           *)
Waiting(x) == IF x.k = "arm" THEN {x.next}
              ELSE IF x.k = "end" THEN {x.brk}
              ELSE IF x.k = "endlist" THEN {x.cont, x.brk} ELSE {}
JumpKinds == {"arm", "end", "endlist"}
Todo(c, sd, ld, in) == [cont |-> c, sd |-> sd, ld |-> ld, in |-> in]

PopOK(w, v) == w.cont = <<Pop>> \o v.cont /\ w.sd = v.sd + 1 /\ w.ld = v.ld
ArmOK(P, a, w, v, sc) ==
  /\ w.sd = v.sd /\ w.ld = v.ld
  /\ Point(a.join, 1, w.cont, SubSeq(sc, 1, w.sd)) \in P
  /\ Point(a.next, 1, v.cont, SubSeq(sc, 1, w.sd)) \in P
EndOK(P, a, w, v, sc) ==
  LET l == Back(w.cont, w.in) IN
  /\ v.ld = w.ld - 1 /\ v.sd = w.sd /\ w.in = Len(v.cont) + 1
  /\ w.cont = Closing(l) \o v.cont
  /\ l.k = "again" /\ l.stmt.k \in {"while", "list", "iter"}
  /\ l.cont = a.cont /\ l.exit = a.brk /\ l.rest = v.cont /\ l.sc = SubSeq(sc, 1, w.sd)
  /\ ExitPoint(l) \in P /\ ContPoint(l) \in P
  /\ a.k = "endlist" <=> l.stmt.k = "list"
  /\ l.stmt.k = "while" => Point(l.cont, 1, <<l.stmt>> \o l.rest, l.sc) \in P
  /\ a.k = "endlist" => a.i = l.l + 1 /\ Point(a.head, 1, <<Stage("round", l)>> \o l.rest, l.sc) \in P
StmtOK(a, w, v) == w.cont = <<a>> \o v.cont /\ w.sd = v.sd /\ w.ld = v.ld

ItemOK(P, a, w, v, sc) ==
  /\ a.k = "pop" => PopOK(w, v)
  /\ a.k = "arm" => ArmOK(P, a, w, v, sc)
  /\ a.k \in {"end", "endlist"} => EndOK(P, a, w, v, sc)
  /\ a.k \notin {"pop", "arm", "end", "endlist"} => StmtOK(a, w, v)

(* The innermost loop is the one of the frame f. *)
LoopOK(P, w, f) ==
  LET l == Back(w.cont, w.in) IN
  /\ Nearest(w.cont, w.in)
  /\ l.cont = f.cont /\ l.exit = f.brk /\ ExitPoint(l) \in P /\ ContPoint(l) \in P
EntryOK(P, w, ls, n) ==
  /\ AnySeq(w.cont) /\ w.sd \in Nat /\ w.ld \in Nat
  /\ \A k \in 1 .. Len(w.cont) : Reserves(Back(w.cont, k)) \subseteq 0 .. n - 1
  /\ w.ld > 0 => LoopOK(P, w, ls[w.ld])

Current(w) == Point(cur, Len(blocks[cur].stmts) + 1, w.cont, scope)
Awaited(p, a, w, v, sc) ==
  \/ a.k = "arm" /\ p = Point(a.next, 1, v.cont, SubSeq(sc, 1, w.sd))
  \/ a.k \in {"end", "endlist"} /\ p = ExitPoint(Back(w.cont, w.in))
  \/ a.k = "endlist" /\ p = ContPoint(Back(w.cont, w.in))
Opened(p, W) ==
  \/ p = Current(W[Len(agenda)])
  \/ \E k \in 1 .. Len(agenda) : Awaited(p, Back(agenda, k), W[k], W[k - 1], scope)

Entries(P, W) ==
  /\ DOMAIN W = 0 .. Len(agenda) /\ W[0].cont = <<>>
  /\ \A k \in 0 .. Len(agenda) : EntryOK(P, W[k], loops, nextLocal)
  /\ \A k \in 1 .. Len(agenda) : ItemOK(P, Back(agenda, k), W[k], W[k - 1], scope)
  /\ W[Len(agenda)].sd = Len(scope) /\ W[Len(agenda)].ld = Len(loops)

(* Scopes and loops only grow towards the front, and a statement that may      *)
(* bind a name is in a scope of its own, above what the jumps behind it use.    *)
Nesting(W) ==
  /\ \A k \in 0 .. Len(agenda) : \A j \in k .. Len(agenda) : W[k].sd <= W[j].sd /\ W[k].ld <= W[j].ld
  /\ \A k \in 1 .. Len(agenda) : Back(agenda, k).k \in JumpKinds =>
       \A j \in k + 1 .. Len(agenda) : Back(agenda, j).k \notin {"block"} \cup JumpKinds => W[k].sd < W[j].sd

NothingYet ==
  /\ \A b \in DOMAIN blocks : AnySeq(blocks[b].stmts)
  /\ \A k \in 1 .. Len(agenda) : \A b \in Waiting(Back(agenda, k)) : blocks[b].stmts = <<>>

Points(P, W) ==
  /\ ~ Done => Current(W[Len(agenda)]) \in P
  /\ \A p \in P : p.b \in DOMAIN blocks /\ p.i \in Nat \ {0}
  /\ \A p \in P : Coded(p, P, blocks) \/ (~ Done /\ Opened(p, W))

Lowering(P, W) == Entries(P, W) /\ Nesting(W) /\ NothingYet /\ Points(P, W)
=============================================================================
