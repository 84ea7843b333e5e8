------------------------------- MODULE CfgMatch --------------------------------
(***************************************************************************)
(* When a state of the statements and a state of the blocks are the same      *)
(* place of the program, and the states of the statements that stand for the    *)
(* state the blocks are in.                                                  *)
(***************************************************************************)
EXTENDS CfgPoints

(* A state of the statements, what it does next, and its silent step. *)
Source(td, en) == [todo |-> td, env |-> en]
Turn(r)        == IF r.todo = <<>> THEN [k |-> "return", val |-> 0] ELSE Head(r.todo)
Sees(r)        == Turn(r).k \in {"act", "use", "drop", "return", "while", "if"}

BoundIn(en, x) == \E j \in DOMAIN en : x \in DOMAIN en[j]
Newest(en, x)  ==
  CHOOSE k \in DOMAIN en : x \in DOMAIN en[k] /\ \A j \in DOMAIN en : x \in DOMAIN en[j] => j <= k
GivenUp(r, k)  ==
  Source(SubSeq(r.todo, k + 1, Len(r.todo)),
         SubSeq(r.env, 1, Len(r.env) - Cardinality({j \in 1 .. k : r.todo[j].k = "pop"})))
LoopOf(td) == CHOOSE k \in DOMAIN td : td[k].k = "again" /\ \A j \in 1 .. k - 1 : td[j].k # "again"

(* A for whose next round is round i, of n. *)
ForAgain(s, i, n) == Again([k |-> s.k, name |-> s.name, body |-> s.body, at |-> i, n |-> n])
Rounds(r, s, i, n) ==
  IF i < n THEN Source(<<Block(s.body), Pop, ForAgain(s, i + 1, n)>> \o Tail(r.todo),
                       Append(r.env, [x \in {s.name} |-> i]))
  ELSE Source(Tail(r.todo), r.env)

GoesVar(r, q) == Turn(r).k = "var" /\ q = Source(Tail(r.todo),
  [r.env EXCEPT ![Len(r.env)] = [x \in DOMAIN @ \cup {Turn(r).name} |-> IF x = Turn(r).name THEN Turn(r).val ELSE @[x]]])
GoesAssign(r, q) == Turn(r).k = "assign" /\ q = Source(Tail(r.todo),
  [r.env EXCEPT ![Newest(r.env, Turn(r).name)][Turn(r).name] = Turn(r).val])
GoesBlock(r, q) ==
  Turn(r).k = "block" /\ q = Source(Turn(r).body \o <<Pop>> \o Tail(r.todo), Append(r.env, [x \in {} |-> 0]))
GoesPop(r, q)   == Turn(r).k = "pop" /\ q = GivenUp(r, 1)
GoesAgain(r, q) ==
  Turn(r).k = "again" /\ Turn(r).stmt.k = "while" /\ q = Source(<<Turn(r).stmt>> \o Tail(r.todo), r.env)
GoesFor(r, q, n) ==
  \/ Turn(r).k \in ForKinds /\ q = Rounds(r, Turn(r), 0, n)
  \/ /\ Turn(r).k = "again" /\ Turn(r).stmt.k \in ForKinds
     /\ q = Rounds(r, Turn(r).stmt, Turn(r).stmt.at, IF Turn(r).stmt.k = "iter" THEN n ELSE Turn(r).stmt.n)
GoesOut(r, q) ==
  \/ Turn(r).k = "break" /\ q = GivenUp(r, LoopOf(r.todo))
  \/ Turn(r).k = "continue" /\ q = GivenUp(r, LoopOf(r.todo) - 1)

Goes(r, q, n) ==
  \/ GoesVar(r, q) \/ GoesAssign(r, q) \/ GoesBlock(r, q) \/ GoesPop(r, q) \/ GoesAgain(r, q)
  \/ GoesFor(r, q, n) \/ GoesOut(r, q)

(* What is asked of a program: the validator sees to the names of a use and of   *)
(* an assignment; a for's name is not in use around it, and no list loop runs    *)
(* over a list that shrinks.                                                 *)
Regular(r) ==
  /\ Turn(r).k \in {"use", "assign"} => BoundIn(r.env, Turn(r).name)
  /\ Turn(r).k \in ForKinds => ~ BoundIn(r.env, Turn(r).name)
  /\ Turn(r).k = "drop" => \A k \in DOMAIN r.todo : r.todo[k].k = "again" => r.todo[k].stmt.k # "list"

-----------------------------------------------------------------------------
(* Item by item: x of the point, y of the statements, both k-th from the end.    *)
PopLike     == {"pop", "fpop"}
Depth(c, k) == 1 + Cardinality({j \in 1 .. k : Back(c, j).k \in PopLike})

(* A local holds a value. *)
Holds(st, l, v) == l \in DOMAIN st /\ st[l] = v

IsCode(x)  == x \in Stmt \/ (x.k = "block" /\ x.body \in Seq(Stmt) /\ x = Block(x.body))
LoopKind(l) ==
  /\ l.k = "again" /\ l.stmt \in Stmt /\ l.stmt.k \in {"while", "list", "iter"}
  /\ l.stmt.k \in ForKinds => /\ l.l \in Nat
                              /\ l.stmt.name \in DOMAIN l.sc[Len(l.sc)]
                              /\ l.sc[Len(l.sc)][l.stmt.name] = VarOf(l)

(* y is the for s itself, its rounds still to come, or what a round left. *)
IsRound(s, y) ==
  y.k = "again" /\ y.stmt.at \in Nat /\ y.stmt.n \in Nat /\ y.stmt.at > 0 /\ y = ForAgain(s, y.stmt.at, y.stmt.n)
RoundAt(y)    == IF y.k = "again" THEN y.stmt.at ELSE 0
RoundEnd(y, n) == IF y.k = "again" THEN y.stmt.n ELSE n

ListStage(k, l, y, st, n) ==
  /\ k \in {"init", "round", "get", "some"}
  /\ Holds(st, l, RoundEnd(y, n)) /\ RoundEnd(y, n) <= n
  /\ k = "init" => y.k = "list"
  /\ k # "init" => Holds(st, l + 1, RoundAt(y))
  /\ k \in {"get", "some"} => RoundAt(y) < RoundEnd(y, n)
  /\ k = "some" => Holds(st, l + 2, RoundAt(y))
IterStage(k, l, y, st, n) ==
  /\ k \in {"round", "test", "some"}
  /\ Holds(st, l, IF k = "round" THEN RoundAt(y) ELSE RoundAt(y) + 1)
  /\ k = "test" => Holds(st, l + 1, IF RoundAt(y) < n THEN RoundAt(y) ELSE Null)
  /\ k = "some" => Holds(st, l + 1, RoundAt(y)) /\ RoundAt(y) < n
StageMatch(x, y, st, n) ==
  /\ LoopKind(x.loop) /\ x.loop.stmt.k \in ForKinds /\ (y = x.loop.stmt \/ IsRound(x.loop.stmt, y))
  /\ x.loop.stmt.k = "list" => ListStage(x.k, x.loop.l, y, st, n)
  /\ x.loop.stmt.k = "iter" => IterStage(x.k, x.loop.l, y, st, n)

LoopMatch(x, y, st, n) ==
  /\ LoopKind(x)
  /\ x.stmt.k = "while" => y = Again(x.stmt)
  /\ x.stmt.k \in ForKinds => IsRound(x.stmt, y)
  /\ x.stmt.k = "list" => Holds(st, x.l, y.stmt.n) /\ y.stmt.n <= n /\ Holds(st, x.l + 1, y.stmt.at - 1)
  /\ x.stmt.k = "iter" => Holds(st, x.l, y.stmt.at)

ItemMatch(x, y, st, n) ==
  \/ x.k \in PopLike /\ y = Pop
  \/ x.k = "again" /\ LoopMatch(x, y, st, n)
  \/ x.k \in Micro /\ StageMatch(x, y, st, n)
  \/ IsCode(x) /\ y = x
ItemsMatch(c, td, st, n) ==
  /\ AnySeq(c) /\ AnySeq(td) /\ Len(td) = Len(c)
  /\ \A k \in 1 .. Len(c) : ItemMatch(Back(c, k), Back(td, k), st, n)

-----------------------------------------------------------------------------
(* Frame j of env has its names in scope Lv[j]: a block's in one of its own,   *)
(* a for's in the one around it.                                            *)
Binders   == {"var", "list", "iter"}
IsFrame(f) == DOMAIN f \subseteq Name /\ f \in [DOMAIN f -> Int]

Levels(c, sc, en, Lv) ==
  /\ AnySeq(sc) /\ AnySeq(en) /\ AnySeq(Lv) /\ Len(Lv) = Len(en) /\ Len(en) = Depth(c, Len(c))
  /\ \A j \in 1 .. Len(Lv) : Lv[j] \in 1 .. Len(sc)
  /\ Lv[Len(Lv)] = Len(sc)
  /\ \A j \in 1 .. Len(Lv) : \A i \in 1 .. j : Lv[i] <= Lv[j]
Steep(c, Lv) ==
  \A k \in 1 .. Len(c) :
    /\ Back(c, k).k = "pop" => Lv[Depth(c, k)] = Lv[Depth(c, k - 1)] + 1
    /\ Back(c, k).k = "fpop" => Lv[Depth(c, k)] = Lv[Depth(c, k - 1)]
    /\ Back(c, k).k \in Binders => \A i \in 1 .. Depth(c, k) - 1 : Lv[i] < Lv[Depth(c, k)]

Names(sc, en, Lv, st) ==
  /\ \A j \in 1 .. Len(en) : IsFrame(en[j])
  /\ \A j \in 1 .. Len(en) : \A x \in DOMAIN en[j] :
       x \in DOMAIN sc[Lv[j]] /\ Holds(st, sc[Lv[j]][x], en[j][x])
  /\ \A m \in 1 .. Len(sc) : \A x \in DOMAIN sc[m] :
       \/ \E j \in 1 .. Len(en) : Lv[j] = m /\ x \in DOMAIN en[j]
       \/ \A j \in 1 .. Len(en) : Lv[j] <= m => x \notin DOMAIN en[j]
  /\ \A j \in 2 .. Len(en) : Lv[j - 1] = Lv[j] =>
       \A x \in DOMAIN en[j] : \A i \in 1 .. j - 1 : x \notin DOMAIN en[i]

(* Each name has a local of its own, and none that a for keeps for itself. *)
Apart(c, sc) ==
  /\ \A m, i \in 1 .. Len(sc) : \A x \in DOMAIN sc[m], y \in DOMAIN sc[i] :
       sc[m][x] = sc[i][y] => m = i /\ x = y
  /\ \A m \in 1 .. Len(sc) : \A x \in DOMAIN sc[m] : \A k \in 1 .. Len(c) :
       sc[m][x] \notin Reserves(Back(c, k))
  /\ \A i, k \in 1 .. Len(c) : i # k => Reserves(Back(c, i)) \cap Reserves(Back(c, k)) = {}

(* Where the loops stand. *)
StagePlace(c, x, sc, en) == x.loop.rest = c /\ x.loop.sc = sc /\ ~ BoundIn(en, x.loop.stmt.name)
LoopPlace(c, k, sc, en, Lv) ==
  LET l == Back(c, k) IN
  /\ l.rest = Last(c, k - 1) /\ l.sc = SubSeq(sc, 1, Lv[Depth(c, k)])
  /\ \A j \in k + 1 .. Len(c) : Back(c, j).k \in Binders => Depth(c, k) < Depth(c, j)
  /\ l.stmt.k \in ForKinds => \A i \in 1 .. Depth(c, k) : l.stmt.name \notin DOMAIN en[i]
Places(c, sc, en, Lv) ==
  \A k \in 1 .. Len(c) :
    /\ Back(c, k).k \in Micro => k = Len(c) /\ StagePlace(Last(c, k - 1), Back(c, k), sc, en)
    /\ Back(c, k).k = "again" => LoopPlace(c, k, sc, en, Lv)

Matches(c, sc, td, en, Lv, st, n) ==
  /\ ItemsMatch(c, td, st, n) /\ Levels(c, sc, en, Lv) /\ Steep(c, Lv) /\ Names(sc, en, Lv, st)
  /\ Apart(c, sc) /\ Places(c, sc, en, Lv)

-----------------------------------------------------------------------------
(* The states of the statements. *)
SrcItem ==
  Stmt \cup {Block(b) : b \in Seq(Stmt)} \cup {Pop} \cup {Again(s) : s \in Stmt}
    \cup {ForAgain(s, i, n) : s \in Stmt, i \in Nat, n \in Nat}
EnvFrame == UNION {[D -> Int] : D \in SUBSET Name}
States   == [todo : Seq(SrcItem), env : Seq(EnvFrame)]

(* r is where the blocks are. *)
Arrived(P, r, b, i, st, n) ==
  /\ r \in States
  /\ \E p \in P : p.b = b /\ p.i = i /\ \E Lv : Matches(p.cont, p.sc, r.todo, r.env, Lv, st, n)

(* The statements are where the blocks are, or get there in silence. *)
Stands(P, Q, r) ==
  Regular(r) => \/ Arrived(P, r, block, index, store, len)
                \/ ~ Sees(r) /\ \E q \in Q : Goes(r, q, len)
Sim(P) == \E Q : Source(todo, env) \in Q /\ \A r \in Q : Stands(P, Q, r)

Disciplined == Regular(Source(todo, env))
=============================================================================
