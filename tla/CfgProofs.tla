------------------------------ MODULE CfgProofs -------------------------------
(***************************************************************************)
(* What the lowering of statements leaves in the blocks and on its stacks,     *)
(* for all bodies: the code still to be lowered holds the ids of exactly the    *)
(* open blocks, each once.                                                  *)
(***************************************************************************)
EXTENDS Cfg, SequenceTheorems, FiniteSetTheorems, FunctionTheorems, TLAPS

(* What the agenda holds: statements, and the code after a recursive call. *)
Arms     == [k : {"arm"}, next : Nat, join : Nat]
LoopEnds == [k : {"end"}, cont : Nat, brk : Nat]
ListEnds == {x \in [k : {"endlist"}, cont : Nat, brk : Nat, head : Nat, i : Nat] :
               x.cont # x.brk}
Item     == Stmt \cup [k : {"block"}, body : Seq(Stmt)] \cup [k : {"pop"}]
              \cup Arms \cup LoopEnds \cup ListEnds

Binding == UNION {[D -> Nat] : D \in SUBSET Name}
Frame   == [cont : Nat, brk : Nat]

AnyBlocks(bs) == \E X, Y : bs \in Seq([stmts : X, term : Y])

Typed ==
  /\ agenda \in Seq(Item) /\ AnyBlocks(blocks)
  /\ scope \in Seq(Binding) /\ loops \in Seq(Frame) /\ nextLocal \in Nat \ {0}

(* The blocks an item of the agenda goes on in, or closes; those it jumps to. *)
Waits(x) == IF x.k = "arm" THEN {x.next}
            ELSE IF x.k = "end" THEN {x.brk}
            ELSE IF x.k = "endlist" THEN {x.cont, x.brk} ELSE {}
Jumps(x) == IF x.k = "arm" THEN {x.join}
            ELSE IF x.k = "end" THEN {x.cont}
            ELSE IF x.k = "endlist" THEN {x.cont, x.head} ELSE {}

AgendaIds == \A k \in DOMAIN agenda : Waits(agenda[k]) \cup Jumps(agenda[k]) \subseteq DOMAIN blocks

(* The current block and those waited for are open and all different. *)
Pending ==
  /\ agenda # <<>> => IsOpen(blocks, cur)
  /\ \A k \in DOMAIN agenda : \A b \in Waits(agenda[k]) : IsOpen(blocks, b) /\ b # cur
  /\ \A j, k \in DOMAIN agenda : j # k => Waits(agenda[j]) \cap Waits(agenda[k]) = {}

(* No other block is open. *)
Unsealed ==
  \A b \in DOMAIN blocks :
    IsOpen(blocks, b) => b = cur \/ \E k \in DOMAIN agenda : b \in Waits(agenda[k])

BlocksInv == Typed /\ TypeOK /\ AgendaIds /\ Pending /\ Unsealed

-----------------------------------------------------------------------------
(***************************************************************************)
(* The operations of FnBuilder on a list of blocks.                           *)
(***************************************************************************)
LEMMA BlockList ==
  ASSUME NEW bs, AnyBlocks(bs)
  PROVE  Len(bs) \in Nat /\ DOMAIN bs = 1 .. Len(bs)
<1>1. PICK X, Y : bs \in Seq([stmts : X, term : Y])
  BY DEF AnyBlocks
<1> QED
  BY <1>1, LenProperties

WithStmts(bs, b, x) == [bs EXCEPT ![b].stmts = x]

LEMMA SetStmts ==
  ASSUME NEW bs, AnyBlocks(bs), NEW b \in DOMAIN bs, NEW x
  PROVE  /\ AnyBlocks(WithStmts(bs, b, x)) /\ DOMAIN WithStmts(bs, b, x) = DOMAIN bs
         /\ \A c \in DOMAIN bs : WithStmts(bs, b, x)[c].term = bs[c].term
         /\ \A c \in DOMAIN bs : c # b => WithStmts(bs, b, x)[c] = bs[c]
<1> DEFINE cs == WithStmts(bs, b, x)
<1>1. PICK X, Y : bs \in Seq([stmts : X, term : Y])
  BY DEF AnyBlocks
<1>2. Len(bs) \in Nat /\ DOMAIN bs = 1 .. Len(bs)
  BY BlockList
<1>3. \A c \in DOMAIN bs : bs[c] \in [stmts : X, term : Y]
  BY <1>1, ElementOfSeq, <1>2
<1>4. DOMAIN cs = DOMAIN bs /\ \A c \in DOMAIN bs : c # b => cs[c] = bs[c]
  BY DEF WithStmts
<1>5. cs[b] = [bs[b] EXCEPT !.stmts = x]
  BY DEF WithStmts
<1> DEFINE T == [stmts : X \cup {x}, term : Y]
<1>6. cs[b] \in T /\ cs[b].term = bs[b].term
  BY <1>3, <1>5
<1>7. cs = [c \in 1 .. Len(bs) |-> cs[c]]
  BY <1>2 DEF WithStmts
<1> HIDE DEF cs
<1>8. \A c \in 1 .. Len(bs) : cs[c] \in T
  BY <1>2, <1>3, <1>4, <1>6
<1> HIDE DEF T
<1>9. cs \in Seq(T)
  BY <1>2, <1>7, <1>8, SeqDef
<1>10. AnyBlocks(cs)
  BY <1>9 DEF AnyBlocks, T
<1> QED
  BY <1>4, <1>6, <1>10 DEF cs

LEMMA EmitFacts ==
  ASSUME NEW bs, AnyBlocks(bs), NEW b \in DOMAIN bs, NEW s
  PROVE  /\ AnyBlocks(Emit(bs, b, s)) /\ DOMAIN Emit(bs, b, s) = DOMAIN bs
         /\ \A c \in DOMAIN bs : Emit(bs, b, s)[c].term = bs[c].term
         /\ \A c \in DOMAIN bs : c # b => Emit(bs, b, s)[c] = bs[c]
<1>1. Emit(bs, b, s) = WithStmts(bs, b, bs[b].stmts \o s)
  BY DEF Emit, WithStmts
<1> QED
  BY <1>1, SetStmts

LEMMA TerminateFacts ==
  ASSUME NEW bs, AnyBlocks(bs), NEW b \in DOMAIN bs, NEW x
  PROVE  /\ AnyBlocks(Terminate(bs, b, x)) /\ DOMAIN Terminate(bs, b, x) = DOMAIN bs
         /\ Terminate(bs, b, x)[b].term = x
         /\ \A c \in DOMAIN bs : c # b => Terminate(bs, b, x)[c] = bs[c]
<1> DEFINE cs == Terminate(bs, b, x)
<1>1. PICK X, Y : bs \in Seq([stmts : X, term : Y])
  BY DEF AnyBlocks
<1>2. Len(bs) \in Nat /\ DOMAIN bs = 1 .. Len(bs)
  BY BlockList
<1>3. \A c \in DOMAIN bs : bs[c] \in [stmts : X, term : Y]
  BY <1>1, ElementOfSeq, <1>2
<1>4. DOMAIN cs = DOMAIN bs /\ \A c \in DOMAIN bs : c # b => cs[c] = bs[c]
  BY DEF Terminate
<1>5. cs[b] = [bs[b] EXCEPT !.term = x]
  BY DEF Terminate
<1> DEFINE T == [stmts : X, term : Y \cup {x}]
<1>6. cs[b] \in T /\ cs[b].term = x
  BY <1>3, <1>5
<1>7. cs = [c \in 1 .. Len(bs) |-> cs[c]]
  BY <1>2 DEF Terminate
<1> HIDE DEF cs
<1>8. \A c \in 1 .. Len(bs) : cs[c] \in T
  BY <1>2, <1>3, <1>4, <1>6
<1> HIDE DEF T
<1>9. cs \in Seq(T)
  BY <1>2, <1>7, <1>8, SeqDef
<1>10. AnyBlocks(cs)
  BY <1>9 DEF AnyBlocks, T
<1> HIDE DEF T
<1> QED
  BY <1>4, <1>6, <1>10 DEF cs

LEMMA NewBlocksFacts ==
  ASSUME NEW bs, AnyBlocks(bs), NEW n \in Nat
  PROVE  /\ AnyBlocks(NewBlocks(bs, n)) /\ DOMAIN NewBlocks(bs, n) = 1 .. Len(bs) + n
         /\ \A c \in DOMAIN bs : NewBlocks(bs, n)[c] = bs[c]
         /\ \A c \in Len(bs) + 1 .. Len(bs) + n : NewBlocks(bs, n)[c].term = Unreachable
<1>1. PICK X, Y : bs \in Seq([stmts : X, term : Y])
  BY DEF AnyBlocks
<1> DEFINE T == [stmts : X \cup {<<>>}, term : Y \cup {Unreachable}]
           new == [k \in 1 .. n |-> Open]
<1>2. Len(bs) \in Nat /\ DOMAIN bs = 1 .. Len(bs)
  BY BlockList
<1>3. Open \in T /\ Open.term = Unreachable
  BY DEF Open
<1>4. \A c \in 1 .. Len(bs) : bs[c] \in T
  <2>1. \A c \in 1 .. Len(bs) : bs[c] \in [stmts : X, term : Y]
    BY <1>1, <1>2, ElementOfSeq
  <2> QED
    BY <2>1
<1>5. bs \in [1 .. Len(bs) -> T]
  BY <1>1, <1>4, LenProperties
<1> HIDE DEF T
<1>6. bs \in Seq(T)
  BY <1>2, <1>5, SeqDef
<1>7. new \in Seq(T) /\ Len(new) = n
  BY <1>3, SeqDef
<1>8. \A k \in 1 .. n : new[k].term = Unreachable
  BY <1>3
<1> HIDE DEF new
<1>9. /\ bs \o new \in Seq(T) /\ Len(bs \o new) = Len(bs) + n
      /\ \A i \in 1 .. Len(bs) + n :
           (bs \o new)[i] = IF i <= Len(bs) THEN bs[i] ELSE new[i - Len(bs)]
  BY <1>6, <1>7, ConcatProperties
<1>10. NewBlocks(bs, n) = bs \o new
  BY DEF NewBlocks, new
<1>11. AnyBlocks(bs \o new)
  BY <1>9 DEF AnyBlocks, T
<1>12. DOMAIN (bs \o new) = 1 .. Len(bs) + n
  BY <1>9, LenProperties
<1>13. \A c \in Len(bs) + 1 .. Len(bs) + n : (bs \o new)[c].term = Unreachable
  <2> TAKE c \in Len(bs) + 1 .. Len(bs) + n
  <2>1. c - Len(bs) \in 1 .. n /\ c \in 1 .. Len(bs) + n /\ ~ (c <= Len(bs))
    BY <1>2
  <2> QED
    BY <1>8, <1>9, <2>1
<1> QED
  BY <1>2, <1>9, <1>10, <1>11, <1>12, <1>13

LEMMA IfOpenFacts ==
  ASSUME NEW bs, AnyBlocks(bs), NEW b \in DOMAIN bs, NEW x, x # Unreachable
  PROVE  /\ AnyBlocks(TerminateIfOpen(bs, b, x)) /\ DOMAIN TerminateIfOpen(bs, b, x) = DOMAIN bs
         /\ TerminateIfOpen(bs, b, x)[b].term # Unreachable
         /\ IsOpen(bs, b) => TerminateIfOpen(bs, b, x)[b].term = x
         /\ \A c \in DOMAIN bs : c # b => TerminateIfOpen(bs, b, x)[c] = bs[c]
BY TerminateFacts DEF TerminateIfOpen, IsOpen

LEMMA Terminators ==
  /\ Targets(Unreachable) = {}
  /\ \A b : Goto(b) # Unreachable /\ Targets(Goto(b)) = {b}
  /\ \A c, y, n : CondBr(c, y, n) # Unreachable /\ Targets(CondBr(c, y, n)) = {y, n}
  /\ \A v : Return(v) # Unreachable /\ Targets(Return(v)) = {}
BY DEF Targets, Unreachable, Goto, CondBr, Return

-----------------------------------------------------------------------------
(***************************************************************************)
(* The agenda.                                                              *)
(***************************************************************************)
LEMMA ItemKinds ==
  ASSUME NEW x \in Item
  PROVE  /\ x.k = "arm" => x \in Arms
         /\ x.k = "end" => x \in LoopEnds
         /\ x.k = "endlist" => x \in ListEnds
         /\ x.k \in {"while", "block", "if", "list", "iter"} => x.body \in Seq(Stmt)
         /\ x.k = "if" => x.else \in Seq(Stmt)
         /\ x.k \in {"var", "assign", "list", "iter"} => x.name \in Name
         /\ x \in Stmt => x.k \notin {"pop", "arm", "end", "endlist"}
BY StmtAssumption DEF Item, Arms, LoopEnds, ListEnds

LEMMA StmtsAreItems ==
  ASSUME NEW s \in Seq(Stmt)
  PROVE  /\ s \in Seq(Item) /\ Len(s) \in Nat /\ DOMAIN s = 1 .. Len(s)
         /\ \A p \in DOMAIN s : s[p] \in Stmt
<1>1. Len(s) \in Nat /\ DOMAIN s = 1 .. Len(s) /\ s \in [1 .. Len(s) -> Stmt]
  BY LenProperties
<1>2. Stmt \subseteq Item
  BY DEF Item
<1> HIDE DEF Item
<1>3. s \in Seq(Item)
  BY <1>1, <1>2, SeqDef
<1> QED
  BY <1>1, <1>3

(* Where the items of P \o Tail(a) come from. *)
LEMMA Spliced ==
  ASSUME NEW T, NEW a \in Seq(T), a # <<>>, NEW P \in Seq(T)
  PROVE  /\ Head(a) = a[1] /\ 1 \in DOMAIN a /\ Head(a) \in T
         /\ P \o Tail(a) \in Seq(T)
         /\ DOMAIN (P \o Tail(a)) = 1 .. Len(P) + Len(a) - 1
         /\ \A p \in DOMAIN P : p \in DOMAIN (P \o Tail(a)) /\ (P \o Tail(a))[p] = P[p]
         /\ \A j \in DOMAIN a \ {1} : /\ Len(P) + j - 1 \in DOMAIN (P \o Tail(a))
                                      /\ (P \o Tail(a))[Len(P) + j - 1] = a[j]
         /\ \A k \in DOMAIN (P \o Tail(a)) :
              k \in DOMAIN P \/ \E j \in DOMAIN a \ {1} : k = Len(P) + j - 1
<1>1. /\ Len(a) \in Nat /\ DOMAIN a = 1 .. Len(a) /\ Len(a) # 0
      /\ Len(P) \in Nat /\ DOMAIN P = 1 .. Len(P)
  BY LenProperties, EmptySeq
<1>2. /\ Head(a) \in T /\ Head(a) = a[1] /\ Tail(a) \in Seq(T) /\ Len(Tail(a)) = Len(a) - 1
      /\ \A i \in 1 .. Len(Tail(a)) : Tail(a)[i] = a[i + 1]
  BY HeadTailProperties
<1> DEFINE t == Tail(a)
           s == P \o t
<1>3. Len(t) = Len(a) - 1 /\ t \in Seq(T) /\ \A i \in 1 .. Len(t) : t[i] = a[i + 1]
  BY <1>2
<1> HIDE DEF t
<1>4. /\ s \in Seq(T) /\ Len(s) = Len(P) + Len(t)
      /\ \A i \in 1 .. Len(P) + Len(t) : s[i] = IF i <= Len(P) THEN P[i] ELSE t[i - Len(P)]
  BY <1>3, ConcatProperties
<1>5. DOMAIN s = 1 .. Len(P) + Len(a) - 1
  BY <1>1, <1>3, <1>4, LenProperties
<1> HIDE DEF s
<1>6. \A p \in DOMAIN P : p \in DOMAIN s /\ s[p] = P[p]
  BY <1>1, <1>3, <1>4, <1>5
<1>7. ASSUME NEW j \in DOMAIN a \ {1}
      PROVE  Len(P) + j - 1 \in DOMAIN s /\ s[Len(P) + j - 1] = a[j]
  <2>1. j - 1 \in 1 .. Len(t) /\ (j - 1) + 1 = j
    BY <1>1, <1>3
  <2>2. /\ Len(P) + j - 1 \in 1 .. Len(P) + Len(t) /\ ~ (Len(P) + j - 1 <= Len(P))
        /\ (Len(P) + j - 1) - Len(P) = j - 1
    BY <1>1, <1>3
  <2> QED
    BY <1>1, <1>3, <1>4, <1>5, <2>1, <2>2
<1>8. ASSUME NEW k \in DOMAIN s, k \notin DOMAIN P
      PROVE  \E j \in DOMAIN a \ {1} : k = Len(P) + j - 1
  <2>1. (k - Len(P) + 1) \in DOMAIN a \ {1} /\ k = Len(P) + (k - Len(P) + 1) - 1
    BY <1>1, <1>5, <1>8
  <2> QED
    BY <2>1
<1> QED
  BY <1>1, <1>2, <1>4, <1>5, <1>6, <1>7, <1>8 DEF s, t

-----------------------------------------------------------------------------
(***************************************************************************)
(* A step of the lowering replaces the head of the agenda by P, and touches   *)
(* only new blocks, the current one and those the head waited for.           *)
(***************************************************************************)
New == DOMAIN blocks' \ DOMAIN blocks

Shape(P) ==
  /\ agenda # <<>> /\ P \in Seq(Item) /\ agenda' = P \o Rest
  /\ AnyBlocks(blocks') /\ DOMAIN blocks \subseteq DOMAIN blocks'
  /\ \A b \in DOMAIN blocks \ ({cur} \cup Waits(S)) : blocks'[b] = blocks[b]
  /\ \A b \in DOMAIN blocks' :
       \/ b \in DOMAIN blocks /\ blocks'[b].term = blocks[b].term
       \/ Targets(blocks'[b].term) \subseteq DOMAIN blocks'
  /\ cur' \in {cur} \cup Waits(S) \cup New /\ IsOpen(blocks', cur')
  /\ \A b \in {cur} \cup Waits(S) \cup New :
       IsOpen(blocks', b) => b = cur' \/ \E p \in DOMAIN P : b \in Waits(P[p])
  /\ \A p \in DOMAIN P :
       /\ Waits(P[p]) \subseteq New \ {cur'} /\ Jumps(P[p]) \subseteq DOMAIN blocks'
       /\ \A b \in Waits(P[p]) : IsOpen(blocks', b)
       /\ \A q \in DOMAIN P : p # q => Waits(P[p]) \cap Waits(P[q]) = {}

LEMMA ShapeKeeps ==
  ASSUME BlocksInv, NEW P, Shape(P)
  PROVE  /\ agenda' \in Seq(Item) /\ AnyBlocks(blocks') /\ cur' \in DOMAIN blocks'
         /\ \A b \in DOMAIN blocks' : Targets(blocks'[b].term) \subseteq DOMAIN blocks'
         /\ DOMAIN blocks \subseteq DOMAIN blocks'
         /\ AgendaIds' /\ Pending' /\ Unsealed'
         /\ \A b \in DOMAIN blocks : ~ IsOpen(blocks, b) => blocks'[b] = blocks[b]
<1>1. /\ agenda # <<>> /\ P \in Seq(Item) /\ agenda' = P \o Tail(agenda)
      /\ AnyBlocks(blocks') /\ DOMAIN blocks \subseteq DOMAIN blocks'
  BY DEF Shape, Rest
<1>2. /\ \A b \in DOMAIN blocks \ ({cur} \cup Waits(S)) : blocks'[b] = blocks[b]
      /\ \A b \in DOMAIN blocks' :
           \/ b \in DOMAIN blocks /\ blocks'[b].term = blocks[b].term
           \/ Targets(blocks'[b].term) \subseteq DOMAIN blocks'
      /\ cur' \in {cur} \cup Waits(S) \cup New /\ IsOpen(blocks', cur')
  BY DEF Shape
<1>3. \A b \in {cur} \cup Waits(S) \cup New :
        IsOpen(blocks', b) => b = cur' \/ \E p \in DOMAIN P : b \in Waits(P[p])
  BY DEF Shape
<1>4. \A p \in DOMAIN P :
        /\ Waits(P[p]) \subseteq New \ {cur'} /\ Jumps(P[p]) \subseteq DOMAIN blocks'
        /\ \A b \in Waits(P[p]) : IsOpen(blocks', b)
        /\ \A q \in DOMAIN P : p # q => Waits(P[p]) \cap Waits(P[q]) = {}
  BY DEF Shape
<1>5. /\ agenda \in Seq(Item) /\ cur \in DOMAIN blocks
      /\ \A b \in DOMAIN blocks : Targets(blocks[b].term) \subseteq DOMAIN blocks
      /\ \A k \in DOMAIN agenda :
           Waits(agenda[k]) \subseteq DOMAIN blocks /\ Jumps(agenda[k]) \subseteq DOMAIN blocks
  BY DEF BlocksInv, Typed, TypeOK, AgendaIds
<1>6. /\ IsOpen(blocks, cur)
      /\ \A k \in DOMAIN agenda : \A b \in Waits(agenda[k]) : IsOpen(blocks, b) /\ b # cur
      /\ \A j, k \in DOMAIN agenda : j # k => Waits(agenda[j]) \cap Waits(agenda[k]) = {}
      /\ \A b \in DOMAIN blocks :
           IsOpen(blocks, b) => b = cur \/ \E k \in DOMAIN agenda : b \in Waits(agenda[k])
  BY <1>1 DEF BlocksInv, Pending, Unsealed
<1>7. S = agenda[1] /\ 1 \in DOMAIN agenda /\ agenda' \in Seq(Item)
  <2> HIDE DEF Item
  <2> QED
    BY <1>1, <1>5, Spliced DEF S
<1>8. /\ \A p \in DOMAIN P : p \in DOMAIN agenda' /\ agenda'[p] = P[p]
      /\ \A j \in DOMAIN agenda \ {1} : /\ Len(P) + j - 1 \in DOMAIN agenda'
                                        /\ agenda'[Len(P) + j - 1] = agenda[j]
      /\ \A k \in DOMAIN agenda' :
           k \in DOMAIN P \/ \E j \in DOMAIN agenda \ {1} : k = Len(P) + j - 1
  <2> HIDE DEF Item
  <2> QED
    BY <1>1, <1>5, Spliced, SMTT(30)
(* What waits behind the head has not been touched. *)
<1>9. \A j \in DOMAIN agenda \ {1} : \A b \in Waits(agenda[j]) :
        /\ b \in DOMAIN blocks /\ b \notin {cur} \cup Waits(S)
        /\ blocks'[b] = blocks[b] /\ IsOpen(blocks', b) /\ b # cur' /\ b \notin New
  <2> TAKE j \in DOMAIN agenda \ {1}
  <2> TAKE b \in Waits(agenda[j])
  <2>1. b \in DOMAIN blocks /\ IsOpen(blocks, b) /\ b # cur
    BY <1>5, <1>6
  <2>2. b \notin Waits(S)
    BY <1>6, <1>7
  <2>3. b \notin New
    BY <2>1 DEF New
  <2>4. blocks'[b] = blocks[b]
    BY <1>2, <2>1, <2>2
  <2> QED
    BY <1>2, <2>1, <2>2, <2>3, <2>4 DEF IsOpen
<1>10. AgendaIds'
  <2>1. ASSUME NEW k \in DOMAIN agenda'
        PROVE  Waits(agenda'[k]) \cup Jumps(agenda'[k]) \subseteq DOMAIN blocks'
    <3>1. CASE k \in DOMAIN P
      BY <1>4, <1>8, <3>1 DEF New
    <3>2. CASE \E j \in DOMAIN agenda \ {1} : k = Len(P) + j - 1
      BY <1>1, <1>5, <1>8, <3>2
    <3> QED
      BY <1>8, <3>1, <3>2
  <2> QED
    BY <2>1 DEF AgendaIds, Waits, Jumps
<1>11. Pending'
  <2>1. ASSUME NEW k \in DOMAIN agenda', NEW b \in Waits(agenda'[k])
        PROVE  IsOpen(blocks', b) /\ b # cur'
    <3>1. CASE k \in DOMAIN P
      BY <1>4, <1>8, <2>1, <3>1
    <3>2. CASE \E j \in DOMAIN agenda \ {1} : k = Len(P) + j - 1
      BY <1>8, <1>9, <2>1, <3>2
    <3> QED
      BY <1>8, <3>1, <3>2
  <2>2. ASSUME NEW k \in DOMAIN agenda', NEW l \in DOMAIN agenda', k # l
        PROVE  Waits(agenda'[k]) \cap Waits(agenda'[l]) = {}
    <3>1. CASE k \in DOMAIN P /\ l \in DOMAIN P
      BY <1>4, <1>8, <2>2, <3>1
    <3>2. CASE k \in DOMAIN P /\ l \notin DOMAIN P
      BY <1>4, <1>8, <1>9, <3>2
    <3>3. CASE k \notin DOMAIN P /\ l \in DOMAIN P
      BY <1>4, <1>8, <1>9, <3>3
    <3>4. CASE k \notin DOMAIN P /\ l \notin DOMAIN P
      <4>1. PICK i \in DOMAIN agenda \ {1} : k = Len(P) + i - 1
        BY <1>8, <3>4
      <4>2. PICK j \in DOMAIN agenda \ {1} : l = Len(P) + j - 1
        BY <1>8, <3>4
      <4> QED
        BY <1>6, <1>8, <2>2, <4>1, <4>2
    <3> QED
      BY <3>1, <3>2, <3>3, <3>4
  <2> QED
    BY <1>2, <2>1, <2>2 DEF Pending, IsOpen, Waits
<1>12. Unsealed'
  <2>1. ASSUME NEW b \in DOMAIN blocks', IsOpen(blocks', b), b # cur'
        PROVE  \E k \in DOMAIN agenda' : b \in Waits(agenda'[k])
    <3>1. CASE b \in {cur} \cup Waits(S) \cup New
      BY <1>3, <1>8, <2>1, <3>1
    <3>2. CASE b \notin {cur} \cup Waits(S) \cup New
      <4>1. b \in DOMAIN blocks /\ IsOpen(blocks, b)
        BY <1>2, <2>1, <3>2 DEF New, IsOpen
      <4>2. PICK j \in DOMAIN agenda : b \in Waits(agenda[j])
        BY <1>6, <3>2, <4>1
      <4>3. j # 1
        BY <1>7, <3>2, <4>2
      <4> QED
        BY <1>8, <4>2, <4>3
    <3> QED
      BY <3>1, <3>2
  <2> QED
    BY <2>1 DEF Unsealed, IsOpen, Waits
<1>13. \A b \in DOMAIN blocks : ~ IsOpen(blocks, b) => blocks'[b] = blocks[b]
  BY <1>2, <1>6, <1>7
<1>14. \A b \in DOMAIN blocks' : Targets(blocks'[b].term) \subseteq DOMAIN blocks'
  BY <1>1, <1>2, <1>5
<1>15. cur' \in DOMAIN blocks'
  BY <1>1, <1>2, <1>5, <1>7 DEF New
<1> QED
  BY <1>1, <1>7, <1>10, <1>11, <1>12, <1>13, <1>14, <1>15

-----------------------------------------------------------------------------
(***************************************************************************)
(* Each statement, and each code after a recursive call, has that shape.       *)
(***************************************************************************)
LEMMA NoItems ==
  ASSUME BlocksInv, agenda # <<>>, agenda' = Rest
  PROVE  <<>> \in Seq(Item) /\ DOMAIN <<>> = {} /\ agenda' = <<>> \o Rest
<1>1. agenda \in Seq(Item)
  BY DEF BlocksInv, Typed
<1> HIDE DEF Item
<1>2. Rest \in Seq(Item)
  BY <1>1, HeadTailProperties DEF Rest
<1>3. <<>> \in Seq(Item) /\ Len(<<>>) = 0
  BY EmptySeq
<1> QED
  BY <1>2, <1>3, ConcatEmptySeq, LenProperties

LEMMA HeadFacts ==
  ASSUME BlocksInv, agenda # <<>>
  PROVE  /\ S \in Item /\ AnyBlocks(blocks) /\ cur \in DOMAIN blocks /\ IsOpen(blocks, cur)
         /\ Len(blocks) \in Nat /\ DOMAIN blocks = 1 .. Len(blocks)
         /\ \A b \in DOMAIN blocks : Targets(blocks[b].term) \subseteq DOMAIN blocks
         /\ Waits(S) \cup Jumps(S) \subseteq DOMAIN blocks
         /\ \A b \in Waits(S) : IsOpen(blocks, b) /\ b # cur
<1>1. agenda \in Seq(Item) /\ AnyBlocks(blocks)
  BY DEF BlocksInv, Typed
<1>2. S = agenda[1] /\ 1 \in DOMAIN agenda /\ S \in Item
  <2> HIDE DEF Item
  <2>1. <<>> \in Seq(Item)
    BY EmptySeq
  <2> QED
    BY <1>1, <2>1, Spliced DEF S
<1>3. Len(blocks) \in Nat /\ DOMAIN blocks = 1 .. Len(blocks)
  BY <1>1, BlockList
<1> QED
  BY <1>1, <1>2, <1>3 DEF BlocksInv, TypeOK, AgendaIds, Pending

LEMMA PushShape ==
  ASSUME BlocksInv, agenda # <<>>, Waits(S) = {}, NEW s, Pushes(s)
  PROVE  Shape(<<>>)
<1>1. blocks' = Emit(blocks, cur, s) /\ cur' = cur /\ agenda' = Rest
  BY DEF Pushes
<1>2. cur \in DOMAIN blocks /\ IsOpen(blocks, cur) /\ AnyBlocks(blocks)
  BY HeadFacts
<1>3. /\ AnyBlocks(blocks') /\ DOMAIN blocks' = DOMAIN blocks
      /\ \A c \in DOMAIN blocks : blocks'[c].term = blocks[c].term
      /\ \A c \in DOMAIN blocks : c # cur => blocks'[c] = blocks[c]
  BY <1>1, <1>2, EmitFacts
<1> QED
  BY <1>1, <1>2, <1>3, NoItems DEF Shape, New, IsOpen

(* A step that touches no block and adds items that wait for none. *)
LEMMA ScopeShape ==
  ASSUME BlocksInv, agenda # <<>>, Waits(S) = {}, UNCHANGED <<blocks, cur>>,
         NEW P \in Seq(Item), agenda' = P \o Rest,
         \A p \in DOMAIN P : Waits(P[p]) = {} /\ Jumps(P[p]) = {}
  PROVE  Shape(P)
BY HeadFacts DEF Shape, New, IsOpen

LEMMA LeaveShape ==
  ASSUME BlocksInv, agenda # <<>>, Waits(S) = {},
         NEW x, x # Unreachable, Targets(x) \subseteq DOMAIN blocks, LeaveBy(x)
  PROVE  Shape(<<>>)
<1> DEFINE bs == Terminate(blocks, cur, x)
           n  == Len(blocks)
<1>1. blocks' = NewBlocks(bs, 1) /\ cur' = n + 1 /\ agenda' = Rest
  BY DEF LeaveBy
<1>2. /\ cur \in DOMAIN blocks /\ AnyBlocks(blocks)
      /\ n \in Nat /\ DOMAIN blocks = 1 .. n
      /\ \A b \in DOMAIN blocks : Targets(blocks[b].term) \subseteq DOMAIN blocks
  BY HeadFacts
<1>3. /\ AnyBlocks(bs) /\ DOMAIN bs = DOMAIN blocks /\ bs[cur].term = x
      /\ \A c \in DOMAIN blocks : c # cur => bs[c] = blocks[c]
  <2> HIDE DEF n
  <2>1. AnyBlocks(blocks) /\ cur \in DOMAIN blocks
    BY <1>2
  <2> QED
    BY <2>1, TerminateFacts
<1> HIDE DEF bs
<1>4. Len(bs) = n
  <2>1. Len(bs) \in Nat /\ 1 .. Len(bs) = 1 .. n
    BY <1>2, <1>3, BlockList
  <2> QED
    BY <1>2, <2>1
<1> HIDE DEF n
<1>5. /\ AnyBlocks(blocks') /\ DOMAIN blocks' = 1 .. n + 1
      /\ \A c \in DOMAIN blocks : blocks'[c] = bs[c]
      /\ \A c \in n + 1 .. n + 1 : blocks'[c].term = Unreachable
  <2>1. AnyBlocks(bs) /\ 1 \in Nat
    BY <1>3
  <2>2. /\ AnyBlocks(NewBlocks(bs, 1)) /\ DOMAIN NewBlocks(bs, 1) = 1 .. Len(bs) + 1
        /\ \A c \in DOMAIN bs : NewBlocks(bs, 1)[c] = bs[c]
        /\ \A c \in Len(bs) + 1 .. Len(bs) + 1 : NewBlocks(bs, 1)[c].term = Unreachable
    BY ONLY <2>1, NewBlocksFacts
  <2>3. DOMAIN bs = DOMAIN blocks
    BY <1>3
  <2> QED
    BY ONLY <1>1, <1>4, <2>2, <2>3
<1>6. New = {n + 1} /\ blocks'[n + 1].term = Unreachable /\ n + 1 \notin DOMAIN blocks
  BY <1>2, <1>5 DEF New
<1>7. blocks'[cur].term = x /\ \A c \in DOMAIN blocks : c # cur => blocks'[c] = blocks[c]
  BY <1>2, <1>3, <1>5
<1>8. DOMAIN blocks' = DOMAIN blocks \cup {n + 1}
  BY <1>2, <1>5
<1>9. \A b \in DOMAIN blocks' :
        \/ b \in DOMAIN blocks /\ blocks'[b].term = blocks[b].term
        \/ Targets(blocks'[b].term) \subseteq DOMAIN blocks'
  BY <1>6, <1>7, <1>8, Terminators
<1>10. \A b \in {cur} \cup Waits(S) \cup New : IsOpen(blocks', b) => b = cur'
  BY <1>1, <1>6, <1>7 DEF IsOpen
<1> QED
  BY <1>1, <1>2, <1>5, <1>6, <1>7, <1>8, <1>9, <1>10, NoItems DEF Shape, IsOpen

(* EndArm and EndLoop: the current block jumps to j, unless it has left. *)
LEMMA CloseShape ==
  ASSUME BlocksInv, agenda # <<>>, NEW n, NEW j, Waits(S) = {n}, Jumps(S) = {j},
         blocks' = TerminateIfOpen(blocks, cur, Goto(j)), cur' = n, agenda' = Rest
  PROVE  Shape(<<>>)
<1>1. /\ cur \in DOMAIN blocks /\ IsOpen(blocks, cur) /\ AnyBlocks(blocks)
      /\ n \in DOMAIN blocks /\ j \in DOMAIN blocks /\ n # cur /\ IsOpen(blocks, n)
  BY HeadFacts
<1>2. Goto(j) # Unreachable /\ Targets(Goto(j)) = {j}
  BY Terminators
<1>3. /\ AnyBlocks(blocks') /\ DOMAIN blocks' = DOMAIN blocks /\ blocks'[cur].term = Goto(j)
      /\ \A c \in DOMAIN blocks : c # cur => blocks'[c] = blocks[c]
  BY <1>1, <1>2, IfOpenFacts
<1> QED
  BY <1>1, <1>2, <1>3, NoItems DEF Shape, New, IsOpen

LEMMA EndListShape ==
  ASSUME BlocksInv, EndList
  PROVE  Shape(<<>>)
<1>1. agenda # <<>> /\ S.k = "endlist" /\ agenda' = Rest /\ cur' = S.brk
  BY DEF EndList, Next1, S
<1>2. /\ S \in Item /\ cur \in DOMAIN blocks /\ IsOpen(blocks, cur) /\ AnyBlocks(blocks)
      /\ Waits(S) \cup Jumps(S) \subseteq DOMAIN blocks
      /\ \A b \in Waits(S) : IsOpen(blocks, b) /\ b # cur
  BY <1>1, HeadFacts
<1>3. Waits(S) = {S.cont, S.brk} /\ Jumps(S) = {S.cont, S.head} /\ S.cont # S.brk
  BY <1>1, <1>2, ItemKinds DEF Waits, Jumps, ListEnds
<1> DEFINE b0 == TerminateIfOpen(blocks, cur, Goto(S.cont))
           b1 == Emit(b0, S.cont, <<[op |-> "inc", dst |-> S.i]>>)
<1>4. blocks' = Terminate(b1, S.cont, Goto(S.head))
  BY DEF EndList
<1>5. /\ Goto(S.cont) # Unreachable /\ Targets(Goto(S.cont)) = {S.cont}
      /\ Goto(S.head) # Unreachable /\ Targets(Goto(S.head)) = {S.head}
  BY Terminators
<1>6. /\ AnyBlocks(b0) /\ DOMAIN b0 = DOMAIN blocks /\ b0[cur].term = Goto(S.cont)
      /\ \A c \in DOMAIN blocks : c # cur => b0[c] = blocks[c]
  BY <1>2, <1>5, IfOpenFacts
<1> HIDE DEF b0
<1>7. /\ AnyBlocks(b1) /\ DOMAIN b1 = DOMAIN blocks /\ b1[cur].term = Goto(S.cont)
      /\ \A c \in DOMAIN blocks : c # cur /\ c # S.cont => b1[c] = blocks[c]
  BY <1>2, <1>3, <1>6, EmitFacts
<1> HIDE DEF b1
<1>8. /\ AnyBlocks(blocks') /\ DOMAIN blocks' = DOMAIN blocks
      /\ blocks'[S.cont].term = Goto(S.head)
      /\ \A c \in DOMAIN blocks : c # S.cont => blocks'[c] = b1[c]
  BY <1>2, <1>3, <1>4, <1>7, TerminateFacts
<1>9. /\ blocks'[cur].term = Goto(S.cont)
      /\ \A c \in DOMAIN blocks : c # cur /\ c # S.cont => blocks'[c] = blocks[c]
  BY <1>2, <1>3, <1>7, <1>8
<1>10. New = {}
  BY <1>8 DEF New
<1> HIDE DEF S
<1> QED
  BY <1>1, <1>2, <1>3, <1>5, <1>8, <1>9, <1>10, NoItems DEF Shape, IsOpen

-----------------------------------------------------------------------------
(* The statements that create blocks: bs is `blocks` with m more, of which   *)
(* only those and the current one have been written to.                      *)
Added(m) == Len(blocks) + 1 .. Len(blocks) + m

Grown(bs, m) ==
  /\ AnyBlocks(bs) /\ DOMAIN bs = DOMAIN blocks \cup Added(m)
  /\ \A c \in DOMAIN blocks : c # cur => bs[c] = blocks[c]

LEMMA GrownNew ==
  ASSUME BlocksInv, agenda # <<>>, NEW m \in Nat
  PROVE  /\ Grown(NewBlocks(blocks, m), m) /\ cur \notin Added(m)
         /\ \A c \in Added(m) : NewBlocks(blocks, m)[c].term = Unreachable
<1>1. /\ AnyBlocks(blocks) /\ Len(blocks) \in Nat /\ DOMAIN blocks = 1 .. Len(blocks)
      /\ cur \in DOMAIN blocks
  BY HeadFacts
<1>2. AnyBlocks(blocks)
  BY <1>1
<1>3. /\ AnyBlocks(NewBlocks(blocks, m)) /\ DOMAIN NewBlocks(blocks, m) = 1 .. Len(blocks) + m
      /\ \A c \in DOMAIN blocks : NewBlocks(blocks, m)[c] = blocks[c]
      /\ \A c \in Len(blocks) + 1 .. Len(blocks) + m : NewBlocks(blocks, m)[c].term = Unreachable
  BY <1>2, NewBlocksFacts
<1>4. 1 .. Len(blocks) + m = DOMAIN blocks \cup Added(m) /\ cur \notin Added(m)
  BY <1>1 DEF Added
<1> QED
  BY <1>3, <1>4 DEF Grown, Added

LEMMA GrownEmit ==
  ASSUME NEW m, NEW bs, Grown(bs, m), NEW b \in {cur} \cup Added(m), cur \in DOMAIN blocks,
         b = cur \/ b \notin DOMAIN blocks, NEW s
  PROVE  /\ Grown(Emit(bs, b, s), m)
         /\ \A c \in DOMAIN bs : Emit(bs, b, s)[c].term = bs[c].term
<1>1. AnyBlocks(bs) /\ b \in DOMAIN bs
  BY DEF Grown
<1>2. /\ AnyBlocks(Emit(bs, b, s)) /\ DOMAIN Emit(bs, b, s) = DOMAIN bs
      /\ \A c \in DOMAIN bs : Emit(bs, b, s)[c].term = bs[c].term
      /\ \A c \in DOMAIN bs : c # b => Emit(bs, b, s)[c] = bs[c]
  BY <1>1, EmitFacts
<1> QED
  BY <1>2 DEF Grown

LEMMA GrownTerminate ==
  ASSUME NEW m, NEW bs, Grown(bs, m), NEW b \in {cur} \cup Added(m), cur \in DOMAIN blocks,
         b = cur \/ b \notin DOMAIN blocks, NEW x
  PROVE  /\ Grown(Terminate(bs, b, x), m) /\ Terminate(bs, b, x)[b].term = x
         /\ \A c \in DOMAIN bs : c # b => Terminate(bs, b, x)[c].term = bs[c].term
<1>1. AnyBlocks(bs) /\ b \in DOMAIN bs
  BY DEF Grown
<1>2. /\ AnyBlocks(Terminate(bs, b, x)) /\ DOMAIN Terminate(bs, b, x) = DOMAIN bs
      /\ Terminate(bs, b, x)[b].term = x
      /\ \A c \in DOMAIN bs : c # b => Terminate(bs, b, x)[c] = bs[c]
  BY <1>1, TerminateFacts
<1> QED
  BY <1>2 DEF Grown

LEMMA GrownShape ==
  ASSUME BlocksInv, agenda # <<>>, Waits(S) = {}, NEW m \in Nat, Grown(blocks', m),
         blocks'[cur].term # Unreachable,
         \A c \in {cur} \cup Added(m) : Targets(blocks'[c].term) \subseteq DOMAIN blocks',
         NEW P \in Seq(Item), agenda' = P \o Rest,
         cur' \in Added(m), blocks'[cur'].term = Unreachable,
         \A c \in Added(m) :
           blocks'[c].term = Unreachable => c = cur' \/ \E p \in DOMAIN P : c \in Waits(P[p]),
         \A p \in DOMAIN P :
           /\ Waits(P[p]) \subseteq Added(m) \ {cur'} /\ Jumps(P[p]) \subseteq DOMAIN blocks'
           /\ \A b \in Waits(P[p]) : blocks'[b].term = Unreachable
           /\ \A q \in DOMAIN P : p # q => Waits(P[p]) \cap Waits(P[q]) = {}
  PROVE  Shape(P)
<1>1. /\ cur \in DOMAIN blocks /\ Len(blocks) \in Nat /\ DOMAIN blocks = 1 .. Len(blocks)
      /\ \A b \in DOMAIN blocks : Targets(blocks[b].term) \subseteq DOMAIN blocks
  BY HeadFacts
<1>2. New = Added(m)
  BY <1>1 DEF New, Grown, Added
<1>3. /\ AnyBlocks(blocks') /\ DOMAIN blocks \subseteq DOMAIN blocks'
      /\ \A b \in DOMAIN blocks \ ({cur} \cup Waits(S)) : blocks'[b] = blocks[b]
  BY DEF Grown
<1>4. \A b \in DOMAIN blocks' :
        \/ b \in DOMAIN blocks /\ blocks'[b].term = blocks[b].term
        \/ Targets(blocks'[b].term) \subseteq DOMAIN blocks'
  BY DEF Grown
<1>5. \A b \in {cur} \cup Waits(S) \cup New :
        IsOpen(blocks', b) => b = cur' \/ \E p \in DOMAIN P : b \in Waits(P[p])
  BY <1>2 DEF IsOpen
<1>6. cur' \in {cur} \cup Waits(S) \cup New /\ IsOpen(blocks', cur')
  BY <1>2 DEF IsOpen
<1>7. \A p \in DOMAIN P :
        /\ Waits(P[p]) \subseteq New \ {cur'} /\ Jumps(P[p]) \subseteq DOMAIN blocks'
        /\ \A b \in Waits(P[p]) : IsOpen(blocks', b)
        /\ \A q \in DOMAIN P : p # q => Waits(P[p]) \cap Waits(P[q]) = {}
  BY <1>2 DEF IsOpen
<1> QED
  BY <1>3, <1>4, <1>5, <1>6, <1>7 DEF Shape

(* A nested body waits for nothing. *)
LEMMA Nested ==
  ASSUME NEW body \in Seq(Stmt)
  PROVE  Block(body) \in Item /\ Waits(Block(body)) = {} /\ Jumps(Block(body)) = {}
BY DEF Block, Item, Waits, Jumps

LEMMA IfShape ==
  ASSUME BlocksInv, LowerIf
  PROVE  \E P : Shape(P)
<1> DEFINE n == Len(blocks)
           P == << Block(S.body), [k |-> "arm", next |-> n + 2, join |-> n + 3],
                   Block(S.else), [k |-> "arm", next |-> n + 3, join |-> n + 3] >>
           bs == NewBlocks(blocks, 3)
           x == CondBr(<<"free">>, n + 1, n + 2)
<1>1. /\ agenda # <<>> /\ S.k = "if" /\ agenda' = P \o Rest /\ cur' = n + 1
      /\ blocks' = Terminate(bs, cur, x)
  BY DEF LowerIf, Next1, S
<1>2. S \in Item /\ cur \in DOMAIN blocks /\ n \in Nat /\ DOMAIN blocks = 1 .. n
  BY <1>1, HeadFacts
<1>3. Waits(S) = {} /\ S.body \in Seq(Stmt) /\ S.else \in Seq(Stmt)
  BY <1>1, <1>2, ItemKinds DEF Waits
<1>4. Grown(bs, 3) /\ \A c \in Added(3) : bs[c].term = Unreachable
  BY <1>1, GrownNew
<1>5. /\ Grown(blocks', 3) /\ blocks'[cur].term = x
      /\ \A c \in DOMAIN bs : c # cur => blocks'[c].term = bs[c].term
  <2> HIDE DEF bs
  <2> QED
    BY <1>1, <1>2, <1>4, GrownTerminate
<1>6. x # Unreachable /\ Targets(x) = {n + 1, n + 2} /\ Targets(Unreachable) = {}
  BY Terminators
<1>7. Added(3) = {n + 1, n + 2, n + 3} /\ cur \notin Added(3)
  BY <1>2 DEF Added
<1>8. Added(3) \subseteq DOMAIN bs /\ Added(3) \subseteq DOMAIN blocks'
  BY <1>4, <1>5 DEF Grown
<1>9. \A c \in Added(3) : blocks'[c].term = Unreachable
  BY <1>4, <1>5, <1>7, <1>8
<1>10. /\ [k |-> "arm", next |-> n + 2, join |-> n + 3] \in Item
       /\ [k |-> "arm", next |-> n + 3, join |-> n + 3] \in Item
  BY <1>2 DEF Item, Arms
<1>11. P \in Seq(Item) /\ DOMAIN P = {1, 2, 3, 4}
  <2>1. Block(S.body) \in Item /\ Block(S.else) \in Item
    BY <1>3, Nested
  <2> HIDE DEF Item
  <2> QED
    BY <1>10, <2>1
<1>12. /\ Waits(P[1]) = {} /\ Waits(P[2]) = {n + 2} /\ Waits(P[3]) = {} /\ Waits(P[4]) = {n + 3}
       /\ Jumps(P[1]) = {} /\ Jumps(P[2]) = {n + 3} /\ Jumps(P[3]) = {} /\ Jumps(P[4]) = {n + 3}
  BY <1>3, Nested DEF Waits, Jumps
<1> HIDE DEF P, x, bs
<1>13. \A p \in DOMAIN P :
         /\ Waits(P[p]) \subseteq Added(3) \ {cur'} /\ Jumps(P[p]) \subseteq DOMAIN blocks'
         /\ \A b \in Waits(P[p]) : blocks'[b].term = Unreachable
         /\ \A q \in DOMAIN P : p # q => Waits(P[p]) \cap Waits(P[q]) = {}
  BY <1>1, <1>2, <1>7, <1>8, <1>9, <1>11, <1>12
<1>14. \A c \in Added(3) : c = cur' \/ \E p \in DOMAIN P : c \in Waits(P[p])
  BY <1>1, <1>7, <1>11, <1>12
<1>15. \A c \in {cur} \cup Added(3) : Targets(blocks'[c].term) \subseteq DOMAIN blocks'
  BY <1>5, <1>6, <1>7, <1>8, <1>9
<1>16. cur' \in Added(3)
  BY <1>1, <1>7
<1>17. blocks'[cur].term # Unreachable /\ blocks'[cur'].term = Unreachable /\ 3 \in Nat
  BY <1>5, <1>6, <1>9, <1>16
<1>18. \A c \in Added(3) :
         blocks'[c].term = Unreachable => c = cur' \/ \E p \in DOMAIN P : c \in Waits(P[p])
  BY <1>14
<1> HIDE DEF n
<1>19. agenda # <<>> /\ agenda' = P \o Rest /\ Waits(S) = {} /\ Grown(blocks', 3) /\ P \in Seq(Item)
  BY <1>1, <1>3, <1>5, <1>11
<1>20. Shape(P)
  BY <1>13, <1>15, <1>16, <1>17, <1>18, <1>19, GrownShape
<1> QED
  BY <1>20

(* The three kinds of loop: the body, then e, which closes the loop. *)
LEMMA LoopShape ==
  ASSUME BlocksInv, agenda # <<>>, Waits(S) = {}, S.body \in Seq(Stmt),
         NEW m \in Nat, Grown(blocks', m), blocks'[cur].term # Unreachable,
         \A c \in {cur} \cup Added(m) : Targets(blocks'[c].term) \subseteq DOMAIN blocks',
         NEW e \in Item, agenda' = <<Block(S.body), e>> \o Rest,
         cur' \in Added(m), blocks'[cur'].term = Unreachable,
         \A c \in Added(m) : blocks'[c].term = Unreachable => c = cur' \/ c \in Waits(e),
         Waits(e) \subseteq Added(m) \ {cur'}, Jumps(e) \subseteq DOMAIN blocks',
         \A b \in Waits(e) : blocks'[b].term = Unreachable
  PROVE  \E P : Shape(P)
<1> DEFINE P == <<Block(S.body), e>>
<1>1. Block(S.body) \in Item /\ Waits(Block(S.body)) = {} /\ Jumps(Block(S.body)) = {}
  BY Nested
<1>2. P \in Seq(Item) /\ DOMAIN P = {1, 2} /\ P[1] = Block(S.body) /\ P[2] = e
  <2> HIDE DEF Item
  <2> QED
    BY <1>1
<1> HIDE DEF P
<1>3. \A p \in DOMAIN P :
        /\ Waits(P[p]) \subseteq Added(m) \ {cur'} /\ Jumps(P[p]) \subseteq DOMAIN blocks'
        /\ \A b \in Waits(P[p]) : blocks'[b].term = Unreachable
        /\ \A q \in DOMAIN P : p # q => Waits(P[p]) \cap Waits(P[q]) = {}
  BY <1>1, <1>2
<1>4. \A c \in Added(m) :
        blocks'[c].term = Unreachable => c = cur' \/ \E p \in DOMAIN P : c \in Waits(P[p])
  BY <1>2
<1>5. agenda' = P \o Rest
  BY DEF P
<1> HIDE DEF Item
<1>6. Shape(P)
  BY <1>2, <1>3, <1>4, <1>5, GrownShape
<1> QED
  BY <1>6

LEMMA LoopStmt ==
  ASSUME BlocksInv, agenda # <<>>, S.k \in {"while", "iter", "list"}
  PROVE  /\ Waits(S) = {} /\ S.body \in Seq(Stmt)
         /\ cur \in DOMAIN blocks /\ Len(blocks) \in Nat /\ DOMAIN blocks = 1 .. Len(blocks)
<1>1. S \in Item
  BY HeadFacts
<1> QED
  BY <1>1, HeadFacts, ItemKinds DEF Waits

LEMMA WhileShape ==
  ASSUME BlocksInv, LowerWhile
  PROVE  \E P : Shape(P)
<1> DEFINE n  == Len(blocks)
           e  == [k |-> "end", cont |-> n + 1, brk |-> n + 3]
           b0 == NewBlocks(blocks, 3)
           b1 == Terminate(b0, cur, Goto(n + 1))
           y  == CondBr(<<"free">>, n + 2, n + 3)
<1>1. /\ agenda # <<>> /\ S.k = "while" /\ agenda' = <<Block(S.body), e>> \o Rest
      /\ cur' = n + 2 /\ blocks' = Terminate(b1, n + 1, y)
  BY DEF LowerWhile, EntersLoop, Next1, S
<1>2. /\ Waits(S) = {} /\ S.body \in Seq(Stmt)
      /\ cur \in DOMAIN blocks /\ n \in Nat /\ DOMAIN blocks = 1 .. n
  BY <1>1, LoopStmt
<1>3. /\ Goto(n + 1) # Unreachable /\ Targets(Goto(n + 1)) = {n + 1}
      /\ y # Unreachable /\ Targets(y) = {n + 2, n + 3} /\ Targets(Unreachable) = {}
  BY Terminators
<1>4. /\ Added(3) = {n + 1, n + 2, n + 3} /\ n + 1 # n + 2 /\ n + 1 # n + 3 /\ n + 2 # n + 3
      /\ cur \notin Added(3) /\ \A c \in Added(3) : c \notin DOMAIN blocks
  BY <1>2 DEF Added
<1>5. e \in Item /\ Waits(e) = {n + 3} /\ Jumps(e) = {n + 1}
  BY <1>2 DEF Item, LoopEnds, Waits, Jumps
<1> HIDE DEF e, y
<1>6. Grown(b0, 3) /\ \A c \in Added(3) : b0[c].term = Unreachable
  BY <1>1, GrownNew
<1> HIDE DEF b0
<1>7. /\ Grown(b1, 3) /\ b1[cur].term = Goto(n + 1)
      /\ \A c \in DOMAIN b0 : c # cur => b1[c].term = b0[c].term
  BY <1>2, <1>6, GrownTerminate
<1> HIDE DEF b1
<1>8. n + 1 \in {cur} \cup Added(3) /\ n + 1 \notin DOMAIN blocks
  BY <1>4
<1> HIDE DEF n
<1>9. /\ Grown(blocks', 3) /\ blocks'[n + 1].term = y
      /\ \A c \in DOMAIN b1 : c # n + 1 => blocks'[c].term = b1[c].term
  BY <1>1, <1>2, <1>7, <1>8, GrownTerminate, SMTT(30)
<1>10. /\ DOMAIN b0 = DOMAIN blocks \cup Added(3) /\ DOMAIN b1 = DOMAIN blocks \cup Added(3)
       /\ DOMAIN blocks' = DOMAIN blocks \cup Added(3)
  BY <1>6, <1>7, <1>9 DEF Grown
<1>11. /\ blocks'[cur].term = Goto(n + 1) /\ blocks'[n + 1].term = y
       /\ blocks'[n + 2].term = Unreachable /\ blocks'[n + 3].term = Unreachable
  BY <1>2, <1>4, <1>6, <1>7, <1>9, <1>10
<1>12. \A c \in {cur} \cup Added(3) : Targets(blocks'[c].term) \subseteq DOMAIN blocks'
  BY <1>3, <1>4, <1>10, <1>11
<1>13. \A c \in Added(3) : blocks'[c].term = Unreachable => c = cur' \/ c \in Waits(e)
  BY <1>1, <1>3, <1>4, <1>5, <1>11
<1>14. /\ cur' \in Added(3) /\ blocks'[cur'].term = Unreachable
       /\ Waits(e) \subseteq Added(3) \ {cur'} /\ Jumps(e) \subseteq DOMAIN blocks'
       /\ \A b \in Waits(e) : blocks'[b].term = Unreachable
  BY <1>1, <1>4, <1>5, <1>10, <1>11
<1>15. agenda # <<>> /\ agenda' = <<Block(S.body), e>> \o Rest /\ 3 \in Nat
  BY <1>1
<1>16. blocks'[cur].term # Unreachable
  BY <1>3, <1>11
<1> HIDE DEF Item
<1> QED
  BY <1>2, <1>5, <1>9, <1>12, <1>13, <1>14, <1>15, <1>16, LoopShape

LEMMA IterShape ==
  ASSUME BlocksInv, LowerIter
  PROVE  \E P : Shape(P)
<1> DEFINE n  == Len(blocks)
           l  == nextLocal
           e  == [k |-> "end", cont |-> n + 1, brk |-> n + 4]
           a  == NewBlocks(blocks, 4)
           s0 == <<Set(l, 0)>>
           b0 == Emit(a, cur, s0)
           b1 == Terminate(b0, cur, Goto(n + 1))
           s2 == <<[op |-> "next", dst |-> l + 1, it |-> l]>>
           b2 == Emit(b1, n + 1, s2)
           y  == CondBr(<<"null", l + 1>>, n + 4, n + 2)
           b3 == Terminate(b2, n + 1, y)
           s4 == <<[op |-> "payload", dst |-> l + 2, src |-> l + 1]>>
           b4 == Emit(b3, n + 2, s4)
<1>1. /\ agenda # <<>> /\ S.k = "iter" /\ agenda' = <<Block(S.body), e>> \o Rest
      /\ cur' = n + 3 /\ blocks' = Terminate(b4, n + 2, Goto(n + 3))
  BY DEF LowerIter, EntersLoop, Next1, S
<1>2. /\ Waits(S) = {} /\ S.body \in Seq(Stmt)
      /\ cur \in DOMAIN blocks /\ n \in Nat /\ DOMAIN blocks = 1 .. n
  BY <1>1, LoopStmt
<1>3. /\ Goto(n + 1) # Unreachable /\ Targets(Goto(n + 1)) = {n + 1}
      /\ Goto(n + 3) # Unreachable /\ Targets(Goto(n + 3)) = {n + 3}
      /\ y # Unreachable /\ Targets(y) = {n + 4, n + 2} /\ Targets(Unreachable) = {}
  BY Terminators
<1>4. /\ Added(4) = {n + 1, n + 2, n + 3, n + 4}
      /\ n + 1 # n + 2 /\ n + 1 # n + 3 /\ n + 1 # n + 4 /\ n + 2 # n + 3 /\ n + 2 # n + 4
      /\ n + 3 # n + 4
      /\ cur \notin Added(4) /\ \A c \in Added(4) : c \notin DOMAIN blocks
  BY <1>2 DEF Added
<1>5. e \in Item /\ Waits(e) = {n + 4} /\ Jumps(e) = {n + 1}
  BY <1>2 DEF Item, LoopEnds, Waits, Jumps
<1> HIDE DEF e, y, s0, s2, s4
<1>6. Grown(a, 4) /\ \A c \in Added(4) : a[c].term = Unreachable
  BY <1>1, GrownNew
<1> HIDE DEF a
<1>7. Grown(b0, 4) /\ \A c \in DOMAIN a : b0[c].term = a[c].term
  BY <1>2, <1>6, GrownEmit
<1> HIDE DEF b0
<1>8. /\ Grown(b1, 4) /\ b1[cur].term = Goto(n + 1)
      /\ \A c \in DOMAIN b0 : c # cur => b1[c].term = b0[c].term
  BY <1>2, <1>7, GrownTerminate
<1> HIDE DEF b1
<1>9. /\ n + 1 \in {cur} \cup Added(4) /\ n + 1 \notin DOMAIN blocks
      /\ n + 2 \in {cur} \cup Added(4) /\ n + 2 \notin DOMAIN blocks
  BY <1>4
<1> HIDE DEF n
<1>10. Grown(b2, 4) /\ \A c \in DOMAIN b1 : b2[c].term = b1[c].term
  BY <1>2, <1>8, <1>9, GrownEmit
<1> HIDE DEF b2
<1>11. /\ Grown(b3, 4) /\ b3[n + 1].term = y
       /\ \A c \in DOMAIN b2 : c # n + 1 => b3[c].term = b2[c].term
  BY <1>2, <1>9, <1>10, GrownTerminate
<1> HIDE DEF b3
<1>12. Grown(b4, 4) /\ \A c \in DOMAIN b3 : b4[c].term = b3[c].term
  BY <1>2, <1>9, <1>11, GrownEmit
<1> HIDE DEF b4
<1>13. /\ Grown(blocks', 4) /\ blocks'[n + 2].term = Goto(n + 3)
       /\ \A c \in DOMAIN b4 : c # n + 2 => blocks'[c].term = b4[c].term
  BY <1>1, <1>2, <1>9, <1>12, GrownTerminate
<1>14. /\ DOMAIN a = DOMAIN blocks \cup Added(4) /\ DOMAIN b0 = DOMAIN blocks \cup Added(4)
       /\ DOMAIN b1 = DOMAIN blocks \cup Added(4) /\ DOMAIN b2 = DOMAIN blocks \cup Added(4)
       /\ DOMAIN b3 = DOMAIN blocks \cup Added(4) /\ DOMAIN b4 = DOMAIN blocks \cup Added(4)
       /\ DOMAIN blocks' = DOMAIN blocks \cup Added(4)
  BY <1>6, <1>7, <1>8, <1>10, <1>11, <1>12, <1>13 DEF Grown
<1>15. /\ blocks'[cur].term = Goto(n + 1)
       /\ blocks'[n + 1].term = y /\ blocks'[n + 2].term = Goto(n + 3)
  BY <1>2, <1>4, <1>8, <1>10, <1>11, <1>12, <1>13, <1>14
<1>16. blocks'[n + 3].term = Unreachable /\ blocks'[n + 4].term = Unreachable
  BY <1>4, <1>6, <1>7, <1>8, <1>10, <1>11, <1>12, <1>13, <1>14
<1>17. \A c \in {cur} \cup Added(4) : Targets(blocks'[c].term) \subseteq DOMAIN blocks'
  BY <1>3, <1>4, <1>14, <1>15, <1>16
<1>18. \A c \in Added(4) : blocks'[c].term = Unreachable => c = cur' \/ c \in Waits(e)
  BY <1>1, <1>3, <1>4, <1>5, <1>15
<1>19. /\ cur' \in Added(4) /\ blocks'[cur'].term = Unreachable
       /\ Waits(e) \subseteq Added(4) \ {cur'} /\ Jumps(e) \subseteq DOMAIN blocks'
       /\ \A b \in Waits(e) : blocks'[b].term = Unreachable
  BY <1>1, <1>4, <1>5, <1>14, <1>16
<1>20. agenda # <<>> /\ agenda' = <<Block(S.body), e>> \o Rest /\ 4 \in Nat
  BY <1>1
<1>21. blocks'[cur].term # Unreachable
  BY <1>3, <1>15
<1> HIDE DEF Item
<1> QED
  BY <1>2, <1>5, <1>13, <1>17, <1>18, <1>19, <1>20, <1>21, LoopShape

LEMMA ListShape ==
  ASSUME BlocksInv, LowerList
  PROVE  \E P : Shape(P)
<1> DEFINE n  == Len(blocks)
           l  == nextLocal
           e  == EndsList(n, l)
           a  == NewBlocks(blocks, 4)
           s0 == <<[op |-> "size", dst |-> l], Set(l + 1, 0)>>
           b0 == Emit(a, cur, s0)
           b1 == Terminate(b0, cur, Goto(n + 1))
           y  == CondBr(<<"ge", l + 1, l>>, n + 4, n + 2)
           b2 == Terminate(b1, n + 1, y)
           s3 == <<[op |-> "get", dst |-> l + 2, at |-> l + 1],
                   [op |-> "payload", dst |-> l + 3, src |-> l + 2]>>
<1>1. /\ agenda # <<>> /\ S.k = "list" /\ agenda' = <<Block(S.body), e>> \o Rest
      /\ cur' = n + 2 /\ blocks' = Emit(b2, n + 2, s3)
  BY DEF LowerList, ListBlocks, EntersLoop, Next1, S
<1>2. /\ Waits(S) = {} /\ S.body \in Seq(Stmt)
      /\ cur \in DOMAIN blocks /\ n \in Nat /\ DOMAIN blocks = 1 .. n
  BY <1>1, LoopStmt
<1>3. /\ Goto(n + 1) # Unreachable /\ Targets(Goto(n + 1)) = {n + 1}
      /\ y # Unreachable /\ Targets(y) = {n + 4, n + 2} /\ Targets(Unreachable) = {}
  BY Terminators
<1>4. /\ Added(4) = {n + 1, n + 2, n + 3, n + 4}
      /\ n + 1 # n + 2 /\ n + 1 # n + 3 /\ n + 1 # n + 4 /\ n + 2 # n + 3 /\ n + 2 # n + 4
      /\ n + 3 # n + 4
      /\ cur \notin Added(4) /\ \A c \in Added(4) : c \notin DOMAIN blocks
  BY <1>2 DEF Added
<1>5. e \in Item /\ Waits(e) = {n + 3, n + 4} /\ Jumps(e) = {n + 3, n + 1}
  <2>1. l \in Nat
    BY DEF BlocksInv, Typed
  <2> QED
    BY <1>2, <2>1 DEF EndsList, Item, ListEnds, Waits, Jumps
<1> HIDE DEF e, y, s0, s3
<1>6. Grown(a, 4) /\ \A c \in Added(4) : a[c].term = Unreachable
  BY <1>1, GrownNew
<1> HIDE DEF a
<1>7. Grown(b0, 4) /\ \A c \in DOMAIN a : b0[c].term = a[c].term
  BY <1>2, <1>6, GrownEmit
<1> HIDE DEF b0
<1>8. /\ Grown(b1, 4) /\ b1[cur].term = Goto(n + 1)
      /\ \A c \in DOMAIN b0 : c # cur => b1[c].term = b0[c].term
  BY <1>2, <1>7, GrownTerminate
<1> HIDE DEF b1
<1>9. /\ n + 1 \in {cur} \cup Added(4) /\ n + 1 \notin DOMAIN blocks
      /\ n + 2 \in {cur} \cup Added(4) /\ n + 2 \notin DOMAIN blocks
  BY <1>4
<1> HIDE DEF n
<1>10. /\ Grown(b2, 4) /\ b2[n + 1].term = y
       /\ \A c \in DOMAIN b1 : c # n + 1 => b2[c].term = b1[c].term
  BY <1>2, <1>8, <1>9, GrownTerminate
<1> HIDE DEF b2
<1>11. Grown(blocks', 4) /\ \A c \in DOMAIN b2 : blocks'[c].term = b2[c].term
  BY <1>1, <1>2, <1>9, <1>10, GrownEmit
<1>12. /\ DOMAIN a = DOMAIN blocks \cup Added(4) /\ DOMAIN b0 = DOMAIN blocks \cup Added(4)
       /\ DOMAIN b1 = DOMAIN blocks \cup Added(4) /\ DOMAIN b2 = DOMAIN blocks \cup Added(4)
       /\ DOMAIN blocks' = DOMAIN blocks \cup Added(4)
  BY <1>6, <1>7, <1>8, <1>10, <1>11 DEF Grown
<1>13. /\ blocks'[cur].term = Goto(n + 1) /\ blocks'[n + 1].term = y
       /\ blocks'[n + 2].term = Unreachable /\ blocks'[n + 3].term = Unreachable
       /\ blocks'[n + 4].term = Unreachable
  <2>1. blocks'[cur].term = Goto(n + 1) /\ blocks'[n + 1].term = y
    BY <1>2, <1>4, <1>8, <1>10, <1>11, <1>12
  <2>2. blocks'[n + 2].term = Unreachable
    BY <1>2, <1>4, <1>6, <1>7, <1>8, <1>10, <1>11, <1>12
  <2>3. blocks'[n + 3].term = Unreachable
    BY <1>2, <1>4, <1>6, <1>7, <1>8, <1>10, <1>11, <1>12
  <2>4. blocks'[n + 4].term = Unreachable
    BY <1>2, <1>4, <1>6, <1>7, <1>8, <1>10, <1>11, <1>12
  <2> QED
    BY <2>1, <2>2, <2>3, <2>4
<1>14. \A c \in {cur} \cup Added(4) : Targets(blocks'[c].term) \subseteq DOMAIN blocks'
  BY <1>3, <1>4, <1>12, <1>13
<1>15. \A c \in Added(4) : blocks'[c].term = Unreachable => c = cur' \/ c \in Waits(e)
  BY <1>1, <1>3, <1>4, <1>5, <1>13
<1>16. /\ cur' \in Added(4) /\ blocks'[cur'].term = Unreachable
       /\ Waits(e) \subseteq Added(4) \ {cur'} /\ Jumps(e) \subseteq DOMAIN blocks'
       /\ \A b \in Waits(e) : blocks'[b].term = Unreachable
  BY <1>1, <1>4, <1>5, <1>12, <1>13
<1>17. agenda # <<>> /\ agenda' = <<Block(S.body), e>> \o Rest /\ 4 \in Nat
  BY <1>1
<1>18. blocks'[cur].term # Unreachable
  BY <1>3, <1>13
<1> HIDE DEF Item
<1> QED
  BY <1>2, <1>5, <1>11, <1>14, <1>15, <1>16, <1>17, <1>18, LoopShape

-----------------------------------------------------------------------------
(***************************************************************************)
(* The two stacks.                                                          *)
(***************************************************************************)
ScopesBelow(sc, n) ==
  \A k \in DOMAIN sc : \A x \in DOMAIN sc[k] : x \in Name /\ sc[k][x] \in 0 .. n - 1

LEMMA BoundFacts ==
  ASSUME NEW sc \in Seq(Binding), sc # <<>>, NEW x \in Name, NEW l \in Nat, NEW n \in Nat,
         l < n, ScopesBelow(sc, n)
  PROVE  /\ Bound(sc, x, l) \in Seq(Binding) /\ Len(Bound(sc, x, l)) = Len(sc)
         /\ ScopesBelow(Bound(sc, x, l), n)
<1> DEFINE f == [y \in DOMAIN sc[Len(sc)] \cup {x} |-> IF y = x THEN l ELSE sc[Len(sc)][y]]
<1>1. Len(sc) \in DOMAIN sc /\ Len(sc) \in Nat /\ DOMAIN sc = 1 .. Len(sc)
  BY EmptySeq, LenProperties
<1>2. sc[Len(sc)] \in Binding
  BY <1>1, ElementOfSeq
<1>3. PICK D \in SUBSET Name : sc[Len(sc)] \in [D -> Nat]
  BY <1>2 DEF Binding
<1>4. f \in [D \cup {x} -> Nat] /\ D \cup {x} \in SUBSET Name
  BY <1>3
<1>5. \A y \in DOMAIN f : y \in Name /\ f[y] \in 0 .. n - 1
  BY <1>1, <1>3 DEF ScopesBelow
<1>6. f \in Binding
  BY <1>4 DEF Binding
<1>7. Bound(sc, x, l) = [sc EXCEPT ![Len(sc)] = f]
  BY DEF Bound
<1> HIDE DEF f
<1>8. Bound(sc, x, l) \in Seq(Binding) /\ Len(Bound(sc, x, l)) = Len(sc)
  BY <1>1, <1>6, <1>7, ExceptSeq
<1>9. ScopesBelow(Bound(sc, x, l), n)
  BY <1>1, <1>5, <1>7 DEF ScopesBelow
<1> QED
  BY <1>8, <1>9

-----------------------------------------------------------------------------
(***************************************************************************)
(* Counting the items of some kinds, when the head of a is replaced by P.     *)
(***************************************************************************)
At(s, K)      == {k \in DOMAIN s : s[k].k \in K}
From(s, K, k) == {j \in At(s, K) : j >= k}

LEMMA Moved ==
  ASSUME NEW X \in SUBSET Nat, IsFiniteSet(X), NEW d \in Int
  PROVE  LET Y == {j + d : j \in X} IN IsFiniteSet(Y) /\ Cardinality(Y) = Cardinality(X)
<1> DEFINE Y == {j + d : j \in X}
           f == [j \in X |-> j + d]
<1>1. f \in [X -> Y]
  OBVIOUS
<1>2. \A i, j \in X : f[i] = f[j] => i = j
  OBVIOUS
<1>3. \A y \in Y : \E j \in X : f[j] = y
  OBVIOUS
<1> HIDE DEF f, Y
<1>4. f \in Bijection(X, Y)
  BY <1>1, <1>2, <1>3, Fun_IsBij
<1>5. ExistsBijection(X, Y)
  BY <1>4 DEF ExistsBijection
<1>6. IsFiniteSet(Y) /\ Cardinality(Y) = Cardinality(X)
  BY <1>5, FS_Bijection
<1> QED
  BY <1>6 DEF Y

LEMMA AtFacts ==
  ASSUME NEW T, NEW s \in Seq(T), NEW K
  PROVE  /\ At(s, K) \in SUBSET Nat /\ IsFiniteSet(At(s, K)) /\ Cardinality(At(s, K)) \in Nat
         /\ \A k \in At(s, K) :
              /\ IsFiniteSet(From(s, K, k))
              /\ Cardinality(From(s, K, k)) \in 1 .. Cardinality(At(s, K))
<1>1. Len(s) \in Nat /\ DOMAIN s = 1 .. Len(s)
  BY LenProperties
<1>2. IsFiniteSet(1 .. Len(s)) /\ At(s, K) \in SUBSET (1 .. Len(s))
  BY <1>1, FS_Interval DEF At
<1>3. IsFiniteSet(At(s, K)) /\ Cardinality(At(s, K)) \in Nat
  BY <1>2, FS_Subset, FS_CardinalityType
<1>4. ASSUME NEW k \in At(s, K)
      PROVE  /\ IsFiniteSet(From(s, K, k))
             /\ Cardinality(From(s, K, k)) \in 1 .. Cardinality(At(s, K))
  <2> DEFINE F == From(s, K, k)
  <2>1. F \in SUBSET At(s, K) /\ k \in F
    BY <1>2, <1>4 DEF From
  <2> HIDE DEF F
  <2>2. IsFiniteSet(F) /\ Cardinality(F) <= Cardinality(At(s, K)) /\ Cardinality(F) \in Nat
    BY <1>3, <2>1, FS_Subset, FS_CardinalityType
  <2>3. Cardinality(F) # 0
    BY <2>1, <2>2, FS_EmptySet
  <2> QED
    BY <1>3, <2>2, <2>3 DEF F
<1> QED
  BY <1>2, <1>3, <1>4

(* What is behind the head is only moved. *)
LEMMA Behind ==
  ASSUME NEW T, NEW a \in Seq(T), a # <<>>, NEW P \in Seq(T), NEW K
  PROVE  /\ \A j \in DOMAIN a \ {1} :
              Len(P) + j - 1 \in At(P \o Tail(a), K) <=> j \in At(a, K)
         /\ \A j \in At(a, K) \ {1} :
              Cardinality(From(P \o Tail(a), K, Len(P) + j - 1)) = Cardinality(From(a, K, j))
<1> DEFINE s == P \o Tail(a)
<1>1. /\ DOMAIN s = 1 .. Len(P) + Len(a) - 1
      /\ \A j \in DOMAIN a \ {1} : Len(P) + j - 1 \in DOMAIN s /\ s[Len(P) + j - 1] = a[j]
      /\ \A k \in DOMAIN s : k \in DOMAIN P \/ \E j \in DOMAIN a \ {1} : k = Len(P) + j - 1
  <2>1. DOMAIN s = 1 .. Len(P) + Len(a) - 1
    BY Spliced
  <2>2. \A j \in DOMAIN a \ {1} : Len(P) + j - 1 \in DOMAIN s /\ s[Len(P) + j - 1] = a[j]
    BY Spliced, SMTT(30)
  <2>3. \A k \in DOMAIN s : k \in DOMAIN P \/ \E j \in DOMAIN a \ {1} : k = Len(P) + j - 1
    BY Spliced
  <2> QED
    BY <2>1, <2>2, <2>3
<1> DEFINE d == Len(P) - 1
<1>2. /\ Len(P) \in Nat /\ DOMAIN P = 1 .. Len(P) /\ Len(a) \in Nat /\ DOMAIN a = 1 .. Len(a)
  BY LenProperties
<1> HIDE DEF s
<1>3. \A j \in DOMAIN a \ {1} : Len(P) + j - 1 \in At(s, K) <=> j \in At(a, K)
  BY <1>1 DEF At
<1>4. ASSUME NEW j \in At(a, K) \ {1}
      PROVE  Cardinality(From(s, K, Len(P) + j - 1)) = Cardinality(From(a, K, j))
  <2> DEFINE X == From(a, K, j)
             Y == From(s, K, Len(P) + j - 1)
  <2>1. j \in DOMAIN a /\ j \in Nat /\ j > 1
    BY <1>2, <1>4 DEF At
  <2>2. IsFiniteSet(X)
    BY <1>4, AtFacts
  <2>3. X \in SUBSET Nat /\ d \in Int
    BY <1>2 DEF From, At
  <2>4. Y = {i + d : i \in X}
    <3>1. ASSUME NEW i \in X
          PROVE  i + d \in Y
      <4>1. i \in DOMAIN a \ {1} /\ i \in At(a, K) /\ i >= j /\ i \in Nat
        BY <1>2, <2>1, <3>1 DEF From, At
      <4>2. Len(P) + i - 1 \in At(s, K) /\ i + d = Len(P) + i - 1
        BY <1>2, <1>3, <4>1
      <4> QED
        BY <1>2, <2>1, <4>1, <4>2 DEF From
    <3>2. ASSUME NEW k \in Y
          PROVE  \E i \in X : k = i + d
      <4>1. k \in DOMAIN s /\ k \in At(s, K) /\ k >= Len(P) + j - 1
        BY <3>2 DEF From, At
      <4>2. k \notin DOMAIN P
        BY <1>1, <1>2, <2>1, <4>1
      <4>3. PICK i \in DOMAIN a \ {1} : k = Len(P) + i - 1
        BY <1>1, <4>1, <4>2
      <4>4. i \in At(a, K) /\ i \in Nat
        BY <1>2, <1>3, <4>1, <4>3
      <4>5. i \in X /\ k = i + d
        BY <1>2, <2>1, <4>1, <4>3, <4>4 DEF From
      <4> QED
        BY <4>5
    <3> HIDE DEF X, Y, d
    <3> QED
      BY <3>1, <3>2
  <2> HIDE DEF X, Y, d
  <2>5. Cardinality(Y) = Cardinality(X)
    BY <2>2, <2>3, <2>4, Moved
  <2> QED
    BY <2>5 DEF X, Y
<1> QED
  BY <1>3, <1>4 DEF s

(* How many there are then. *)
LEMMA Counted ==
  ASSUME NEW T, NEW a \in Seq(T), a # <<>>, NEW P \in Seq(T), NEW K
  PROVE  /\ At(P, K) = {} =>
              Cardinality(At(P \o Tail(a), K)) = Cardinality(At(a, K) \ {1})
         /\ At(P, K) = {Len(P)} =>
              /\ Len(P) \in At(P \o Tail(a), K)
              /\ Cardinality(At(P \o Tail(a), K)) = Cardinality(At(a, K) \ {1}) + 1
              /\ Cardinality(From(P \o Tail(a), K, Len(P))) = Cardinality(At(a, K) \ {1}) + 1
<1> DEFINE s == P \o Tail(a)
           d == Len(P) - 1
           X == At(a, K) \ {1}
           Y == {i + d : i \in X}
<1>1. /\ DOMAIN s = 1 .. Len(P) + Len(a) - 1
      /\ \A p \in DOMAIN P : p \in DOMAIN s /\ s[p] = P[p]
      /\ \A k \in DOMAIN s : k \in DOMAIN P \/ \E j \in DOMAIN a \ {1} : k = Len(P) + j - 1
  BY Spliced
<1>2. /\ Len(P) \in Nat /\ DOMAIN P = 1 .. Len(P) /\ Len(a) \in Nat /\ DOMAIN a = 1 .. Len(a)
  BY LenProperties
<1>3. \A j \in DOMAIN a \ {1} : Len(P) + j - 1 \in At(s, K) <=> j \in At(a, K)
  BY Behind
<1> HIDE DEF s
<1>4. X \in SUBSET Nat /\ IsFiniteSet(X) /\ d \in Int
  <2>1. At(a, K) \in SUBSET Nat /\ IsFiniteSet(At(a, K))
    BY AtFacts
  <2>2. IsFiniteSet(At(a, K) \ {1})
    BY <2>1, FS_RemoveElement
  <2> QED
    BY <1>2, <2>1, <2>2
<1>5. IsFiniteSet(Y) /\ Cardinality(Y) = Cardinality(X)
  <2> HIDE DEF X, d
  <2> QED
    BY <1>4, Moved
<1>6. X \subseteq DOMAIN a \ {1} /\ \A i \in X : i \in Nat /\ i > 1
  BY <1>2 DEF At
<1>7. Len(P) \notin Y
  BY <1>2, <1>6
<1>8. At(s, K) = At(P, K) \cup Y
  <2>1. ASSUME NEW k \in At(s, K), k \notin At(P, K)
        PROVE  \E i \in X : k = i + d
    <3>1. k \in DOMAIN s /\ k \notin DOMAIN P
      BY <1>1, <2>1 DEF At
    <3>2. PICK i \in DOMAIN a \ {1} : k = Len(P) + i - 1
      BY <1>1, <3>1
    <3>3. i \in X /\ k = i + d
      BY <1>2, <1>3, <2>1, <3>2
    <3> QED
      BY <3>3
  <2>2. ASSUME NEW i \in X
        PROVE  i + d \in At(s, K)
    <3>1. i + d = Len(P) + i - 1 /\ i \in DOMAIN a \ {1} /\ i \in At(a, K)
      BY <1>2, <1>6
    <3> QED
      BY <1>3, <3>1
  <2>3. At(P, K) \subseteq At(s, K)
    BY <1>1 DEF At
  <2> HIDE DEF X, d
  <2> QED
    BY <2>1, <2>2, <2>3
<1> HIDE DEF X, Y
<1>9. ASSUME At(P, K) = {Len(P)}
      PROVE  /\ Len(P) \in At(s, K) /\ Cardinality(At(s, K)) = Cardinality(X) + 1
             /\ From(s, K, Len(P)) = At(s, K)
  <2>1. At(s, K) = Y \cup {Len(P)}
    BY <1>8, <1>9
  <2>2. \A k \in Y : k >= Len(P) /\ k \in Int
    BY <1>2, <1>6 DEF Y
  <2>3. Cardinality(Y \cup {Len(P)}) = Cardinality(Y) + 1
    BY <1>5, <1>7, FS_AddElement
  <2>4. From(s, K, Len(P)) = At(s, K)
    BY <1>2, <2>1, <2>2 DEF From
  <2> QED
    BY <1>5, <2>1, <2>3, <2>4
<1> QED
  BY <1>5, <1>8, <1>9 DEF s, X

-----------------------------------------------------------------------------
(* The items that stand for an enclosing loop, and for an enclosing block;    *)
(* StacksMatch, of an agenda a and the loop stack ls.                        *)
EndKinds == {"end", "endlist"}
PopKinds == {"pop"}

LoopsMatch(a, ls) ==
  /\ Len(ls) = Cardinality(At(a, EndKinds))
  /\ \A k \in At(a, EndKinds) :
       ls[Cardinality(From(a, EndKinds, k))] = [cont |-> a[k].cont, brk |-> a[k].brk]

ScopesMatch(a, sc) == Len(sc) = 1 + Cardinality(At(a, PopKinds))

LEMMA Matching == StacksMatch <=> LoopsMatch(agenda, loops) /\ ScopesMatch(agenda, scope)
<1>1. Ends = At(agenda, EndKinds) /\ Pops = At(agenda, PopKinds)
  BY DEF Ends, Pops, At, EndKinds, PopKinds
<1>2. \A k : {j \in Ends : j >= k} = From(agenda, EndKinds, k)
  BY <1>1 DEF From
<1> QED
  BY <1>1, <1>2 DEF StacksMatch, LoopsMatch, ScopesMatch

(* How many items of the kinds K there are in a, if its head is not, or is. *)
LEMMA HeadCounted ==
  ASSUME NEW T, NEW a \in Seq(T), a # <<>>, NEW K
  PROVE  /\ Cardinality(At(a, K)) \in Nat
         /\ a[1].k \notin K => At(a, K) \ {1} = At(a, K)
         /\ a[1].k \in K => /\ 1 \in At(a, K) /\ From(a, K, 1) = At(a, K)
                            /\ Cardinality(At(a, K) \ {1}) = Cardinality(At(a, K)) - 1
<1>1. Len(a) \in Nat /\ DOMAIN a = 1 .. Len(a) /\ 1 \in DOMAIN a
  <2>1. Len(a) \in Nat /\ DOMAIN a = 1 .. Len(a) /\ Len(a) # 0
    BY LenProperties, EmptySeq
  <2> QED
    BY <2>1
<1>2. IsFiniteSet(At(a, K)) /\ Cardinality(At(a, K)) \in Nat
  BY AtFacts
<1>3. a[1].k \notin K => 1 \notin At(a, K)
  BY DEF At
<1>4. a[1].k \in K => 1 \in At(a, K)
  BY <1>1 DEF At
<1>5. From(a, K, 1) = At(a, K)
  BY <1>1 DEF From, At
<1>6. 1 \in At(a, K) => Cardinality(At(a, K) \ {1}) = Cardinality(At(a, K)) - 1
  BY <1>2, FS_RemoveElement
<1>7. 1 \notin At(a, K) => At(a, K) \ {1} = At(a, K)
  OBVIOUS
<1> QED
  BY <1>2, <1>3, <1>4, <1>5, <1>6, <1>7

LEMMA ScopesKept ==
  ASSUME NEW T, NEW a \in Seq(T), a # <<>>, NEW P \in Seq(T), NEW sc, ScopesMatch(a, sc),
         NEW tc
  PROVE  /\ a[1].k # "pop" /\ At(P, PopKinds) = {} /\ Len(tc) = Len(sc) =>
              ScopesMatch(P \o Tail(a), tc)
         /\ a[1].k # "pop" /\ At(P, PopKinds) = {Len(P)} /\ Len(tc) = Len(sc) + 1 =>
              ScopesMatch(P \o Tail(a), tc)
         /\ a[1].k = "pop" /\ At(P, PopKinds) = {} /\ Len(tc) = Len(sc) - 1 =>
              ScopesMatch(P \o Tail(a), tc)
<1> DEFINE K == PopKinds
           s == P \o Tail(a)
           c == Cardinality(At(a, K))
<1>1. /\ c \in Nat
      /\ a[1].k \notin K => At(a, K) \ {1} = At(a, K)
      /\ a[1].k \in K => Cardinality(At(a, K) \ {1}) = c - 1
  BY HeadCounted
<1>2. /\ At(P, K) = {} => Cardinality(At(s, K)) = Cardinality(At(a, K) \ {1})
      /\ At(P, K) = {Len(P)} => Cardinality(At(s, K)) = Cardinality(At(a, K) \ {1}) + 1
  BY Counted
<1>3. Len(sc) = 1 + c
  BY DEF ScopesMatch
<1>4. a[1].k \in K <=> a[1].k = "pop"
  BY DEF PopKinds
<1> HIDE DEF c, s
<1> SUFFICES ASSUME \/ a[1].k # "pop" /\ At(P, K) = {} /\ Len(tc) = Len(sc)
                    \/ a[1].k # "pop" /\ At(P, K) = {Len(P)} /\ Len(tc) = Len(sc) + 1
                    \/ a[1].k = "pop" /\ At(P, K) = {} /\ Len(tc) = Len(sc) - 1
             PROVE  Len(tc) = 1 + Cardinality(At(s, K))
  BY DEF ScopesMatch, s
<1> HIDE DEF K
<1>5. a[1].k # "pop" => Cardinality(At(a, K) \ {1}) = c
  BY <1>1, <1>4 DEF c
<1> QED
  BY <1>1, <1>2, <1>3, <1>4, <1>5

(* Item k of a has its frame among the first m of ls. *)
FramedIn(a, ls, m, k) ==
  /\ Cardinality(From(a, EndKinds, k)) \in 1 .. m
  /\ ls[Cardinality(From(a, EndKinds, k))] = [cont |-> a[k].cont, brk |-> a[k].brk]

LEMMA LoopsBehind ==
  ASSUME NEW T, NEW a \in Seq(T), a # <<>>, NEW P \in Seq(T), NEW ls, LoopsMatch(a, ls)
  PROVE  \A k \in At(P \o Tail(a), EndKinds) :
           \/ k \in At(P, EndKinds) /\ (P \o Tail(a))[k] = P[k]
           \/ FramedIn(P \o Tail(a), ls, Cardinality(At(a, EndKinds) \ {1}), k)
<1> DEFINE K == EndKinds
           s == P \o Tail(a)
<1>1. \A p \in DOMAIN P : p \in DOMAIN s /\ s[p] = P[p]
  BY Spliced
<1>2. \A k \in DOMAIN s : k \in DOMAIN P \/ \E j \in DOMAIN a \ {1} : k = Len(P) + j - 1
  BY Spliced
<1>3. \A j \in DOMAIN a \ {1} : Len(P) + j - 1 \in DOMAIN s /\ s[Len(P) + j - 1] = a[j]
  BY Spliced, SMTT(30)
<1>4. /\ \A j \in DOMAIN a \ {1} : Len(P) + j - 1 \in At(s, K) <=> j \in At(a, K)
      /\ \A j \in At(a, K) \ {1} :
           Cardinality(From(s, K, Len(P) + j - 1)) = Cardinality(From(a, K, j))
  BY Behind
<1>5. \A j \in At(a, K) :
        /\ IsFiniteSet(From(a, K, j))
        /\ Cardinality(From(a, K, j)) \in 1 .. Cardinality(At(a, K))
  BY AtFacts
<1>6. IsFiniteSet(At(a, K) \ {1}) /\ Cardinality(At(a, K) \ {1}) \in Nat
  BY AtFacts, FS_RemoveElement, FS_CardinalityType
<1>7. At(a, K) \subseteq DOMAIN a /\ DOMAIN a \subseteq Nat
  BY LenProperties DEF At
<1>8. \A j \in At(a, K) : ls[Cardinality(From(a, K, j))] = [cont |-> a[j].cont, brk |-> a[j].brk]
  BY DEF LoopsMatch
<1> SUFFICES ASSUME NEW k \in At(s, K), ~ (k \in At(P, K) /\ s[k] = P[k])
             PROVE  FramedIn(s, ls, Cardinality(At(a, K) \ {1}), k)
  OBVIOUS
<1> HIDE DEF s
<1>9. k \in DOMAIN s /\ k \notin DOMAIN P
  BY <1>1 DEF At
<1>10. PICK j \in DOMAIN a \ {1} : k = Len(P) + j - 1
  BY <1>2, <1>9
<1>11. j \in At(a, K) \ {1} /\ s[k] = a[j]
  BY <1>3, <1>4, <1>10
<1>12. Cardinality(From(s, K, k)) = Cardinality(From(a, K, j))
  BY <1>4, <1>10, <1>11
<1>13. Cardinality(From(a, K, j)) <= Cardinality(At(a, K) \ {1})
  <2>1. From(a, K, j) \in SUBSET (At(a, K) \ {1})
    BY <1>7, <1>11 DEF From
  <2> QED
    BY <1>6, <2>1, FS_Subset
<1>14. Cardinality(From(a, K, j)) \in 1 .. Cardinality(At(a, K) \ {1})
  BY <1>5, <1>6, <1>11, <1>13
<1> QED
  BY <1>8, <1>11, <1>12, <1>14 DEF FramedIn

LEMMA LoopsKept ==
  ASSUME NEW T, NEW a \in Seq(T), a # <<>>, NEW P \in Seq(T), NEW ls, LoopsMatch(a, ls),
         a[1].k \notin EndKinds, At(P, EndKinds) = {}
  PROVE  LoopsMatch(P \o Tail(a), ls)
<1> DEFINE s == P \o Tail(a)
<1>1. At(a, EndKinds) \ {1} = At(a, EndKinds)
  BY HeadCounted
<1>2. Cardinality(At(s, EndKinds)) = Cardinality(At(a, EndKinds) \ {1})
  BY Counted
<1>3. \A k \in At(s, EndKinds) :
        \/ k \in At(P, EndKinds) /\ s[k] = P[k]
        \/ FramedIn(s, ls, Cardinality(At(a, EndKinds) \ {1}), k)
  BY LoopsBehind
<1> HIDE DEF s
<1>4. LoopsMatch(s, ls)
  BY <1>1, <1>2, <1>3 DEF LoopsMatch, FramedIn
<1> QED
  BY <1>4 DEF s

LEMMA LoopsPushed ==
  ASSUME NEW T, NEW a \in Seq(T), a # <<>>, NEW P \in Seq(T), NEW ls \in Seq(Frame),
         LoopsMatch(a, ls), a[1].k \notin EndKinds, At(P, EndKinds) = {Len(P)},
         NEW f \in Frame, f = [cont |-> P[Len(P)].cont, brk |-> P[Len(P)].brk]
  PROVE  LoopsMatch(P \o Tail(a), Append(ls, f))
<1> DEFINE s  == P \o Tail(a)
           c  == Cardinality(At(a, EndKinds))
           ms == Append(ls, f)
<1>1. At(a, EndKinds) \ {1} = At(a, EndKinds) /\ c \in Nat
  BY HeadCounted
<1>2. Len(ls) = c
  BY DEF LoopsMatch
<1>3. /\ Cardinality(At(s, EndKinds)) = Cardinality(At(a, EndKinds) \ {1}) + 1
      /\ Cardinality(From(s, EndKinds, Len(P))) = Cardinality(At(a, EndKinds) \ {1}) + 1
  BY Counted
<1>4. Len(ms) = c + 1 /\ ms[c + 1] = f /\ \A i \in 1 .. c : ms[i] = ls[i]
  BY <1>2, AppendProperties
<1>5. \A k \in At(s, EndKinds) :
        \/ k \in At(P, EndKinds) /\ s[k] = P[k]
        \/ FramedIn(s, ls, Cardinality(At(a, EndKinds) \ {1}), k)
  BY LoopsBehind
<1> HIDE DEF s, ms
<1>6. ASSUME NEW k \in At(s, EndKinds)
      PROVE  ms[Cardinality(From(s, EndKinds, k))] = [cont |-> s[k].cont, brk |-> s[k].brk]
  <2>1. CASE k \in At(P, EndKinds) /\ s[k] = P[k]
    BY <1>1, <1>3, <1>4, <2>1
  <2>2. CASE FramedIn(s, ls, c, k)
    BY <1>4, <2>2 DEF FramedIn
  <2> QED
    BY <1>1, <1>5, <2>1, <2>2
<1>7. LoopsMatch(s, ms)
  BY <1>1, <1>3, <1>4, <1>6 DEF LoopsMatch
<1> QED
  BY <1>7 DEF s, ms

LEMMA LoopsPopped ==
  ASSUME NEW T, NEW a \in Seq(T), a # <<>>, NEW ls \in Seq(Frame), LoopsMatch(a, ls),
         a[1].k \in EndKinds
  PROVE  /\ LoopsMatch(<<>> \o Tail(a), SubSeq(ls, 1, Len(ls) - 1))
         /\ Len(ls) >= 1
<1> DEFINE P  == <<>>
           s  == P \o Tail(a)
           c  == Cardinality(At(a, EndKinds))
           ms == SubSeq(ls, 1, Len(ls) - 1)
<1>1. P \in Seq(T) /\ At(P, EndKinds) = {}
  BY EmptySeq DEF At
<1>2. c \in Nat /\ Len(ls) = c /\ Cardinality(At(a, EndKinds) \ {1}) = c - 1 /\ c \in 1 .. c
  <2>1. 1 \in At(a, EndKinds) /\ c \in Nat /\ Cardinality(At(a, EndKinds) \ {1}) = c - 1
    BY HeadCounted
  <2>2. c >= 1
    BY <2>1, AtFacts
  <2> QED
    BY <2>1, <2>2 DEF LoopsMatch
<1> HIDE DEF P
<1>3. Cardinality(At(s, EndKinds)) = Cardinality(At(a, EndKinds) \ {1})
  BY <1>1, Counted
<1>4. Len(ms) = c - 1 /\ \A i \in 1 .. c - 1 : ms[i] = ls[i]
  <2>1. \A i \in 1 .. c - 1 : ls[i] \in Frame
    BY <1>2, ElementOfSeq, LenProperties
  <2> HIDE DEF Frame, c
  <2>2. 1 \in Int /\ c - 1 \in Int
    BY <1>2
  <2>3. /\ Len(SubSeq(ls, 1, c - 1)) = IF 1 <= c - 1 THEN (c - 1) - 1 + 1 ELSE 0
        /\ \A i \in 1 .. (c - 1) - 1 + 1 : SubSeq(ls, 1, c - 1)[i] = ls[1 + i - 1]
    BY <2>1, <2>2, SubSeqProperties
  <2> QED
    BY <1>2, <2>3
<1>5. \A k \in At(s, EndKinds) :
        \/ k \in At(P, EndKinds) /\ s[k] = P[k]
        \/ FramedIn(s, ls, Cardinality(At(a, EndKinds) \ {1}), k)
  BY <1>1, LoopsBehind
<1> HIDE DEF s, ms
<1>6. LoopsMatch(s, ms)
  BY <1>1, <1>2, <1>3, <1>4, <1>5 DEF LoopsMatch, FramedIn
<1> QED
  BY <1>2, <1>6 DEF s, ms, P

-----------------------------------------------------------------------------
(***************************************************************************)
(* The inductive invariant, and the steps that preserve it.                   *)
(***************************************************************************)
CfgInv == BlocksInv /\ LoopsMatch(agenda, loops) /\ ScopesMatch(agenda, scope)

LEMMA InvFacts ==
  ASSUME CfgInv
  PROVE  /\ agenda \in Seq(Item) /\ scope \in Seq(Binding) /\ loops \in Seq(Frame)
         /\ nextLocal \in Nat \ {0} /\ ScopesBelow(scope, nextLocal)
         /\ \A k \in DOMAIN loops : loops[k].cont \in DOMAIN blocks /\ loops[k].brk \in DOMAIN blocks
         /\ scope # <<>> /\ Len(scope) \in Nat /\ Len(scope) >= 1
         /\ agenda # <<>> => S = agenda[1]
<1>1. /\ agenda \in Seq(Item) /\ scope \in Seq(Binding) /\ loops \in Seq(Frame)
      /\ nextLocal \in Nat \ {0} /\ ScopesBelow(scope, nextLocal)
      /\ \A k \in DOMAIN loops : loops[k].cont \in DOMAIN blocks /\ loops[k].brk \in DOMAIN blocks
  BY DEF CfgInv, BlocksInv, Typed, TypeOK, ScopesBelow
<1> HIDE DEF Item, Binding, Frame
<1>2. Len(scope) \in Nat /\ Len(scope) >= 1
  <2>1. Cardinality(At(agenda, PopKinds)) \in Nat
    BY <1>1, AtFacts
  <2> QED
    BY <2>1 DEF CfgInv, ScopesMatch
<1>3. scope # <<>>
  BY <1>2, EmptySeq
<1>4. agenda # <<>> => S = agenda[1]
  <2>1. <<>> \in Seq(Item)
    BY EmptySeq
  <2> QED
    BY <1>1, <2>1, Spliced DEF S
<1> QED
  BY <1>1, <1>2, <1>3, <1>4

(* What is left to show of a step that has a shape. *)
LEMMA Together ==
  ASSUME CfgInv, \E P : Shape(P),
         scope' \in Seq(Binding), loops' \in Seq(Frame), nextLocal' \in Nat \ {0},
         ScopesBelow(scope', nextLocal'),
         \A k \in DOMAIN loops' :
           loops'[k].cont \in DOMAIN blocks' /\ loops'[k].brk \in DOMAIN blocks',
         LoopsMatch(agenda', loops'), ScopesMatch(agenda', scope')
  PROVE  CfgInv'
<1>1. BlocksInv
  BY DEF CfgInv
<1>2. PICK P : Shape(P)
  OBVIOUS
<1>3. /\ agenda' \in Seq(Item) /\ AnyBlocks(blocks') /\ cur' \in DOMAIN blocks'
      /\ \A b \in DOMAIN blocks' : Targets(blocks'[b].term) \subseteq DOMAIN blocks'
      /\ AgendaIds' /\ Pending' /\ Unsealed'
  BY <1>1, <1>2, ShapeKeeps
<1>4. Typed'
  BY <1>3 DEF Typed, AnyBlocks
<1>5. TypeOK'
  BY <1>3 DEF TypeOK, ScopesBelow, Targets
<1> QED
  BY <1>3, <1>4, <1>5 DEF CfgInv, BlocksInv, LoopsMatch, ScopesMatch, At, From

LEMMA LoopsStay ==
  ASSUME CfgInv, \E P : Shape(P), loops' = loops
  PROVE  /\ loops' \in Seq(Frame)
         /\ \A k \in DOMAIN loops' :
              loops'[k].cont \in DOMAIN blocks' /\ loops'[k].brk \in DOMAIN blocks'
<1>1. DOMAIN blocks \subseteq DOMAIN blocks'
  BY DEF Shape
<1> QED
  BY <1>1, InvFacts

(* A step that adds no loop and no block leaves both stacks as they match. *)
LEMMA StacksKept ==
  ASSUME CfgInv, agenda # <<>>, S.k \notin EndKinds \cup PopKinds,
         NEW P \in Seq(Item), agenda' = P \o Rest,
         At(P, EndKinds) = {}, At(P, PopKinds) = {}, loops' = loops, Len(scope') = Len(scope)
  PROVE  LoopsMatch(agenda', loops') /\ ScopesMatch(agenda', scope')
<1>1. agenda \in Seq(Item) /\ S = agenda[1]
  BY InvFacts
<1>2. LoopsMatch(agenda, loops) /\ ScopesMatch(agenda, scope)
  BY DEF CfgInv
<1>3. agenda' = P \o Tail(agenda)
  BY DEF Rest
<1>4. agenda[1].k \notin EndKinds /\ agenda[1].k # "pop"
  BY <1>1 DEF PopKinds
<1> HIDE DEF Item
<1>5. LoopsMatch(P \o Tail(agenda), loops)
  BY <1>1, <1>2, <1>4, LoopsKept
<1>6. ScopesMatch(P \o Tail(agenda), scope')
  BY <1>1, <1>2, <1>4, ScopesKept
<1> QED
  BY <1>3, <1>5, <1>6

LEMMA PlainStep ==
  ASSUME CfgInv, agenda # <<>>, S.k \notin EndKinds \cup PopKinds,
         NEW P \in Seq(Item), agenda' = P \o Rest,
         At(P, EndKinds) = {}, At(P, PopKinds) = {},
         \E Q : Shape(Q), UNCHANGED <<scope, loops, nextLocal>>
  PROVE  CfgInv'
<1>1. LoopsMatch(agenda', loops') /\ ScopesMatch(agenda', scope')
  BY StacksKept
<1>2. /\ scope' \in Seq(Binding) /\ nextLocal' \in Nat \ {0} /\ ScopesBelow(scope', nextLocal')
  BY InvFacts
<1>3. /\ loops' \in Seq(Frame)
      /\ \A k \in DOMAIN loops' :
           loops'[k].cont \in DOMAIN blocks' /\ loops'[k].brk \in DOMAIN blocks'
  BY LoopsStay
<1> QED
  BY <1>1, <1>2, <1>3, Together

LEMMA NoKinds ==
  ASSUME CfgInv, agenda # <<>>, agenda' = Rest
  PROVE  /\ <<>> \in Seq(Item) /\ agenda' = <<>> \o Rest
         /\ At(<<>>, EndKinds) = {} /\ At(<<>>, PopKinds) = {}
BY NoItems DEF CfgInv, At

(* act, drop, use and assign: statements for the current block. *)
LEMMA PushKeeps ==
  ASSUME CfgInv, agenda # <<>>, S.k \in {"act", "drop", "use", "assign"}, NEW s, Pushes(s),
         UNCHANGED <<scope, nextLocal>>
  PROVE  CfgInv' /\ \E P : Shape(P)
<1>1. Waits(S) = {} /\ S.k \notin EndKinds \cup PopKinds
  BY DEF Waits, EndKinds, PopKinds
<1>2. Shape(<<>>)
  BY <1>1, PushShape DEF CfgInv
<1>3. agenda' = Rest /\ loops' = loops
  BY DEF Pushes
<1>4. CfgInv'
  BY <1>1, <1>2, <1>3, NoKinds, PlainStep
<1> QED
  BY <1>2, <1>4

LEMMA VarKeeps ==
  ASSUME CfgInv, LowerVar
  PROVE  CfgInv' /\ \E P : Shape(P)
<1>1. /\ agenda # <<>> /\ S.k = "var" /\ Pushes(<<Set(nextLocal, S.val)>>)
      /\ scope' = Bound(scope, S.name, nextLocal) /\ nextLocal' = nextLocal + 1
  BY DEF LowerVar, Next1, S
<1>2. Waits(S) = {} /\ S.k \notin EndKinds \cup PopKinds
  BY <1>1 DEF Waits, EndKinds, PopKinds
<1>3. Shape(<<>>)
  BY <1>1, <1>2, PushShape DEF CfgInv
<1>4. agenda' = Rest /\ loops' = loops
  BY <1>1 DEF Pushes
<1>5. S.name \in Name
  BY <1>1, HeadFacts, ItemKinds DEF CfgInv
<1>6. ScopesBelow(scope, nextLocal + 1)
  BY InvFacts DEF ScopesBelow
<1>7. nextLocal \in Nat /\ nextLocal + 1 \in Nat /\ nextLocal < nextLocal + 1 /\ nextLocal' \in Nat \ {0}
  BY <1>1, InvFacts
<1>8. /\ scope' \in Seq(Binding) /\ Len(scope') = Len(scope)
      /\ ScopesBelow(scope', nextLocal')
  BY <1>1, <1>5, <1>6, <1>7, InvFacts, BoundFacts
<1>9. LoopsMatch(agenda', loops') /\ ScopesMatch(agenda', scope')
  BY <1>1, <1>2, <1>4, <1>8, NoKinds, StacksKept
<1>10. /\ loops' \in Seq(Frame)
       /\ \A k \in DOMAIN loops' :
            loops'[k].cont \in DOMAIN blocks' /\ loops'[k].brk \in DOMAIN blocks'
  BY <1>3, <1>4, LoopsStay
<1> QED
  BY <1>3, <1>7, <1>8, <1>9, <1>10, Together

(* return, break and continue. *)
LEMMA LeaveKeeps ==
  ASSUME CfgInv, LowerReturn \/ LowerBreak \/ LowerContinue
  PROVE  CfgInv' /\ \E P : Shape(P)
<1>1. agenda # <<>> /\ S.k \in {"return", "break", "continue"}
  BY DEF LowerReturn, LowerBreak, LowerContinue, Next1, S
<1>2. PICK x : LeaveBy(x) /\ x # Unreachable /\ Targets(x) \subseteq DOMAIN blocks
  <2>1. CASE LowerReturn
    BY <2>1, Terminators DEF LowerReturn
  <2>2. ASSUME loops # <<>>
        PROVE  /\ loops[Len(loops)].brk \in DOMAIN blocks
               /\ loops[Len(loops)].cont \in DOMAIN blocks
    <3>1. Len(loops) \in DOMAIN loops
      BY <2>2, InvFacts, EmptySeq, LenProperties
    <3> QED
      BY <3>1, InvFacts
  <2>3. CASE LowerBreak
    BY <2>2, <2>3, Terminators DEF LowerBreak
  <2>4. CASE LowerContinue
    BY <2>2, <2>4, Terminators DEF LowerContinue
  <2> QED
    BY <2>1, <2>3, <2>4
<1>3. Waits(S) = {} /\ S.k \notin EndKinds \cup PopKinds
  BY <1>1 DEF Waits, EndKinds, PopKinds
<1>4. Shape(<<>>)
  BY <1>1, <1>2, <1>3, LeaveShape DEF CfgInv
<1>5. agenda' = Rest /\ UNCHANGED <<scope, loops, nextLocal>>
  BY <1>2 DEF LeaveBy
<1>6. CfgInv'
  BY <1>1, <1>3, <1>4, <1>5, NoKinds, PlainStep
<1> QED
  BY <1>4, <1>6

LEMMA IfKeeps ==
  ASSUME CfgInv, LowerIf
  PROVE  CfgInv' /\ \E P : Shape(P)
<1> DEFINE n == Len(blocks)
           P == << Block(S.body), [k |-> "arm", next |-> n + 2, join |-> n + 3],
                   Block(S.else), [k |-> "arm", next |-> n + 3, join |-> n + 3] >>
<1>1. /\ agenda # <<>> /\ S.k = "if" /\ agenda' = P \o Rest
      /\ UNCHANGED <<scope, loops, nextLocal>>
  BY DEF LowerIf, Next1, S
<1>2. S \in Item /\ n \in Nat
  BY <1>1, HeadFacts DEF CfgInv
<1>3. P \in Seq(Item)
  <2>1. Block(S.body) \in Item /\ Block(S.else) \in Item
    BY <1>1, <1>2, ItemKinds, Nested
  <2>2. /\ [k |-> "arm", next |-> n + 2, join |-> n + 3] \in Item
        /\ [k |-> "arm", next |-> n + 3, join |-> n + 3] \in Item
    BY <1>2 DEF Item, Arms
  <2> HIDE DEF Item, n
  <2> QED
    BY <2>1, <2>2
<1>4. At(P, EndKinds) = {} /\ At(P, PopKinds) = {}
  <2>1. DOMAIN P = 1 .. 4
    OBVIOUS
  <2>2. P[1].k = "block" /\ P[2].k = "arm" /\ P[3].k = "block" /\ P[4].k = "arm"
    BY DEF Block
  <2> HIDE DEF P
  <2>3. \A p \in DOMAIN P : P[p].k \in {"block", "arm"}
    BY <2>1, <2>2
  <2> QED
    BY <2>3 DEF At, EndKinds, PopKinds
<1>5. S.k \notin EndKinds \cup PopKinds
  BY <1>1 DEF EndKinds, PopKinds
<1>6. \E Q : Shape(Q)
  BY IfShape DEF CfgInv
<1> HIDE DEF P, Item
<1>7. CfgInv'
  BY <1>1, <1>3, <1>4, <1>5, <1>6, PlainStep
<1> QED
  BY <1>6, <1>7

LEMMA ArmKeeps ==
  ASSUME CfgInv, EndArm
  PROVE  CfgInv' /\ \E P : Shape(P)
<1>1. /\ agenda # <<>> /\ S.k = "arm" /\ blocks' = TerminateIfOpen(blocks, cur, Goto(S.join))
      /\ cur' = S.next /\ agenda' = Rest /\ UNCHANGED <<scope, loops, nextLocal>>
  BY DEF EndArm, Next1, S
<1>2. /\ Waits(S) = {S.next} /\ Jumps(S) = {S.join} /\ S.k \notin EndKinds \cup PopKinds
  BY <1>1 DEF Waits, Jumps, EndKinds, PopKinds
<1>3. Shape(<<>>)
  <2> HIDE DEF S
  <2> QED
    BY <1>1, <1>2, CloseShape DEF CfgInv
<1>4. CfgInv'
  BY <1>1, <1>2, <1>3, NoKinds, PlainStep
<1> QED
  BY <1>3, <1>4

LEMMA BlockKeeps ==
  ASSUME CfgInv, LowerBlock
  PROVE  CfgInv' /\ \E P : Shape(P)
<1> DEFINE b == S.body
           pop == [k |-> "pop"]
           P == b \o <<pop>>
           f == [x \in {} |-> 0]
<1>1. /\ agenda # <<>> /\ S.k = "block" /\ scope' = Append(scope, f)
      /\ UNCHANGED <<blocks, cur, loops, nextLocal>>
  BY DEF LowerBlock, Next1, S
<1>2. S \in Item /\ b \in Seq(Stmt)
  BY <1>1, HeadFacts, ItemKinds DEF CfgInv
<1>3. /\ b \in Seq(Item) /\ Len(b) \in Nat /\ DOMAIN b = 1 .. Len(b)
      /\ \A p \in DOMAIN b : b[p] \in Stmt
  BY <1>2, StmtsAreItems
<1>4. pop \in Item /\ Stmt \subseteq Item
  BY DEF Item
<1>5. agenda \in Seq(Item) /\ agenda[1] = S
  BY <1>1, InvFacts
<1> HIDE DEF Item, b, pop
<1>6. P \in Seq(Item)
  BY <1>3, <1>4
<1>7. agenda' = P \o Rest
  <2>1. Rest \in Seq(Item) /\ <<pop>> \in Seq(Item)
    BY <1>1, <1>4, <1>5, HeadTailProperties DEF Rest
  <2>2. (b \o <<pop>>) \o Rest = b \o (<<pop>> \o Rest)
    BY <1>3, <2>1, ConcatAssociative
  <2>3. agenda' = b \o <<pop>> \o Rest
    BY DEF LowerBlock, b, pop
  <2> QED
    BY <2>2, <2>3
<1>8. /\ Len(P) = Len(b) + 1 /\ DOMAIN P = 1 .. Len(b) + 1 /\ P[Len(b) + 1] = pop
      /\ \A p \in 1 .. Len(b) : P[p] \in Stmt
  BY <1>3, <1>4
<1> HIDE DEF P
<1>9. /\ \A p \in DOMAIN P : P[p].k \notin {"arm", "end", "endlist"}
      /\ \A p \in DOMAIN P : P[p].k = "pop" <=> p = Len(P)
  <2>1. \A p \in 1 .. Len(b) : P[p].k \notin {"pop", "arm", "end", "endlist"}
    BY <1>4, <1>8, ItemKinds
  <2>2. P[Len(b) + 1].k = "pop"
    BY <1>8 DEF pop
  <2>3. \A p \in DOMAIN P : p \in 1 .. Len(b) \/ p = Len(b) + 1
    BY <1>3, <1>8
  <2> QED
    BY <1>3, <1>8, <2>1, <2>2, <2>3
<1>10. /\ At(P, EndKinds) = {} /\ At(P, PopKinds) = {Len(P)}
       /\ \A p \in DOMAIN P : Waits(P[p]) = {} /\ Jumps(P[p]) = {}
  BY <1>3, <1>8, <1>9 DEF At, EndKinds, PopKinds, Waits, Jumps
<1>11. Waits(S) = {} /\ agenda[1].k \notin EndKinds /\ agenda[1].k # "pop"
  BY <1>1, <1>5 DEF Waits, EndKinds
<1>12. Shape(P)
  BY <1>1, <1>6, <1>7, <1>10, <1>11, ScopeShape DEF CfgInv
<1>13. /\ scope' \in Seq(Binding) /\ Len(scope') = Len(scope) + 1
       /\ ScopesBelow(scope', nextLocal)
  <2>1. f \in [{} -> Nat] /\ {} \in SUBSET Name /\ DOMAIN f = {}
    OBVIOUS
  <2>2. f \in Binding
    BY <2>1 DEF Binding
  <2> HIDE DEF f
  <2>3. /\ Append(scope, f) \in Seq(Binding) /\ Len(Append(scope, f)) = Len(scope) + 1
        /\ \A i \in 1 .. Len(scope) : Append(scope, f)[i] = scope[i]
        /\ Append(scope, f)[Len(scope) + 1] = f
    BY <2>2, InvFacts, AppendProperties
  <2>4. DOMAIN scope' = 1 .. Len(scope) + 1 /\ DOMAIN scope = 1 .. Len(scope) /\ Len(scope) \in Nat
    BY <1>1, <2>3, InvFacts, LenProperties
  <2>5. \A k \in DOMAIN scope' : (k \in DOMAIN scope /\ scope'[k] = scope[k]) \/ scope'[k] = f
    BY <1>1, <2>3, <2>4
  <2> QED
    BY <1>1, <2>1, <2>3, <2>5, InvFacts DEF ScopesBelow
<1>14. LoopsMatch(agenda', loops') /\ ScopesMatch(agenda', scope')
  <2>1. LoopsMatch(agenda, loops) /\ ScopesMatch(agenda, scope) /\ agenda' = P \o Tail(agenda)
    BY <1>7 DEF CfgInv, Rest
  <2>2. LoopsMatch(P \o Tail(agenda), loops)
    BY <1>1, <1>5, <1>6, <1>10, <1>11, <2>1, LoopsKept
  <2>3. ScopesMatch(P \o Tail(agenda), scope')
    BY <1>1, <1>5, <1>6, <1>10, <1>11, <1>13, <2>1, ScopesKept
  <2> QED
    BY <1>1, <2>1, <2>2, <2>3
<1>15. /\ loops' \in Seq(Frame)
       /\ \A k \in DOMAIN loops' :
            loops'[k].cont \in DOMAIN blocks' /\ loops'[k].brk \in DOMAIN blocks'
  BY <1>1, <1>12, LoopsStay
<1>16. nextLocal' \in Nat \ {0} /\ ScopesBelow(scope', nextLocal')
  BY <1>1, <1>13, InvFacts
<1>17. CfgInv'
  BY <1>12, <1>13, <1>14, <1>15, <1>16, Together
<1> QED
  BY <1>12, <1>17

LEMMA PopKeeps ==
  ASSUME CfgInv, EndBlock
  PROVE  CfgInv' /\ \E P : Shape(P)
<1> DEFINE n == Len(scope) - 1
<1>1. /\ agenda # <<>> /\ S.k = "pop" /\ scope' = SubSeq(scope, 1, n) /\ agenda' = Rest
      /\ UNCHANGED <<blocks, cur, loops, nextLocal>>
  BY DEF EndBlock, Next1, S
<1>2. /\ agenda \in Seq(Item) /\ agenda[1] = S /\ scope \in Seq(Binding)
      /\ Len(scope) \in Nat /\ Len(scope) >= 1 /\ DOMAIN scope = 1 .. Len(scope)
  BY <1>1, InvFacts, LenProperties
<1>3. /\ <<>> \in Seq(Item) /\ agenda' = <<>> \o Tail(agenda)
      /\ At(<<>>, EndKinds) = {} /\ At(<<>>, PopKinds) = {}
  BY <1>1, NoKinds DEF Rest
<1>4. Waits(S) = {} /\ agenda[1].k \notin EndKinds /\ agenda[1].k = "pop"
  BY <1>1, <1>2 DEF Waits, EndKinds
<1>5. Shape(<<>>)
  <2>1. agenda' = <<>> \o Rest /\ \A p \in DOMAIN <<>> : Waits(<<>>[p]) = {} /\ Jumps(<<>>[p]) = {}
    BY <1>1, NoItems DEF CfgInv
  <2> QED
    BY <1>1, <1>3, <1>4, <2>1, ScopeShape DEF CfgInv
<1> HIDE DEF Item, Binding
<1>6. /\ scope' \in Seq(Binding) /\ Len(scope') = n /\ \A i \in 1 .. n : scope'[i] = scope[i]
  <2>1. 1 \in Int /\ n \in Int /\ \A i \in 1 .. n : scope[i] \in Binding
    BY <1>2, ElementOfSeq
  <2> HIDE DEF n
  <2>2. /\ SubSeq(scope, 1, n) \in Seq(Binding)
        /\ Len(SubSeq(scope, 1, n)) = IF 1 <= n THEN n - 1 + 1 ELSE 0
        /\ \A i \in 1 .. n - 1 + 1 : SubSeq(scope, 1, n)[i] = scope[1 + i - 1]
    BY <2>1, SubSeqProperties
  <2>3. n >= 0
    BY <1>2 DEF n
  <2> QED
    BY <1>1, <2>1, <2>2, <2>3
<1>7. ScopesBelow(scope', nextLocal') /\ nextLocal' \in Nat \ {0}
  <2>1. DOMAIN scope' = 1 .. n /\ 1 .. n \subseteq DOMAIN scope
    BY <1>2, <1>6, LenProperties
  <2> QED
    BY <1>1, <1>6, <2>1, InvFacts DEF ScopesBelow
<1>8. LoopsMatch(agenda', loops') /\ ScopesMatch(agenda', scope')
  <2>1. LoopsMatch(agenda, loops) /\ ScopesMatch(agenda, scope)
    BY DEF CfgInv
  <2>2. LoopsMatch(<<>> \o Tail(agenda), loops)
    BY <1>1, <1>2, <1>3, <1>4, <2>1, LoopsKept
  <2>3. ScopesMatch(<<>> \o Tail(agenda), scope')
    BY <1>1, <1>2, <1>3, <1>4, <1>6, <2>1, ScopesKept
  <2> QED
    BY <1>1, <1>3, <2>2, <2>3
<1>9. /\ loops' \in Seq(Frame)
      /\ \A k \in DOMAIN loops' :
           loops'[k].cont \in DOMAIN blocks' /\ loops'[k].brk \in DOMAIN blocks'
  BY <1>1, <1>5, LoopsStay
<1>10. CfgInv'
  BY <1>5, <1>6, <1>7, <1>8, <1>9, Together
<1> QED
  BY <1>5, <1>10

(* while and for: one frame more, that of the item which closes the loop. *)
LEMMA EnterKeeps ==
  ASSUME CfgInv, agenda # <<>>, S.k \in {"while", "iter", "list"}, \E P : Shape(P),
         NEW e \in Item, e.k \in EndKinds, EntersLoop(e.cont, e.brk, e),
         scope' \in Seq(Binding), Len(scope') = Len(scope),
         nextLocal' \in Nat \ {0}, ScopesBelow(scope', nextLocal')
  PROVE  CfgInv'
<1> DEFINE P == <<Block(S.body), e>>
           f == [cont |-> e.cont, brk |-> e.brk]
<1>1. /\ S \in Item /\ S.body \in Seq(Stmt) /\ agenda \in Seq(Item) /\ agenda[1] = S
      /\ loops \in Seq(Frame)
  BY LoopStmt, HeadFacts, InvFacts DEF CfgInv
<1>2. agenda' = P \o Tail(agenda) /\ loops' = Append(loops, f)
  BY DEF EntersLoop, Rest
<1>3. P \in Seq(Item) /\ DOMAIN P = {1, 2} /\ P[1] = Block(S.body) /\ P[2] = e /\ Len(P) = 2
  <2>1. Block(S.body) \in Item
    BY <1>1, Nested
  <2> HIDE DEF Item
  <2> QED
    BY <2>1
<1>4. f \in Frame /\ e.k \notin PopKinds /\ {e.cont, e.brk} \subseteq Waits(e) \cup Jumps(e)
  <2>1. CASE e.k = "end"
    BY <2>1, ItemKinds DEF LoopEnds, Frame, PopKinds, Waits, Jumps
  <2>2. CASE e.k = "endlist"
    BY <2>2, ItemKinds DEF ListEnds, Frame, PopKinds, Waits, Jumps
  <2> QED
    BY <2>1, <2>2 DEF EndKinds
<1>5. At(P, EndKinds) = {Len(P)} /\ At(P, PopKinds) = {}
  <2>1. P[1].k = "block"
    BY <1>3 DEF Block
  <2> HIDE DEF P
  <2> QED
    BY <1>3, <1>4, <2>1 DEF At, EndKinds, PopKinds
<1>6. agenda[1].k \notin EndKinds /\ agenda[1].k # "pop"
  BY <1>1 DEF EndKinds
<1>7. f = [cont |-> P[Len(P)].cont, brk |-> P[Len(P)].brk]
  BY <1>3
<1> HIDE DEF P, f, Item, Frame
<1>8. LoopsMatch(agenda', loops') /\ ScopesMatch(agenda', scope')
  <2>1. LoopsMatch(agenda, loops) /\ ScopesMatch(agenda, scope)
    BY DEF CfgInv
  <2>2. LoopsMatch(P \o Tail(agenda), Append(loops, f))
    BY <1>1, <1>3, <1>4, <1>5, <1>6, <1>7, <2>1, LoopsPushed
  <2>3. ScopesMatch(P \o Tail(agenda), scope')
    BY <1>1, <1>3, <1>5, <1>6, <2>1, ScopesKept
  <2> QED
    BY <1>2, <2>2, <2>3
<1>9. f.cont \in DOMAIN blocks' /\ f.brk \in DOMAIN blocks'
  <2>1. AgendaIds'
    BY ShapeKeeps DEF CfgInv
  <2>2. 2 \in DOMAIN agenda' /\ agenda'[2] = e
    BY <1>1, <1>2, <1>3, Spliced
  <2>3. Waits(e) \cup Jumps(e) \subseteq DOMAIN blocks'
    BY <2>1, <2>2 DEF AgendaIds, Waits, Jumps
  <2> QED
    BY <1>4, <2>3 DEF f
<1>10. /\ loops' \in Seq(Frame)
       /\ \A k \in DOMAIN loops' :
            loops'[k].cont \in DOMAIN blocks' /\ loops'[k].brk \in DOMAIN blocks'
  <2>1. /\ loops' \in Seq(Frame) /\ Len(loops') = Len(loops) + 1
        /\ \A i \in 1 .. Len(loops) : loops'[i] = loops[i]
        /\ loops'[Len(loops) + 1] = f
    BY <1>1, <1>2, <1>4, AppendProperties
  <2>2. DOMAIN loops' = 1 .. Len(loops) + 1 /\ DOMAIN loops = 1 .. Len(loops) /\ Len(loops) \in Nat
    BY <1>1, <2>1, LenProperties
  <2>3. \A k \in DOMAIN loops' : (k \in DOMAIN loops /\ loops'[k] = loops[k]) \/ loops'[k] = f
    BY <2>1, <2>2
  <2>4. DOMAIN blocks \subseteq DOMAIN blocks'
    BY DEF Shape
  <2> QED
    BY <1>9, <2>1, <2>3, <2>4, InvFacts
<1> QED
  BY <1>8, <1>10, Together

LEMMA WhileKeeps ==
  ASSUME CfgInv, LowerWhile
  PROVE  CfgInv' /\ \E P : Shape(P)
<1> DEFINE n == Len(blocks)
           e == [k |-> "end", cont |-> n + 1, brk |-> n + 3]
<1>1. /\ agenda # <<>> /\ S.k = "while" /\ EntersLoop(n + 1, n + 3, e)
      /\ UNCHANGED <<scope, nextLocal>>
  BY DEF LowerWhile, Next1, S
<1>2. \E P : Shape(P)
  BY WhileShape DEF CfgInv
<1>3. n \in Nat
  BY <1>1, HeadFacts DEF CfgInv
<1>4. e \in Item /\ e.k \in EndKinds /\ e.cont = n + 1 /\ e.brk = n + 3
  BY <1>3 DEF Item, LoopEnds, EndKinds
<1> HIDE DEF e, n, Item, Binding
<1>5. EntersLoop(e.cont, e.brk, e)
  BY <1>1, <1>4
<1>6. /\ scope' \in Seq(Binding) /\ Len(scope') = Len(scope)
      /\ nextLocal' \in Nat \ {0} /\ ScopesBelow(scope', nextLocal')
  BY <1>1, InvFacts
<1>7. CfgInv'
  BY <1>1, <1>2, <1>4, <1>5, <1>6, EnterKeeps
<1> QED
  BY <1>2, <1>7

(* The loop variable of a for, the last of the locals that it takes. *)
LEMMA LoopVariable ==
  ASSUME CfgInv, agenda # <<>>, S.k \in {"iter", "list"}, NEW d \in Nat,
         scope' = Bound(scope, S.name, nextLocal + d), nextLocal' = nextLocal + d + 1
  PROVE  /\ scope' \in Seq(Binding) /\ Len(scope') = Len(scope)
         /\ nextLocal' \in Nat \ {0} /\ ScopesBelow(scope', nextLocal')
<1>1. S.name \in Name
  BY HeadFacts, ItemKinds DEF CfgInv
<1>2. /\ nextLocal + d \in Nat /\ nextLocal + d + 1 \in Nat /\ nextLocal + d < nextLocal + d + 1
      /\ nextLocal' \in Nat \ {0}
  BY InvFacts
<1>3. ScopesBelow(scope, nextLocal + d + 1)
  BY InvFacts DEF ScopesBelow
<1>4. /\ Bound(scope, S.name, nextLocal + d) \in Seq(Binding)
      /\ Len(Bound(scope, S.name, nextLocal + d)) = Len(scope)
      /\ ScopesBelow(Bound(scope, S.name, nextLocal + d), nextLocal + d + 1)
  BY <1>1, <1>2, <1>3, InvFacts, BoundFacts
<1> QED
  BY <1>2, <1>4

LEMMA IterKeeps ==
  ASSUME CfgInv, LowerIter
  PROVE  CfgInv' /\ \E P : Shape(P)
<1> DEFINE n == Len(blocks)
           e == [k |-> "end", cont |-> n + 1, brk |-> n + 4]
<1>1. /\ agenda # <<>> /\ S.k = "iter" /\ EntersLoop(n + 1, n + 4, e)
      /\ scope' = Bound(scope, S.name, nextLocal + 2) /\ nextLocal' = nextLocal + 3
  BY DEF LowerIter, Next1, S
<1>2. \E P : Shape(P)
  BY IterShape DEF CfgInv
<1>3. n \in Nat
  BY <1>1, HeadFacts DEF CfgInv
<1>4. e \in Item /\ e.k \in EndKinds /\ e.cont = n + 1 /\ e.brk = n + 4
  BY <1>3 DEF Item, LoopEnds, EndKinds
<1> HIDE DEF e, n, Item, Binding
<1>5. EntersLoop(e.cont, e.brk, e)
  BY <1>1, <1>4
<1>6. /\ scope' \in Seq(Binding) /\ Len(scope') = Len(scope)
      /\ nextLocal' \in Nat \ {0} /\ ScopesBelow(scope', nextLocal')
  <2>1. nextLocal' = nextLocal + 2 + 1 /\ 2 \in Nat
    BY <1>1, InvFacts
  <2> QED
    BY <1>1, <2>1, LoopVariable
<1>7. CfgInv'
  BY <1>1, <1>2, <1>4, <1>5, <1>6, EnterKeeps
<1> QED
  BY <1>2, <1>7

LEMMA ListKeeps ==
  ASSUME CfgInv, LowerList
  PROVE  CfgInv' /\ \E P : Shape(P)
<1> DEFINE n == Len(blocks)
           e == EndsList(n, nextLocal)
<1>1. /\ agenda # <<>> /\ S.k = "list" /\ EntersLoop(n + 3, n + 4, e)
      /\ scope' = Bound(scope, S.name, nextLocal + 3) /\ nextLocal' = nextLocal + 4
  BY DEF LowerList, Next1, S
<1>2. \E P : Shape(P)
  BY ListShape DEF CfgInv
<1>3. n \in Nat /\ nextLocal \in Nat
  BY <1>1, HeadFacts, InvFacts DEF CfgInv
<1>4. e \in Item /\ e.k \in EndKinds /\ e.cont = n + 3 /\ e.brk = n + 4
  BY <1>3 DEF Item, ListEnds, EndKinds, EndsList
<1> HIDE DEF e, n, Item, Binding
<1>5. EntersLoop(e.cont, e.brk, e)
  BY <1>1, <1>4
<1>6. /\ scope' \in Seq(Binding) /\ Len(scope') = Len(scope)
      /\ nextLocal' \in Nat \ {0} /\ ScopesBelow(scope', nextLocal')
  <2>1. nextLocal' = nextLocal + 3 + 1 /\ 3 \in Nat
    BY <1>1, InvFacts
  <2> QED
    BY <1>1, <2>1, LoopVariable
<1>7. CfgInv'
  BY <1>1, <1>2, <1>4, <1>5, <1>6, EnterKeeps
<1> QED
  BY <1>2, <1>7

(* The end of a loop's body: its frame, the last, goes. *)
LEMMA EndKeeps ==
  ASSUME CfgInv, EndLoop \/ EndList
  PROVE  CfgInv' /\ \E P : Shape(P)
<1> DEFINE n == Len(loops) - 1
<1>1. /\ agenda # <<>> /\ S.k \in EndKinds /\ agenda' = Rest /\ loops' = SubSeq(loops, 1, n)
      /\ UNCHANGED <<scope, nextLocal>>
  BY DEF EndLoop, EndList, Next1, S, EndKinds
<1>2. Shape(<<>>)
  <2>1. CASE EndLoop
    <3>1. /\ blocks' = TerminateIfOpen(blocks, cur, Goto(S.cont)) /\ cur' = S.brk
          /\ S.k = "end"
      BY <2>1 DEF EndLoop, Next1, S
    <3>2. Waits(S) = {S.brk} /\ Jumps(S) = {S.cont}
      BY <3>1 DEF Waits, Jumps
    <3> HIDE DEF S
    <3> QED
      BY <1>1, <3>1, <3>2, CloseShape DEF CfgInv
  <2>2. CASE EndList
    BY <2>2, EndListShape DEF CfgInv
  <2> QED
    BY <2>1, <2>2
<1>3. /\ agenda \in Seq(Item) /\ agenda[1] = S /\ loops \in Seq(Frame)
      /\ Len(loops) \in Nat /\ DOMAIN loops = 1 .. Len(loops)
  BY <1>1, InvFacts, LenProperties
<1>4. /\ <<>> \in Seq(Item) /\ agenda' = <<>> \o Tail(agenda)
      /\ At(<<>>, EndKinds) = {} /\ At(<<>>, PopKinds) = {}
  BY <1>1, NoKinds DEF Rest
<1> HIDE DEF Item, Frame, Binding
<1>5. LoopsMatch(agenda', loops') /\ ScopesMatch(agenda', scope') /\ Len(loops) >= 1
  <2>1. LoopsMatch(agenda, loops) /\ ScopesMatch(agenda, scope) /\ agenda[1].k # "pop"
    BY <1>1, <1>3 DEF CfgInv, EndKinds
  <2>2. LoopsMatch(<<>> \o Tail(agenda), SubSeq(loops, 1, Len(loops) - 1)) /\ Len(loops) >= 1
    BY <1>1, <1>3, <2>1, LoopsPopped
  <2>3. ScopesMatch(<<>> \o Tail(agenda), scope')
    BY <1>1, <1>3, <1>4, <2>1, ScopesKept
  <2> QED
    BY <1>1, <1>4, <2>2, <2>3
<1>6. /\ loops' \in Seq(Frame) /\ Len(loops') = n /\ \A i \in 1 .. n : loops'[i] = loops[i]
  <2>1. 1 \in Int /\ n \in Int /\ \A i \in 1 .. n : loops[i] \in Frame
    BY <1>3, ElementOfSeq
  <2> HIDE DEF n
  <2>2. /\ SubSeq(loops, 1, n) \in Seq(Frame)
        /\ Len(SubSeq(loops, 1, n)) = IF 1 <= n THEN n - 1 + 1 ELSE 0
        /\ \A i \in 1 .. n - 1 + 1 : SubSeq(loops, 1, n)[i] = loops[1 + i - 1]
    BY <2>1, SubSeqProperties
  <2>3. n >= 0
    BY <1>3, <1>5 DEF n
  <2> QED
    BY <1>1, <2>1, <2>2, <2>3
<1>7. \A k \in DOMAIN loops' :
        loops'[k].cont \in DOMAIN blocks' /\ loops'[k].brk \in DOMAIN blocks'
  <2>1. DOMAIN loops' = 1 .. n /\ 1 .. n \subseteq DOMAIN loops
    BY <1>3, <1>6, LenProperties
  <2>2. DOMAIN blocks \subseteq DOMAIN blocks'
    BY <1>2 DEF Shape
  <2> QED
    BY <1>6, <2>1, <2>2, InvFacts
<1>8. /\ scope' \in Seq(Binding) /\ nextLocal' \in Nat \ {0} /\ ScopesBelow(scope', nextLocal')
  BY <1>1, InvFacts
<1>9. CfgInv'
  BY <1>2, <1>5, <1>6, <1>7, <1>8, Together
<1> QED
  BY <1>2, <1>9

(* The function's last block. *)
LEMMA FinishKeeps ==
  ASSUME CfgInv, FinishFunction
  PROVE  /\ CfgInv'
         /\ \A b \in DOMAIN blocks : ~ IsOpen(blocks, b) => blocks'[b] = blocks[b]
<1>1. /\ agenda = <<>> /\ IsOpen(blocks, cur) /\ blocks' = TerminateIfOpen(blocks, cur, Return(0))
      /\ agenda' = agenda /\ cur' = cur /\ scope' = scope /\ loops' = loops
      /\ nextLocal' = nextLocal
  BY DEF FinishFunction
<1>2. /\ AnyBlocks(blocks) /\ cur \in DOMAIN blocks
      /\ \A b \in DOMAIN blocks : Targets(blocks[b].term) \subseteq DOMAIN blocks
  BY DEF CfgInv, BlocksInv, Typed, TypeOK
<1>3. Return(0) # Unreachable /\ Targets(Return(0)) = {}
  BY Terminators
<1>4. /\ AnyBlocks(blocks') /\ DOMAIN blocks' = DOMAIN blocks
      /\ blocks'[cur].term = Return(0)
      /\ \A c \in DOMAIN blocks : c # cur => blocks'[c] = blocks[c]
  BY <1>1, <1>2, <1>3, IfOpenFacts
<1>5. DOMAIN agenda = {}
  BY <1>1
<1>6. Typed'
  BY <1>1, <1>4 DEF CfgInv, BlocksInv, Typed, AnyBlocks
<1>7. TypeOK'
  <2>1. \A b \in DOMAIN blocks' : Targets(blocks'[b].term) \subseteq DOMAIN blocks'
    BY <1>2, <1>3, <1>4
  <2> QED
    BY <1>1, <1>2, <1>4, <2>1, InvFacts DEF TypeOK, ScopesBelow, Targets
<1>8. AgendaIds'
  BY <1>1, <1>5 DEF AgendaIds
<1>9. Pending'
  BY <1>1, <1>5 DEF Pending
<1>10. Unsealed'
  <2>1. \A b \in DOMAIN blocks : IsOpen(blocks, b) => b = cur
    BY <1>5 DEF CfgInv, BlocksInv, Unsealed
  <2> QED
    BY <1>1, <1>4, <2>1 DEF Unsealed, IsOpen
<1>11. LoopsMatch(agenda, loops)' /\ ScopesMatch(agenda, scope)'
  BY <1>1 DEF CfgInv, LoopsMatch, ScopesMatch, At, From
<1>12. \A b \in DOMAIN blocks : ~ IsOpen(blocks, b) => blocks'[b] = blocks[b]
  BY <1>1, <1>4
<1> QED
  BY <1>6, <1>7, <1>8, <1>9, <1>10, <1>11, <1>12 DEF CfgInv, BlocksInv

LEMMA InitCfg == Init => CfgInv
<1> SUFFICES ASSUME Init
             PROVE  CfgInv
  OBVIOUS
<1>1. PICK b \in Bodies : agenda = <<Block(b)>>
  BY DEF Init, Block
<1>2. /\ blocks = <<Open>> /\ cur = 1 /\ scope = <<[x \in {Param} |-> 0]>> /\ loops = <<>>
      /\ nextLocal = 1
  BY DEF Init
<1>3. b \in Seq(Stmt) /\ Block(b) \in Item /\ Waits(Block(b)) = {} /\ Jumps(Block(b)) = {}
  BY BodiesAssumption, Nested
<1>4. agenda \in Seq(Item) /\ DOMAIN agenda = {1} /\ agenda[1] = Block(b)
  <2> HIDE DEF Item
  <2> QED
    BY <1>1, <1>3
<1>5. DOMAIN blocks = {1} /\ blocks[1].term = Unreachable /\ AnyBlocks(blocks)
  <2>1. <<Open>> \in Seq([stmts : {<<>>}, term : {Unreachable}])
    <3>1. Open \in [stmts : {<<>>}, term : {Unreachable}]
      BY DEF Open
    <3> QED
      BY <3>1
  <2>2. DOMAIN blocks = {1} /\ blocks[1] = Open
    BY <1>2
  <2> QED
    BY <1>2, <2>1, <2>2 DEF AnyBlocks, Open
<1>6. scope \in Seq(Binding) /\ Len(scope) = 1 /\ ScopesBelow(scope, nextLocal)
  <2> DEFINE f == [x \in {Param} |-> 0]
  <2>1. f \in [{Param} -> Nat] /\ {Param} \in SUBSET Name
    BY BodiesAssumption
  <2>2. f \in Binding /\ DOMAIN f = {Param} /\ f[Param] = 0
    BY <2>1 DEF Binding
  <2>3. scope = <<f>>
    BY <1>2
  <2> HIDE DEF f, Binding
  <2>4. scope \in Seq(Binding) /\ DOMAIN scope = {1} /\ scope[1] = f /\ Len(scope) = 1
    BY <2>2, <2>3
  <2> QED
    BY <1>2, <2>2, <2>4, BodiesAssumption DEF ScopesBelow
<1>7. loops \in Seq(Frame) /\ DOMAIN loops = {} /\ Len(loops) = 0
  BY <1>2
<1>8. Typed
  BY <1>2, <1>4, <1>5, <1>6, <1>7 DEF Typed
<1>9. TypeOK
  BY <1>2, <1>5, <1>6, <1>7, Terminators DEF TypeOK, ScopesBelow
<1>10. AgendaIds /\ Pending /\ Unsealed
  BY <1>2, <1>3, <1>4, <1>5 DEF AgendaIds, Pending, Unsealed, IsOpen
<1>11. At(agenda, EndKinds) = {} /\ At(agenda, PopKinds) = {}
  BY <1>4 DEF At, Block, EndKinds, PopKinds
<1>12. LoopsMatch(agenda, loops) /\ ScopesMatch(agenda, scope)
  BY <1>6, <1>7, <1>11, FS_EmptySet DEF LoopsMatch, ScopesMatch
<1> QED
  BY <1>8, <1>9, <1>10, <1>12 DEF CfgInv, BlocksInv

LEMMA LowerKeeps ==
  ASSUME CfgInv, LowerStmt
  PROVE  CfgInv' /\ \E P : Shape(P)
<1>1. CASE LowerAct
  <2>1. /\ agenda # <<>> /\ S.k \in {"act", "drop", "use", "assign"}
        /\ UNCHANGED <<scope, nextLocal>>
    BY <1>1 DEF LowerAct, Next1, S
  <2>2. \E s : Pushes(s)
    BY <1>1 DEF LowerAct
  <2> QED
    BY <2>1, <2>2, PushKeeps
<1>2. CASE LowerUse
  <2>1. /\ agenda # <<>> /\ S.k \in {"act", "drop", "use", "assign"}
        /\ UNCHANGED <<scope, nextLocal>>
    BY <1>2 DEF LowerUse, Next1, S
  <2>2. \E s : Pushes(s)
    BY <1>2 DEF LowerUse
  <2> QED
    BY <2>1, <2>2, PushKeeps
<1>3. CASE LowerAssign
  <2>1. /\ agenda # <<>> /\ S.k \in {"act", "drop", "use", "assign"}
        /\ UNCHANGED <<scope, nextLocal>>
    BY <1>3 DEF LowerAssign, Next1, S
  <2>2. \E s : Pushes(s)
    BY <1>3 DEF LowerAssign
  <2> QED
    BY <2>1, <2>2, PushKeeps
<1>4. CASE LowerVar
  BY <1>4, VarKeeps
<1>5. CASE LowerReturn \/ LowerBreak \/ LowerContinue
  BY <1>5, LeaveKeeps
<1>6. CASE LowerBlock
  BY <1>6, BlockKeeps
<1>7. CASE EndBlock
  BY <1>7, PopKeeps
<1>8. CASE LowerIf
  BY <1>8, IfKeeps
<1>9. CASE EndArm
  BY <1>9, ArmKeeps
<1>10. CASE LowerWhile
  BY <1>10, WhileKeeps
<1>11. CASE LowerIter
  BY <1>11, IterKeeps
<1>12. CASE LowerList
  BY <1>12, ListKeeps
<1>13. CASE EndLoop \/ EndList
  BY <1>13, EndKeeps
<1> QED
  BY <1>1, <1>2, <1>3, <1>4, <1>5, <1>6, <1>7, <1>8, <1>9, <1>10, <1>11, <1>12, <1>13
  DEF LowerStmt

LEMMA NextCfg ==
  ASSUME CfgInv, Next
  PROVE  /\ CfgInv'
         /\ \A b \in DOMAIN blocks : ~ IsOpen(blocks, b) => blocks'[b] = blocks[b]
<1>1. CASE LowerStmt
  <2>1. CfgInv'
    BY <1>1, LowerKeeps
  <2>2. PICK P : Shape(P)
    BY <1>1, LowerKeeps
  <2>3. BlocksInv
    BY DEF CfgInv
  <2> QED
    BY <2>1, <2>2, <2>3, ShapeKeeps
<1>2. CASE FinishFunction
  BY <1>2, FinishKeeps
<1> QED
  BY <1>1, <1>2 DEF Next

LEMMA StutterCfg ==
  ASSUME CfgInv, UNCHANGED vars
  PROVE  CfgInv'
<1>1. /\ agenda' = agenda /\ blocks' = blocks /\ cur' = cur /\ scope' = scope /\ loops' = loops
      /\ nextLocal' = nextLocal
  BY DEF vars
<1>2. Typed' /\ TypeOK'
  BY <1>1 DEF CfgInv, BlocksInv, Typed, AnyBlocks, TypeOK, Targets
<1>3. AgendaIds' /\ Pending' /\ Unsealed'
  <2>1. AgendaIds /\ Pending /\ Unsealed
    BY DEF CfgInv, BlocksInv
  <2>2. AgendaIds'
    BY <1>1, <2>1 DEF AgendaIds
  <2>3. Pending'
    BY <1>1, <2>1 DEF Pending
  <2>4. Unsealed'
    BY <1>1, <2>1 DEF Unsealed
  <2> QED
    BY <2>2, <2>3, <2>4
<1>4. LoopsMatch(agenda, loops)' /\ ScopesMatch(agenda, scope)'
  BY <1>1 DEF CfgInv, LoopsMatch, ScopesMatch, At, From
<1> QED
  BY <1>2, <1>3, <1>4 DEF CfgInv, BlocksInv

LEMMA AlwaysCfg == Spec => []CfgInv
<1>1. CfgInv /\ [Next]_vars => CfgInv'
  BY NextCfg, StutterCfg
<1> QED
  BY <1>1, InitCfg, PTL DEF Spec

-----------------------------------------------------------------------------
(* The block that is written to exists, so does each target of a terminator    *)
(* and each block that a jump out of a loop would go to, and every name in      *)
(* scope has a local that has been given out: lower_function can index          *)
(* FnBuilder.blocks without a check.                                         *)
THEOREM TypeCorrect == Spec => []TypeOK
<1>1. CfgInv => TypeOK
  BY DEF CfgInv, BlocksInv
<1> QED
  BY <1>1, AlwaysCfg, PTL

(* Each block gets its terminator, the dead ones after a jump too: when        *)
(* lower_function is through, no placeholder is left that codegen would turn    *)
(* into a trap, whatever the body.                                           *)
THEOREM EveryBlockSealed == Spec => []AllSealed
<1>1. CfgInv => AllSealed
  <2> SUFFICES ASSUME CfgInv, Done, NEW b \in DOMAIN blocks, IsOpen(blocks, b)
               PROVE  FALSE
    BY DEF AllSealed
  <2>1. agenda = <<>> /\ ~ IsOpen(blocks, cur)
    BY DEF Done
  <2>2. DOMAIN agenda = {}
    BY <2>1
  <2> QED
    BY <2>1, <2>2 DEF CfgInv, BlocksInv, Unsealed
<1> QED
  BY <1>1, AlwaysCfg, PTL

(* loop_stack and the scopes are those of the loops and blocks around the       *)
(* statement that is being lowered, so break and continue find the innermost    *)
(* loop and a lookup the innermost block, however deep the nesting.            *)
THEOREM FramesMatch == Spec => []StacksMatch
<1>1. CfgInv => StacksMatch
  BY Matching DEF CfgInv
<1> QED
  BY <1>1, AlwaysCfg, PTL

(* terminate() never overwrites a terminator, and nothing is pushed behind     *)
(* one: every write of the lowering goes to a block that is still open.        *)
THEOREM SealedForGood == Spec => TerminatorsAreFinal
<1>1. CfgInv /\ [Next]_vars =>
        [\A b \in DOMAIN blocks : ~ IsOpen(blocks, b) => blocks'[b] = blocks[b]]_vars
  BY NextCfg
<1> QED
  BY <1>1, AlwaysCfg, PTL DEF Spec, TerminatorsAreFinal
=============================================================================
