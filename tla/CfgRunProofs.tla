------------------------------ MODULE CfgRunProofs -------------------------------
(***************************************************************************)
(* The blocks do what the statements say, for every body: the code of a point   *)
(* is executed by the machine, its continuation by the statements, and at each  *)
(* step the two remain matched in the sense of CfgMatch.  The parts are the    *)
(* scopes around an item, the head of a continuation taken off or put in      *)
(* front, jumps, the silent steps of the statements and of the machine, and    *)
(* the events that both show.                                               *)
(***************************************************************************)
EXTENDS CfgMatch, CfgPointsProofs, WellFoundedInduction

(***************************************************************************)
(* How many scopes of the statements are around an item.                     *)
(***************************************************************************)
ScopedIn(c, k) == {j \in 1 .. k : Back(c, j).k \in PopLike}

LEMMA ScopedFinite ==
  ASSUME NEW c, NEW k \in Nat
  PROVE  /\ IsFiniteSet(ScopedIn(c, k)) /\ ScopedIn(c, k) \subseteq 1 .. k
         /\ Cardinality(ScopedIn(c, k)) \in Nat /\ Depth(c, k) = 1 + Cardinality(ScopedIn(c, k))
<1>1. ScopedIn(c, k) \in SUBSET (1 .. k) /\ IsFiniteSet(1 .. k)
  BY FS_Interval DEF ScopedIn
<1>2. IsFiniteSet(ScopedIn(c, k)) /\ Cardinality(ScopedIn(c, k)) \in Nat
  BY <1>1, FS_Subset, FS_CardinalityType
<1> QED
  BY <1>1, <1>2 DEF Depth, ScopedIn

LEMMA DepthStep ==
  ASSUME NEW c
  PROVE  /\ Depth(c, 0) = 1
         /\ \A k \in Nat : Depth(c, k) \in Nat \ {0}
         /\ \A k \in Nat \ {0} : Depth(c, k) = IF Back(c, k).k \in PopLike THEN Depth(c, k - 1) + 1
                                               ELSE Depth(c, k - 1)
<1>1. ASSUME NEW k \in Nat
      PROVE  Depth(c, k) \in Nat \ {0}
  BY ScopedFinite
<1>2. Depth(c, 0) = 1
  <2>1. ScopedIn(c, 0) = {}
    BY DEF ScopedIn
  <2> QED
    BY <2>1, ScopedFinite, FS_EmptySet
<1>3. ASSUME NEW k \in Nat \ {0}
      PROVE  Depth(c, k) = IF Back(c, k).k \in PopLike THEN Depth(c, k - 1) + 1 ELSE Depth(c, k - 1)
  <2>0. PICK m \in Nat : m = k - 1
    BY <1>3
  <2> DEFINE A == ScopedIn(c, m)
  <2>1. /\ IsFiniteSet(A) /\ Cardinality(A) \in Nat /\ A \subseteq 1 .. m /\ k \notin A
        /\ Depth(c, m) = 1 + Cardinality(A) /\ Depth(c, k) = 1 + Cardinality(ScopedIn(c, k))
    <3>1. /\ IsFiniteSet(A) /\ Cardinality(A) \in Nat /\ A \subseteq 1 .. m
          /\ Depth(c, m) = 1 + Cardinality(A) /\ Depth(c, k) = 1 + Cardinality(ScopedIn(c, k))
      BY ScopedFinite
    <3> QED
      BY <3>1, <2>0
  <2>2. ScopedIn(c, k) = IF Back(c, k).k \in PopLike THEN A \cup {k} ELSE A
    <3>1. \A j \in 1 .. k : j \in 1 .. m \/ j = k
      BY <2>0
    <3>2. \A j \in 1 .. m : j \in 1 .. k
      BY <2>0
    <3>3. k \in 1 .. k
      BY <1>3
    <3> QED
      BY <3>1, <3>2, <3>3 DEF ScopedIn
  <2> HIDE DEF A
  <2>3. Cardinality(A \cup {k}) = Cardinality(A) + 1
    BY <2>1, FS_AddElement
  <2> QED
    BY <2>0, <2>1, <2>2, <2>3
<1> QED
  BY <1>1, <1>2, <1>3

LEMMA DepthOrder ==
  ASSUME NEW c, NEW k \in Nat, NEW j \in 0 .. k
  PROVE  /\ Depth(c, j) <= Depth(c, k)
         /\ \A i \in j + 1 .. k : Back(c, i).k \in PopLike => Depth(c, j) < Depth(c, k)
<1> DEFINE A == ScopedIn(c, j)
           B == ScopedIn(c, k)
<1>1. /\ IsFiniteSet(A) /\ Cardinality(A) \in Nat /\ IsFiniteSet(B) /\ Cardinality(B) \in Nat
      /\ Depth(c, j) = 1 + Cardinality(A) /\ Depth(c, k) = 1 + Cardinality(B) /\ A \subseteq 1 .. j
  BY ScopedFinite
<1>2. A \in SUBSET B
  BY DEF ScopedIn
<1> HIDE DEF A, B
<1>3. Cardinality(A) <= Cardinality(B)
  BY <1>1, <1>2, FS_Subset
<1>4. ASSUME NEW i \in j + 1 .. k, Back(c, i).k \in PopLike
      PROVE  Cardinality(A) < Cardinality(B)
  <2>1. i \in B /\ i \notin A
    BY <1>1, <1>4 DEF ScopedIn, B
  <2>2. A # B
    BY <2>1
  <2>3. Cardinality(A) # Cardinality(B)
    BY <1>1, <1>2, <2>2, FS_Subset
  <2> QED
    BY <1>1, <1>3, <2>3
<1> QED
  BY <1>1, <1>3, <1>4

LEMMA DepthSame ==
  ASSUME NEW c, NEW d, NEW k \in Nat, \A j \in 1 .. k : Back(c, j) = Back(d, j)
  PROVE  Depth(c, k) = Depth(d, k)
<1>1. ScopedIn(c, k) = ScopedIn(d, k)
  BY DEF ScopedIn
<1> QED
  BY <1>1, ScopedFinite

(* The scopes that go with the first m items. *)
LEMMA DepthCount ==
  ASSUME NEW c, NEW td, AnySeq(c), AnySeq(td), Len(td) = Len(c), NEW m \in 0 .. Len(c),
         \A k \in 1 .. Len(c) : Back(td, k).k = "pop" <=> Back(c, k).k \in PopLike
  PROVE  Depth(c, Len(c)) - Cardinality({j \in 1 .. m : td[j].k = "pop"}) = Depth(c, Len(c) - m)
<1>1. PICK L \in Nat : L = Len(c) /\ Len(td) = L
  BY AnyFacts
<1>2. PICK q \in 0 .. L : q = L - m
  <2>1. L - m \in 0 .. L
    BY <1>1
  <2> QED
    BY <2>1
<1> DEFINE A == ScopedIn(c, L)
           B == ScopedIn(c, q)
           X == {j \in 1 .. m : td[j].k = "pop"}
           f == [j \in X |-> L + 1 - j]
<1>3. /\ IsFiniteSet(A) /\ Cardinality(A) \in Nat /\ IsFiniteSet(B) /\ Cardinality(B) \in Nat
      /\ Depth(c, L) = 1 + Cardinality(A) /\ Depth(c, q) = 1 + Cardinality(B)
  BY ScopedFinite
<1>4. B \in SUBSET A
  BY <1>2 DEF ScopedIn
<1>5. ASSUME NEW j \in 1 .. m
      PROVE  L + 1 - j \in 1 .. L /\ (td[j].k = "pop" <=> Back(c, L + 1 - j).k \in PopLike)
  <2>1. j \in 1 .. L /\ L + 1 - j \in 1 .. L
    BY <1>1, <1>5
  <2>2. td[j] = Back(td, L + 1 - j)
    BY <1>1, <2>1, AnyFacts
  <2> QED
    BY <1>1, <2>1, <2>2
<1>6. f \in [X -> A \ B]
  <2>1. ASSUME NEW j \in X
        PROVE  L + 1 - j \in A \ B
    <3>1. j \in 1 .. m /\ td[j].k = "pop"
      OBVIOUS
    <3>2. L + 1 - j \in A
      BY <3>1, <1>5 DEF ScopedIn
    <3>3. L + 1 - j \notin 1 .. q
      BY <3>1, <1>1, <1>2
    <3> QED
      BY <3>2, <3>3 DEF ScopedIn
  <2> QED
    BY <2>1
<1>7. \A i, j \in X : f[i] = f[j] => i = j
  OBVIOUS
<1>8. ASSUME NEW y \in A \ B
      PROVE  \E j \in X : f[j] = y
  <2>1. y \in 1 .. L /\ Back(c, y).k \in PopLike
    BY DEF ScopedIn
  <2>2. y \notin 1 .. q
    BY <2>1 DEF ScopedIn
  <2>3. PICK j : j = L + 1 - y
    OBVIOUS
  <2>4. L + 1 - j = y /\ j \in 1 .. m
    BY <1>1, <1>2, <2>1, <2>2, <2>3
  <2>5. j \in X
    BY <1>5, <2>1, <2>4
  <2> QED
    BY <2>4, <2>5
<1> HIDE DEF A, B, X, f
<1>9. IsFiniteSet(A \ B) /\ Cardinality(A \ B) = Cardinality(A) - Cardinality(B)
  <2>1. IsFiniteSet(A \ B)
    BY <1>3, FS_Difference
  <2>2. A \cap B = B
    BY <1>4
  <2> QED
    <3>1. Cardinality(A \ B) = Cardinality(A) - Cardinality(A \cap B)
      BY <1>3, FS_Difference
    <3> QED
      BY <2>1, <2>2, <3>1
<1>10. f \in Bijection(X, A \ B)
  BY <1>6, <1>7, <1>8, Fun_IsBij
<1>11. Cardinality(X) = Cardinality(A \ B)
  <2>1. IsFiniteSet(X)
    <3>1. X \in SUBSET (1 .. m)
      BY DEF X
    <3>2. IsFiniteSet(1 .. m)
      BY FS_Interval
    <3> QED
      BY <3>1, <3>2, FS_Subset
  <2>2. ExistsBijection(X, A \ B)
    BY <1>10 DEF ExistsBijection
  <2> QED
    BY <1>9, <2>1, <2>2, FS_Bijection
<1> QED
  BY <1>1, <1>2, <1>3, <1>9, <1>11 DEF X
(***************************************************************************)
(* What stands for what.                                                     *)
(***************************************************************************)
CodeKinds == {"act", "use", "drop", "var", "assign", "return", "break", "continue",
              "while", "block", "if", "list", "iter"}

LEMMA CodeFacts ==
  ASSUME NEW x, IsCode(x)
  PROVE  /\ x.k \in CodeKinds /\ x.k \notin PopLike \cup Micro \cup {"again"} /\ Reserves(x) = {}
         /\ x.k # "block" => x \in Stmt
         /\ x.k \in {"use", "assign", "var", "list", "iter"} => x.name \in Name
         /\ x.k \in {"var", "assign", "act", "return"} => x.val \in Nat
         /\ x.k \in {"while", "block", "if", "list", "iter"} => x.body \in Seq(Stmt)
         /\ x.k = "if" => x.else \in Seq(Stmt)
<1>1. CASE x \in Stmt
  <2>1. x.k \in CodeKinds
    BY <1>1, StmtAssumption DEF CodeKinds
  <2>2. x.k \notin PopLike \cup Micro \cup {"again"}
    BY <2>1 DEF CodeKinds, PopLike, Micro
  <2>3. Reserves(x) = {}
    BY <2>2 DEF Reserves
  <2>4. x.k \in {"use", "assign", "var", "list", "iter"} => x.name \in Name
    BY <1>1, StmtAssumption
  <2>5. x.k \in {"var", "assign", "act", "return"} => x.val \in Nat
    BY <1>1, StmtAssumption
  <2>6. x.k \in {"while", "block", "if", "list", "iter"} => x.body \in Seq(Stmt)
    BY <1>1, StmtAssumption
  <2>7. x.k = "if" => x.else \in Seq(Stmt)
    BY <1>1, StmtAssumption
  <2> QED
    BY <1>1, <2>1, <2>2, <2>3, <2>4, <2>5, <2>6, <2>7
<1>2. CASE x.k = "block" /\ x.body \in Seq(Stmt)
  <2>1. Reserves(x) = {}
    BY <1>2 DEF Reserves, Micro
  <2> QED
    BY <1>2, <2>1 DEF CodeKinds, PopLike, Micro
<1> QED
  BY <1>1, <1>2 DEF IsCode

LEMMA BlockIsCode == ASSUME NEW b \in Seq(Stmt) PROVE IsCode(Block(b)) /\ Block(b).k = "block" /\ Block(b).body = b
<1>1. PICK x : x = Block(b)
  OBVIOUS
<1>2. x.k = "block" /\ x.body = b
  BY <1>1 DEF Block
<1> QED
  BY <1>1, <1>2 DEF IsCode

LEMMA LoopTurn ==
  ASSUME NEW x, NEW y, NEW st, NEW n, LoopMatch(x, y, st, n)
  PROVE  y.k = "again" /\ y.k # "pop"
<1>1. CASE x.stmt.k = "while"
  <2>1. y = Again(x.stmt)
    BY <1>1 DEF LoopMatch
  <2> QED
    BY <2>1 DEF Again
<1>2. CASE x.stmt.k \in ForKinds
  BY <1>2 DEF LoopMatch, IsRound
<1> QED
  BY <1>1, <1>2 DEF LoopMatch, LoopKind, ForKinds

LEMMA StageTurn ==
  ASSUME NEW x, NEW y, NEW st, NEW n, StageMatch(x, y, st, n)
  PROVE  y.k \in ForKinds \cup {"again"} /\ y.k # "pop"
<1>1. x.loop.stmt.k \in ForKinds /\ (y = x.loop.stmt \/ IsRound(x.loop.stmt, y))
  BY DEF StageMatch
<1>2. y.k \in ForKinds \cup {"again"}
  BY <1>1 DEF IsRound
<1> QED
  BY <1>2 DEF ForKinds

LEMMA ItemTurn ==
  ASSUME NEW x, NEW y, NEW st, NEW n, ItemMatch(x, y, st, n)
  PROVE  /\ x.k \in PopLike => y = Pop
         /\ x.k = "again" => LoopMatch(x, y, st, n) /\ y.k = "again"
         /\ x.k \in Micro => StageMatch(x, y, st, n)
         /\ x.k \notin PopLike \cup Micro \cup {"again"} => IsCode(x) /\ y = x
         /\ y.k = "pop" <=> x.k \in PopLike
         /\ x.k \notin Micro => (y.k = "again" <=> x.k = "again")
<1>0. \A z : z \in PopLike => z \notin Micro \cup {"again"} /\ (z \in Micro => z # "again")
  BY DEF PopLike, Micro
<1>00. "again" \notin Micro /\ "again" \notin PopLike /\ "again" # "pop"
  BY DEF Micro, PopLike
<1>1. CASE x.k \in PopLike /\ y = Pop
  <2>1. y.k = "pop" /\ y.k # "again"
    BY <1>1 DEF Pop
  <2> QED
    BY <1>0, <1>1, <2>1
<1>2. CASE x.k = "again" /\ LoopMatch(x, y, st, n)
  <2>1. y.k = "again"
    BY <1>2, LoopTurn
  <2> QED
    BY <1>00, <1>2, <2>1
<1>3. CASE x.k \in Micro /\ StageMatch(x, y, st, n)
  <2>1. y.k # "pop"
    BY <1>3, StageTurn
  <2> QED
    BY <1>0, <1>00, <1>3, <2>1
<1>4. CASE IsCode(x) /\ y = x
  <2>1. x.k \notin PopLike \cup Micro \cup {"again"}
    BY <1>4, CodeFacts
  <2>2. "pop" \in PopLike
    BY DEF PopLike
  <2> QED
    BY <1>4, <2>1, <2>2
<1> QED
  BY <1>1, <1>2, <1>3, <1>4 DEF ItemMatch

LEMMA ItemsFacts ==
  ASSUME NEW c, NEW td, NEW st, NEW n, ItemsMatch(c, td, st, n)
  PROVE  /\ AnySeq(c) /\ AnySeq(td) /\ Len(td) = Len(c) /\ Len(c) \in Nat
         /\ \A k \in 1 .. Len(c) : ItemMatch(Back(c, k), Back(td, k), st, n)
         /\ \A k \in 1 .. Len(c) : Back(td, k).k = "pop" <=> Back(c, k).k \in PopLike
<1>1. /\ AnySeq(c) /\ AnySeq(td) /\ Len(td) = Len(c) /\ Len(c) \in Nat
      /\ \A k \in 1 .. Len(c) : ItemMatch(Back(c, k), Back(td, k), st, n)
  BY AnyFacts DEF ItemsMatch
<1>2. ASSUME NEW k \in 1 .. Len(c)
      PROVE  Back(td, k).k = "pop" <=> Back(c, k).k \in PopLike
  <2>1. ItemMatch(Back(c, k), Back(td, k), st, n)
    BY <1>1
  <2> QED
    BY <2>1, ItemTurn
<1> QED
  BY <1>1, <1>2

LEMMA ItemsBy ==
  ASSUME NEW c, NEW td, NEW st, NEW n, AnySeq(c), AnySeq(td), Len(td) = Len(c),
         \A k \in 1 .. Len(c) : ItemMatch(Back(c, k), Back(td, k), st, n)
  PROVE  ItemsMatch(c, td, st, n)
BY DEF ItemsMatch

LEMMA ItemsDrop ==
  ASSUME NEW c, NEW td, NEW st, NEW n, ItemsMatch(c, td, st, n), NEW m \in 0 .. Len(c)
  PROVE  ItemsMatch(Last(c, m), Last(td, m), st, n)
<1>1. /\ AnySeq(c) /\ AnySeq(td) /\ Len(td) = Len(c) /\ Len(c) \in Nat
      /\ \A k \in 1 .. Len(c) : ItemMatch(Back(c, k), Back(td, k), st, n)
  BY ItemsFacts
<1>2. /\ AnySeq(Last(c, m)) /\ Len(Last(c, m)) = m
      /\ \A k \in 1 .. m : Back(Last(c, m), k) = Back(c, k)
  BY <1>1, LastFacts
<1>3. /\ AnySeq(Last(td, m)) /\ Len(Last(td, m)) = m
      /\ \A k \in 1 .. m : Back(Last(td, m), k) = Back(td, k)
  BY <1>1, LastFacts
<1>4. ASSUME NEW k \in 1 .. m
      PROVE  ItemMatch(Back(Last(c, m), k), Back(Last(td, m), k), st, n)
  <2>1. k \in 1 .. Len(c)
    BY <1>1
  <2> QED
    BY <1>1, <1>2, <1>3, <2>1
<1> QED
  BY <1>2, <1>3, <1>4, ItemsBy

LEMMA ItemsCat ==
  ASSUME NEW b, NEW d, NEW c, NEW td, NEW st, NEW n, ItemsMatch(b, d, st, n), ItemsMatch(c, td, st, n)
  PROVE  ItemsMatch(b \o c, d \o td, st, n)
<1>1. /\ AnySeq(c) /\ AnySeq(td) /\ Len(td) = Len(c) /\ Len(c) \in Nat
      /\ \A k \in 1 .. Len(c) : ItemMatch(Back(c, k), Back(td, k), st, n)
  BY ItemsFacts
<1>2. /\ AnySeq(b) /\ AnySeq(d) /\ Len(d) = Len(b) /\ Len(b) \in Nat
      /\ \A k \in 1 .. Len(b) : ItemMatch(Back(b, k), Back(d, k), st, n)
  BY ItemsFacts
<1>3. /\ AnySeq(b \o c) /\ Len(b \o c) = Len(b) + Len(c)
      /\ \A k \in 1 .. Len(c) : Back(b \o c, k) = Back(c, k)
      /\ \A k \in 1 .. Len(b) : Back(b \o c, Len(c) + k) = Back(b, k)
  BY <1>1, <1>2, CatFacts
<1>4. /\ AnySeq(d \o td) /\ Len(d \o td) = Len(d) + Len(td)
      /\ \A k \in 1 .. Len(td) : Back(d \o td, k) = Back(td, k)
      /\ \A k \in 1 .. Len(d) : Back(d \o td, Len(td) + k) = Back(d, k)
  BY <1>1, <1>2, CatFacts
<1>5. PICK u, v, L, M : u = b \o c /\ v = d \o td /\ L = Len(c) /\ M = Len(b)
  OBVIOUS
<1>6. ASSUME NEW k \in 1 .. L + M
      PROVE  ItemMatch(Back(u, k), Back(v, k), st, n)
  <2>1. CASE k \in 1 .. L
    BY <2>1, <1>1, <1>3, <1>4, <1>5
  <2>2. CASE k \notin 1 .. L
    <3>1. PICK j : j = k - L
      OBVIOUS
    <3>2. j \in 1 .. M /\ k = L + j
      BY <1>1, <1>2, <1>5, <2>2, <3>1
    <3>3. Back(u, k) = Back(b, j) /\ Back(v, k) = Back(d, j)
      BY <1>1, <1>2, <1>3, <1>4, <1>5, <3>2
    <3> QED
      BY <1>2, <1>5, <3>2, <3>3
  <2> QED
    BY <2>1, <2>2
<1>7. Len(u) = L + M /\ Len(v) = L + M
  BY <1>1, <1>2, <1>3, <1>4, <1>5
<1>8. ItemsMatch(u, v, st, n)
  BY <1>3, <1>4, <1>5, <1>6, <1>7, ItemsBy
<1> QED
  BY <1>5, <1>8

LEMMA ItemsOne ==
  ASSUME NEW x, NEW y, NEW st, NEW n, ItemMatch(x, y, st, n)
  PROVE  ItemsMatch(<<x>>, <<y>>, st, n)
<1>1. AnySeq(<<x>>) /\ AnySeq(<<y>>) /\ Len(<<x>>) = 1 /\ Len(<<y>>) = 1
  BY OneItem
<1>2. Back(<<x>>, 1) = x /\ Back(<<y>>, 1) = y
  BY OneItem DEF Back
<1>3. \A k \in 1 .. 1 : k = 1
  OBVIOUS
<1> QED
  BY <1>1, <1>2, <1>3, ItemsBy

LEMMA ItemsCode ==
  ASSUME NEW b \in Seq(Stmt), NEW st, NEW n
  PROVE  ItemsMatch(b, b, st, n) /\ AnySeq(b) /\ \A k \in 1 .. Len(b) : IsCode(Back(b, k))
<1>1. AnySeq(b)
  BY DEF AnySeq
<1>2. ASSUME NEW k \in 1 .. Len(b)
      PROVE  IsCode(Back(b, k))
  <2>1. Len(b) + 1 - k \in 1 .. Len(b)
    BY LenProperties
  <2>2. b[Len(b) + 1 - k] \in Stmt
    BY <2>1, ElementOfSeq
  <2> QED
    BY <2>2 DEF Back, IsCode
<1>3. \A k \in 1 .. Len(b) : ItemMatch(Back(b, k), Back(b, k), st, n)
  BY <1>2 DEF ItemMatch
<1> QED
  BY <1>1, <1>2, <1>3, ItemsBy
(***************************************************************************)
(* The last m items, with the scopes they are in.                            *)
(***************************************************************************)
LEMMA LevelFacts ==
  ASSUME NEW c, NEW sc, NEW en, NEW Lv, AnySeq(c), Levels(c, sc, en, Lv)
  PROVE  /\ AnySeq(sc) /\ AnySeq(en) /\ AnySeq(Lv) /\ Len(sc) \in Nat \ {0} /\ Len(en) \in Nat \ {0}
         /\ Len(Lv) = Len(en) /\ Len(en) = Depth(c, Len(c)) /\ Len(c) \in Nat
         /\ \A k \in 0 .. Len(c) : Depth(c, k) \in 1 .. Len(en)
         /\ \A j \in 1 .. Len(en) : Lv[j] \in 1 .. Len(sc)
         /\ Lv[Len(en)] = Len(sc)
         /\ \A j \in 1 .. Len(en) : \A i \in 1 .. j : Lv[i] <= Lv[j]
<1>1. /\ AnySeq(sc) /\ AnySeq(en) /\ AnySeq(Lv) /\ Len(Lv) = Len(en) /\ Len(en) = Depth(c, Len(c))
      /\ \A j \in 1 .. Len(en) : Lv[j] \in 1 .. Len(sc)
      /\ Lv[Len(en)] = Len(sc)
      /\ \A j \in 1 .. Len(en) : \A i \in 1 .. j : Lv[i] <= Lv[j]
  BY DEF Levels
<1>2. Len(c) \in Nat /\ Len(sc) \in Nat
  BY <1>1, AnyFacts
<1>3. Len(en) \in Nat \ {0}
  BY <1>1, <1>2, DepthStep
<1>4. Len(sc) # 0
  BY <1>1, <1>2, <1>3
<1>5. ASSUME NEW k \in 0 .. Len(c)
      PROVE  Depth(c, k) \in 1 .. Len(en)
  <2>1. Depth(c, k) \in Nat \ {0} /\ Depth(c, k) <= Depth(c, Len(c))
    BY <1>2, DepthStep, DepthOrder
  <2> QED
    BY <1>1, <1>3, <2>1
<1> QED
  BY <1>1, <1>2, <1>3, <1>4, <1>5

(* The same depths. *)
LEMMA DepthLast ==
  ASSUME NEW c, AnySeq(c), NEW m \in 0 .. Len(c)
  PROVE  \A k \in 0 .. m : Depth(Last(c, m), k) = Depth(c, k)
<1>1. \A k \in 1 .. m : Back(Last(c, m), k) = Back(c, k)
  BY LastFacts
<1>2. m \in Nat
  BY AnyFacts
<1>3. ASSUME NEW k \in 0 .. m
      PROVE  Depth(Last(c, m), k) = Depth(c, k)
  <2>1. \A j \in 1 .. k : Back(Last(c, m), j) = Back(c, j)
    BY <1>1, <1>2
  <2> QED
    BY <1>2, <2>1, DepthSame
<1> QED
  BY <1>3

LEMMA LevelsDrop ==
  ASSUME NEW c, NEW sc, NEW en, NEW Lv, AnySeq(c), Levels(c, sc, en, Lv), Steep(c, Lv),
         NEW m \in 0 .. Len(c), NEW d, d = Depth(c, m), NEW s, s = Lv[d]
  PROVE  /\ d \in 1 .. Len(en) /\ s \in 1 .. Len(sc)
         /\ Levels(Last(c, m), SubSeq(sc, 1, s), SubSeq(en, 1, d), SubSeq(Lv, 1, d))
         /\ Steep(Last(c, m), SubSeq(Lv, 1, d))
<1>1. /\ AnySeq(sc) /\ AnySeq(en) /\ AnySeq(Lv) /\ Len(sc) \in Nat \ {0} /\ Len(en) \in Nat \ {0}
      /\ Len(Lv) = Len(en) /\ Len(en) = Depth(c, Len(c)) /\ Len(c) \in Nat
      /\ \A k \in 0 .. Len(c) : Depth(c, k) \in 1 .. Len(en)
      /\ \A j \in 1 .. Len(en) : Lv[j] \in 1 .. Len(sc)
      /\ Lv[Len(en)] = Len(sc)
      /\ \A j \in 1 .. Len(en) : \A i \in 1 .. j : Lv[i] <= Lv[j]
  BY LevelFacts
<1>2. d \in 1 .. Len(en) /\ s \in 1 .. Len(sc)
  BY <1>1
<1>3. PICK c1, sc1, en1, Lv1 :
        c1 = Last(c, m) /\ sc1 = SubSeq(sc, 1, s) /\ en1 = SubSeq(en, 1, d) /\ Lv1 = SubSeq(Lv, 1, d)
  OBVIOUS
<1>4. AnySeq(c1) /\ Len(c1) = m /\ \A k \in 1 .. m : Back(c1, k) = Back(c, k)
  BY <1>3, LastFacts
<1>5. \A k \in 0 .. m : Depth(c1, k) = Depth(c, k)
  BY <1>3, DepthLast
<1>6. AnySeq(sc1) /\ Len(sc1) = s
  <2>1. s \in 0 .. Len(sc)
    BY <1>1, <1>2
  <2> QED
    BY <1>1, <1>3, <2>1, FirstFacts
<1>7. AnySeq(en1) /\ Len(en1) = d
  <2>1. d \in 0 .. Len(en)
    BY <1>1, <1>2
  <2> QED
    BY <1>1, <1>3, <2>1, FirstFacts
<1>8. AnySeq(Lv1) /\ Len(Lv1) = d /\ \A i \in 1 .. d : Lv1[i] = Lv[i]
  <2>1. d \in 0 .. Len(Lv)
    BY <1>1, <1>2
  <2> QED
    BY <1>1, <1>3, <2>1, FirstFacts
<1>9. Levels(c1, sc1, en1, Lv1)
  <2>1. ASSUME NEW j \in 1 .. Len(Lv1)
        PROVE  Lv1[j] \in 1 .. Len(sc1) /\ \A i \in 1 .. j : Lv1[i] <= Lv1[j]
    <3>1. j \in 1 .. d /\ j \in 1 .. Len(en) /\ \A i \in 1 .. j : i \in 1 .. d
      BY <1>1, <1>2, <1>8
    <3>2. Lv1[j] = Lv[j] /\ Lv[j] \in 1 .. Len(sc) /\ Lv[j] <= Lv[d] /\ \A i \in 1 .. j : Lv1[i] = Lv[i] /\ Lv[i] <= Lv[j]
      BY <1>1, <1>2, <1>8, <3>1
    <3>3. Lv1[j] \in 1 .. s
      BY <1>1, <1>2, <3>2
    <3> QED
      BY <1>6, <3>2, <3>3
  <2>2. Lv1[Len(Lv1)] = Len(sc1)
    BY <1>2, <1>6, <1>8
  <2>3. Len(en1) = Depth(c1, Len(c1))
    <3>1. m \in 0 .. m
      BY <1>1
    <3> QED
      BY <1>4, <1>5, <1>7, <3>1
  <2> QED
    BY <1>6, <1>7, <1>8, <2>1, <2>2, <2>3 DEF Levels
<1>10. Steep(c1, Lv1)
  <2>1. ASSUME NEW k \in 1 .. Len(c1)
        PROVE  /\ k \in 1 .. Len(c) /\ Back(c1, k) = Back(c, k)
               /\ Depth(c1, k) = Depth(c, k) /\ Depth(c1, k - 1) = Depth(c, k - 1)
               /\ Lv1[Depth(c, k)] = Lv[Depth(c, k)] /\ Lv1[Depth(c, k - 1)] = Lv[Depth(c, k - 1)]
               /\ \A i \in 1 .. Depth(c, k) - 1 : Lv1[i] = Lv[i]
    <3>1. k \in 1 .. Len(c) /\ k \in 1 .. m /\ k \in 0 .. m /\ k - 1 \in 0 .. m /\ m \in Nat
      BY <1>1, <1>4
    <3>2. Depth(c, k) <= d /\ Depth(c, k - 1) <= d
      BY <3>1, DepthOrder
    <3>3. Depth(c, k) \in 1 .. d /\ Depth(c, k - 1) \in 1 .. d
      BY <1>1, <1>2, <3>1, <3>2
    <3> QED
      BY <1>4, <1>5, <1>8, <3>1, <3>3
  <2> QED
    BY <2>1 DEF Steep
<1> QED
  BY <1>2, <1>3, <1>9, <1>10

LEMMA NamesDrop ==
  ASSUME NEW c, NEW sc, NEW en, NEW Lv, NEW st, AnySeq(c), Levels(c, sc, en, Lv), Names(sc, en, Lv, st),
         NEW d \in 1 .. Len(en), NEW s, s = Lv[d]
  PROVE  Names(SubSeq(sc, 1, s), SubSeq(en, 1, d), SubSeq(Lv, 1, d), st)
<1>1. /\ AnySeq(sc) /\ AnySeq(en) /\ AnySeq(Lv) /\ Len(sc) \in Nat \ {0} /\ Len(en) \in Nat \ {0}
      /\ Len(Lv) = Len(en)
      /\ \A j \in 1 .. Len(en) : Lv[j] \in 1 .. Len(sc)
      /\ \A j \in 1 .. Len(en) : \A i \in 1 .. j : Lv[i] <= Lv[j]
  BY LevelFacts
<1>2. s \in 1 .. Len(sc) /\ s \in 0 .. Len(sc) /\ d \in 0 .. Len(en) /\ d \in 0 .. Len(Lv)
  BY <1>1
<1>3. PICK sc1, en1, Lv1 : sc1 = SubSeq(sc, 1, s) /\ en1 = SubSeq(en, 1, d) /\ Lv1 = SubSeq(Lv, 1, d)
  OBVIOUS
<1>4. Len(sc1) = s /\ \A i \in 1 .. s : sc1[i] = sc[i]
  BY <1>1, <1>2, <1>3, FirstFacts
<1>5. Len(en1) = d /\ \A i \in 1 .. d : en1[i] = en[i]
  BY <1>1, <1>2, <1>3, FirstFacts
<1>6. Len(Lv1) = d /\ \A i \in 1 .. d : Lv1[i] = Lv[i]
  BY <1>1, <1>2, <1>3, FirstFacts
<1>7. \A j \in 1 .. d : j \in 1 .. Len(en) /\ Lv[j] \in 1 .. s /\ sc1[Lv1[j]] = sc[Lv[j]]
  BY <1>1, <1>2, <1>4, <1>6
<1>8. \A j \in 1 .. Len(en1) : IsFrame(en1[j])
  BY <1>5, <1>7 DEF Names
<1>9. \A j \in 1 .. Len(en1) : \A x \in DOMAIN en1[j] :
        x \in DOMAIN sc1[Lv1[j]] /\ Holds(st, sc1[Lv1[j]][x], en1[j][x])
  BY <1>5, <1>7 DEF Names
<1>10. ASSUME NEW m \in 1 .. Len(sc1), NEW x \in DOMAIN sc1[m]
       PROVE  \/ \E j \in 1 .. Len(en1) : Lv1[j] = m /\ x \in DOMAIN en1[j]
              \/ \A j \in 1 .. Len(en1) : Lv1[j] <= m => x \notin DOMAIN en1[j]
  <2>1. m \in 1 .. s /\ m \in 1 .. Len(sc) /\ x \in DOMAIN sc[m]
    BY <1>1, <1>2, <1>4
  <2>2. \/ \E j \in 1 .. Len(en) : Lv[j] = m /\ x \in DOMAIN en[j]
        \/ \A j \in 1 .. Len(en) : Lv[j] <= m => x \notin DOMAIN en[j]
    BY <2>1 DEF Names
  <2>3. CASE \A j \in 1 .. Len(en) : Lv[j] <= m => x \notin DOMAIN en[j]
    BY <2>3, <1>5, <1>6, <1>7
  <2>4. ASSUME NEW j \in 1 .. Len(en), Lv[j] = m, x \in DOMAIN en[j]
        PROVE  \/ \E i \in 1 .. Len(en1) : Lv1[i] = m /\ x \in DOMAIN en1[i]
               \/ \A i \in 1 .. Len(en1) : Lv1[i] <= m => x \notin DOMAIN en1[i]
    <3>1. CASE j \in 1 .. d
      BY <3>1, <2>4, <1>5, <1>6
    <3>2. CASE j \notin 1 .. d
      <4>1. d < j /\ j \in 2 .. Len(en) /\ d \in 1 .. j - 1 /\ j - 1 \in 1 .. Len(en) /\ d \in 1 .. j /\ j - 1 \in 1 .. j
        BY <3>2, <1>1
      <4>2. Lv[d] <= Lv[j - 1] /\ Lv[j - 1] <= Lv[j]
        BY <1>1, <4>1
      <4>3. Lv[j - 1] = Lv[j]
        BY <1>1, <2>1, <2>4, <4>1, <4>2
      <4>4. \A i \in 1 .. j - 1 : x \notin DOMAIN en[i]
        BY <2>4, <4>1, <4>3 DEF Names
      <4>5. \A i \in 1 .. d : i \in 1 .. j - 1
        BY <1>1, <4>1
      <4> QED
        BY <1>5, <4>4, <4>5
    <3> QED
      BY <3>1, <3>2
  <2> QED
    BY <2>2, <2>3, <2>4
<1>11. ASSUME NEW j \in 2 .. Len(en1), Lv1[j - 1] = Lv1[j], NEW x \in DOMAIN en1[j], NEW i \in 1 .. j - 1
       PROVE  x \notin DOMAIN en1[i]
  <2>1. j \in 1 .. d /\ j - 1 \in 1 .. d /\ i \in 1 .. d /\ j \in 2 .. Len(en)
    BY <1>1, <1>5
  <2>2. Lv[j - 1] = Lv[j] /\ x \in DOMAIN en[j] /\ en1[i] = en[i]
    BY <1>5, <1>6, <1>11, <2>1
  <2> QED
    BY <2>1, <2>2 DEF Names
<1>12. Names(sc1, en1, Lv1, st)
  BY <1>8, <1>9, <1>10, <1>11 DEF Names
<1> QED
  BY <1>3, <1>12
LEMMA ApartDrop ==
  ASSUME NEW c, NEW sc, AnySeq(c), AnySeq(sc), Apart(c, sc), NEW m \in 0 .. Len(c), NEW s \in 0 .. Len(sc)
  PROVE  Apart(Last(c, m), SubSeq(sc, 1, s))
<1>1. PICK c1, sc1 : c1 = Last(c, m) /\ sc1 = SubSeq(sc, 1, s)
  OBVIOUS
<1>2. Len(c1) = m /\ \A k \in 1 .. m : Back(c1, k) = Back(c, k)
  BY <1>1, LastFacts
<1>3. Len(sc1) = s /\ \A i \in 1 .. s : sc1[i] = sc[i]
  BY <1>1, FirstFacts
<1>4. Len(c) \in Nat /\ Len(sc) \in Nat
  BY AnyFacts
<1>5. /\ \A k \in 1 .. Len(c1) : k \in 1 .. Len(c) /\ Back(c1, k) = Back(c, k)
      /\ \A i \in 1 .. Len(sc1) : i \in 1 .. Len(sc) /\ sc1[i] = sc[i]
  BY <1>2, <1>3, <1>4
<1>6. \A i, j \in 1 .. Len(sc1) : \A x \in DOMAIN sc1[i], y \in DOMAIN sc1[j] :
        sc1[i][x] = sc1[j][y] => i = j /\ x = y
  BY <1>5 DEF Apart
<1>7. \A i \in 1 .. Len(sc1) : \A x \in DOMAIN sc1[i] : \A k \in 1 .. Len(c1) :
        sc1[i][x] \notin Reserves(Back(c1, k))
  BY <1>5 DEF Apart
<1>8. \A i, k \in 1 .. Len(c1) : i # k => Reserves(Back(c1, i)) \cap Reserves(Back(c1, k)) = {}
  BY <1>5 DEF Apart
<1>9. Apart(c1, sc1)
  BY <1>6, <1>7, <1>8 DEF Apart
<1> QED
  BY <1>1, <1>9

LEMMA LoopPlaceDrop ==
  ASSUME NEW c, NEW sc, NEW en, NEW Lv, AnySeq(c), Levels(c, sc, en, Lv),
         NEW m \in 0 .. Len(c), NEW d, d = Depth(c, m), NEW s, s = Lv[d],
         NEW k \in 1 .. m, LoopPlace(c, k, sc, en, Lv)
  PROVE  LoopPlace(Last(c, m), k, SubSeq(sc, 1, s), SubSeq(en, 1, d), SubSeq(Lv, 1, d))
<1>1. /\ AnySeq(sc) /\ AnySeq(en) /\ AnySeq(Lv) /\ Len(sc) \in Nat \ {0} /\ Len(en) \in Nat \ {0}
      /\ Len(Lv) = Len(en) /\ Len(c) \in Nat
      /\ \A i \in 0 .. Len(c) : Depth(c, i) \in 1 .. Len(en)
      /\ \A j \in 1 .. Len(en) : Lv[j] \in 1 .. Len(sc)
      /\ \A j \in 1 .. Len(en) : \A i \in 1 .. j : Lv[i] <= Lv[j]
  BY LevelFacts
<1>2. PICK c1, sc1, en1, Lv1 :
        c1 = Last(c, m) /\ sc1 = SubSeq(sc, 1, s) /\ en1 = SubSeq(en, 1, d) /\ Lv1 = SubSeq(Lv, 1, d)
  OBVIOUS
<1>3. d \in 1 .. Len(en) /\ s \in 1 .. Len(sc) /\ s \in 0 .. Len(sc) /\ d \in 0 .. Len(en) /\ d \in 0 .. Len(Lv)
  BY <1>1
<1>4. Len(c1) = m /\ \A i \in 1 .. m : Back(c1, i) = Back(c, i)
  BY <1>2, LastFacts
<1>5. \A i \in 0 .. m : Depth(c1, i) = Depth(c, i)
  BY <1>2, DepthLast
<1>6. Len(en1) = d /\ \A i \in 1 .. d : en1[i] = en[i]
  BY <1>1, <1>2, <1>3, FirstFacts
<1>7. \A i \in 1 .. d : Lv1[i] = Lv[i]
  BY <1>1, <1>2, <1>3, FirstFacts
<1>8. \A i \in 0 .. s : SubSeq(sc1, 1, i) = SubSeq(sc, 1, i)
  BY <1>1, <1>2, <1>3, FirstFacts
<1>9. PICK e : e = Depth(c, k)
  OBVIOUS
<1>10. e \in 1 .. d /\ Depth(c1, k) = e /\ Back(c1, k) = Back(c, k) /\ k \in 1 .. Len(c1) /\ m \in Nat /\ k \in 0 .. m
  <2>1. k \in 0 .. m /\ k \in 0 .. Len(c) /\ m \in Nat
    BY <1>1
  <2>2. e <= d
    BY <1>9, <2>1, DepthOrder
  <2> QED
    BY <1>1, <1>3, <1>4, <1>5, <1>9, <2>1, <2>2
<1>11. Lv1[e] = Lv[e] /\ Lv[e] \in 0 .. s
  <2>1. Lv[e] <= Lv[d] /\ Lv[e] \in 1 .. Len(sc)
    BY <1>1, <1>3, <1>10
  <2> QED
    BY <1>1, <1>3, <1>7, <1>10, <2>1
<1>12. Last(c1, k - 1) = Last(c, k - 1)
  <2>1. k - 1 \in 0 .. m
    BY <1>10
  <2> QED
    BY <1>2, <2>1, LastOf
<1>13. PICK x : x = Back(c, k)
  OBVIOUS
<1>14. /\ x.rest = Last(c, k - 1) /\ x.sc = SubSeq(sc, 1, Lv[e])
       /\ \A j \in k + 1 .. Len(c) : Back(c, j).k \in Binders => e < Depth(c, j)
       /\ x.stmt.k \in ForKinds => \A i \in 1 .. e : x.stmt.name \notin DOMAIN en[i]
  BY <1>9, <1>13 DEF LoopPlace
<1>15. x.rest = Last(c1, k - 1) /\ x.sc = SubSeq(sc1, 1, Lv1[e])
  BY <1>8, <1>11, <1>12, <1>14
<1>16. ASSUME NEW j \in k + 1 .. Len(c1), Back(c1, j).k \in Binders
       PROVE  e < Depth(c1, j)
  <2>1. j \in 1 .. m /\ j \in 0 .. m /\ j \in k + 1 .. Len(c)
    BY <1>1, <1>4, <1>10
  <2> QED
    BY <1>4, <1>5, <1>14, <1>16, <2>1
<1>17. x.stmt.k \in ForKinds => \A i \in 1 .. e : x.stmt.name \notin DOMAIN en1[i]
  <2>1. \A i \in 1 .. e : i \in 1 .. d
    BY <1>1, <1>3, <1>10
  <2> QED
    BY <1>6, <1>14, <2>1
<1>18. LoopPlace(c1, k, sc1, en1, Lv1)
  BY <1>10, <1>13, <1>15, <1>16, <1>17 DEF LoopPlace
<1> QED
  BY <1>2, <1>18

(* No for is under way. *)
Settled(c) == \A k \in 1 .. Len(c) : Back(c, k).k \notin Micro

LEMMA MatchFacts ==
  ASSUME NEW c, NEW sc, NEW td, NEW en, NEW Lv, NEW st, NEW n, Matches(c, sc, td, en, Lv, st, n)
  PROVE  /\ ItemsMatch(c, td, st, n) /\ Levels(c, sc, en, Lv) /\ Steep(c, Lv) /\ Names(sc, en, Lv, st)
         /\ Apart(c, sc) /\ Places(c, sc, en, Lv)
         /\ AnySeq(c) /\ AnySeq(td) /\ Len(td) = Len(c) /\ Len(c) \in Nat
         /\ AnySeq(sc) /\ AnySeq(en) /\ AnySeq(Lv) /\ Len(sc) \in Nat \ {0} /\ Len(en) \in Nat \ {0}
         /\ Len(Lv) = Len(en) /\ Len(en) = Depth(c, Len(c)) /\ Lv[Len(en)] = Len(sc)
<1>1. /\ ItemsMatch(c, td, st, n) /\ Levels(c, sc, en, Lv) /\ Steep(c, Lv) /\ Names(sc, en, Lv, st)
      /\ Apart(c, sc) /\ Places(c, sc, en, Lv)
  BY DEF Matches
<1>2. AnySeq(c) /\ AnySeq(td) /\ Len(td) = Len(c) /\ Len(c) \in Nat
  BY <1>1, ItemsFacts
<1>3. /\ AnySeq(sc) /\ AnySeq(en) /\ AnySeq(Lv) /\ Len(sc) \in Nat \ {0} /\ Len(en) \in Nat \ {0}
      /\ Len(Lv) = Len(en) /\ Len(en) = Depth(c, Len(c)) /\ Lv[Len(en)] = Len(sc)
  BY <1>1, <1>2, LevelFacts
<1> QED
  BY <1>1, <1>2, <1>3

LEMMA MatchesBy ==
  ASSUME NEW c, NEW sc, NEW td, NEW en, NEW Lv, NEW st, NEW n,
         ItemsMatch(c, td, st, n), Levels(c, sc, en, Lv), Steep(c, Lv), Names(sc, en, Lv, st),
         Apart(c, sc), Places(c, sc, en, Lv)
  PROVE  Matches(c, sc, td, en, Lv, st, n)
BY DEF Matches

LEMMA PlaceFacts ==
  ASSUME NEW c, NEW sc, NEW en, NEW Lv, Places(c, sc, en, Lv), NEW k \in 1 .. Len(c)
  PROVE  /\ Back(c, k).k \in Micro => k = Len(c) /\ StagePlace(Last(c, k - 1), Back(c, k), sc, en)
         /\ Back(c, k).k = "again" => LoopPlace(c, k, sc, en, Lv)
BY DEF Places

LEMMA PlacesBy ==
  ASSUME NEW c, NEW sc, NEW en, NEW Lv, Settled(c),
         \A k \in 1 .. Len(c) : Back(c, k).k = "again" => LoopPlace(c, k, sc, en, Lv)
  PROVE  Places(c, sc, en, Lv)
BY DEF Places, Settled

(* What is left when the items before the last m have been done or given up. *)
LEMMA LeftWith ==
  ASSUME NEW c, NEW sc, NEW td, NEW en, NEW Lv, NEW st, NEW n, Matches(c, sc, td, en, Lv, st, n),
         NEW m \in 0 .. Len(c) - 1, NEW d, d = Depth(c, m), NEW s, s = Lv[d]
  PROVE  /\ Matches(Last(c, m), SubSeq(sc, 1, s), Last(td, m), SubSeq(en, 1, d), SubSeq(Lv, 1, d), st, n)
         /\ Settled(Last(c, m)) /\ d \in 1 .. Len(en) /\ s \in 1 .. Len(sc)
<1>1. /\ ItemsMatch(c, td, st, n) /\ Levels(c, sc, en, Lv) /\ Steep(c, Lv) /\ Names(sc, en, Lv, st)
      /\ Apart(c, sc) /\ Places(c, sc, en, Lv) /\ AnySeq(c) /\ AnySeq(sc) /\ Len(c) \in Nat /\ Len(sc) \in Nat \ {0}
  BY MatchFacts
<1>2. m \in 0 .. Len(c)
  BY <1>1
<1>3. PICK c1, sc1, td1, en1, Lv1 :
        c1 = Last(c, m) /\ sc1 = SubSeq(sc, 1, s) /\ td1 = Last(td, m) /\ en1 = SubSeq(en, 1, d) /\ Lv1 = SubSeq(Lv, 1, d)
  OBVIOUS
<1>4. d \in 1 .. Len(en) /\ s \in 1 .. Len(sc) /\ Levels(c1, sc1, en1, Lv1) /\ Steep(c1, Lv1)
  BY <1>1, <1>2, <1>3, LevelsDrop
<1>5. ItemsMatch(c1, td1, st, n)
  BY <1>1, <1>2, <1>3, ItemsDrop
<1>6. Names(sc1, en1, Lv1, st)
  BY <1>1, <1>3, <1>4, NamesDrop
<1>7. Apart(c1, sc1)
  <2>1. s \in 0 .. Len(sc)
    BY <1>1, <1>4
  <2>2. Apart(Last(c, m), SubSeq(sc, 1, s))
    BY <1>1, <1>2, <2>1, ApartDrop
  <2> QED
    BY <1>3, <2>2
<1>8. Len(c1) = m /\ \A k \in 1 .. m : Back(c1, k) = Back(c, k)
  BY <1>1, <1>2, <1>3, LastFacts
<1>9. \A k \in 1 .. m : k \in 1 .. Len(c) /\ k # Len(c)
  BY <1>1
<1>10. Settled(c1)
  <2>1. ASSUME NEW k \in 1 .. m
        PROVE  Back(c, k).k \notin Micro
    BY <1>1, <1>9, PlaceFacts
  <2> QED
    BY <1>8, <2>1 DEF Settled
<1>11. ASSUME NEW k \in 1 .. Len(c1), Back(c1, k).k = "again"
       PROVE  LoopPlace(c1, k, sc1, en1, Lv1)
  <2>1. k \in 1 .. m /\ Back(c, k).k = "again"
    BY <1>8, <1>11
  <2>2. LoopPlace(c, k, sc, en, Lv)
    BY <1>1, <1>9, <2>1, PlaceFacts
  <2> QED
    BY <1>1, <1>2, <1>3, <2>1, <2>2, LoopPlaceDrop
<1>12. Places(c1, sc1, en1, Lv1)
  BY <1>10, <1>11, PlacesBy
<1>13. Matches(c1, sc1, td1, en1, Lv1, st, n)
  BY <1>4, <1>5, <1>6, <1>7, <1>12, MatchesBy
<1>14. Matches(Last(c, m), SubSeq(sc, 1, s), Last(td, m), SubSeq(en, 1, d), SubSeq(Lv, 1, d), st, n)
  BY <1>3, <1>13
<1>15. Settled(Last(c, m))
  BY <1>3, <1>10
<1> QED
  BY <1>4, <1>14, <1>15
(***************************************************************************)
(* The item at the head.                                                     *)
(***************************************************************************)
(* The locals D are in no one's use. *)
Untouched(c, sc, D) ==
  /\ \A m \in 1 .. Len(sc) : \A x \in DOMAIN sc[m] : sc[m][x] \notin D
  /\ \A k \in 1 .. Len(c) : Reserves(Back(c, k)) \cap D = {}

(* A name may be bound at the head: its scope is the statements' innermost     *)
(* one alone, and no jump goes back into it.                                 *)
Clear(c, sc, en, Lv) ==
  /\ \A i \in 1 .. Len(en) - 1 : Lv[i] < Len(sc)
  /\ \A k \in 1 .. Len(c) : Back(c, k).k = "again" => Depth(c, k) < Len(en)

LEMMA HeadMatch ==
  ASSUME NEW c, NEW sc, NEW td, NEW en, NEW Lv, NEW st, NEW n, Matches(c, sc, td, en, Lv, st, n), c # <<>>
  PROVE  /\ AnySeq(c) /\ AnySeq(td) /\ td # <<>> /\ c = <<Head(c)>> \o Tail(c) /\ td = <<Head(td)>> \o Tail(td)
         /\ AnySeq(Tail(c)) /\ AnySeq(Tail(td)) /\ Len(Tail(td)) = Len(Tail(c))
         /\ ItemMatch(Head(c), Head(td), st, n) /\ Head(c) = Back(c, Len(c)) /\ Head(td) = Back(td, Len(td))
         /\ Len(c) \in Nat \ {0} /\ Len(td) = Len(c) /\ Len(Tail(c)) = Len(c) - 1
         /\ Last(c, Len(c) - 1) = Tail(c) /\ Last(td, Len(c) - 1) = Tail(td)
<1>1. ItemsMatch(c, td, st, n)
  BY MatchFacts
<1>2. AnySeq(c) /\ AnySeq(td) /\ Len(td) = Len(c) /\ Len(c) \in Nat
  BY <1>1, ItemsFacts
<1>3. Len(c) # 0 /\ td # <<>>
  BY <1>2, AnyFacts
<1>4. /\ AnySeq(Tail(c)) /\ Len(Tail(c)) = Len(c) - 1 /\ c = <<Head(c)>> \o Tail(c) /\ Head(c) = Back(c, Len(c))
      /\ AnySeq(Tail(td)) /\ Len(Tail(td)) = Len(td) - 1 /\ td = <<Head(td)>> \o Tail(td)
      /\ Head(td) = Back(td, Len(td))
  BY <1>2, <1>3, TailFacts
<1>5. Last(c, Len(c) - 1) = Tail(c) /\ Last(td, Len(td) - 1) = Tail(td)
  BY <1>2, <1>3, LastOf
<1>6. ItemMatch(Back(c, Len(c)), Back(td, Len(c)), st, n)
  <2>1. Len(c) \in 1 .. Len(c)
    BY <1>2, <1>3
  <2> QED
    BY <1>1, <2>1, ItemsFacts
<1> QED
  BY <1>2, <1>3, <1>4, <1>5, <1>6

LEMMA HeadTails ==
  ASSUME NEW c, NEW sc, NEW td, NEW en, NEW Lv, NEW st, NEW n, Matches(c, sc, td, en, Lv, st, n), c # <<>>
  PROVE  Last(c, Len(c) - 1) = Tail(c) /\ Last(td, Len(c) - 1) = Tail(td)
<1>1. AnySeq(c) /\ AnySeq(td) /\ Len(td) = Len(c)
  BY MatchFacts
<1>2. td # <<>>
  BY <1>1, AnyFacts
<1> QED
  BY <1>1, <1>2, LastOf

LEMMA HeadLevel ==
  ASSUME NEW c, NEW sc, NEW td, NEW en, NEW Lv, NEW st, NEW n, Matches(c, sc, td, en, Lv, st, n), c # <<>>
  PROVE  LET d == Depth(c, Len(c) - 1)
         IN  /\ Head(c).k \notin PopLike => d = Len(en)
             /\ Head(c).k \in PopLike => d = Len(en) - 1 /\ d \in 1 .. Len(en)
             /\ Head(c).k = "pop" => Lv[d] = Len(sc) - 1
             /\ Head(c).k = "fpop" => Lv[d] = Len(sc)
<1>1. PICK L, d : L = Len(c) /\ d = Depth(c, L - 1)
  OBVIOUS
<1>2. Head(c) = Back(c, L) /\ L \in Nat \ {0}
  BY <1>1, HeadMatch
<1>3. Len(en) = Depth(c, L) /\ Lv[Len(en)] = Len(sc) /\ Steep(c, Lv) /\ Len(sc) \in Nat
  BY <1>1, MatchFacts
<1>4. Depth(c, L) = IF Back(c, L).k \in PopLike THEN d + 1 ELSE d
  BY <1>1, <1>2, DepthStep
<1>5. L - 1 \in Nat /\ L \in 1 .. L
  BY <1>2
<1>6. d \in Nat \ {0}
  BY <1>1, <1>5, DepthStep
<1>7. /\ Back(c, L).k = "pop" => Lv[Depth(c, L)] = Lv[d] + 1
      /\ Back(c, L).k = "fpop" => Lv[Depth(c, L)] = Lv[d]
  BY <1>1, <1>3, <1>5 DEF Steep
<1>8. Back(c, L).k \in PopLike => d \in 1 .. Len(en)
  BY <1>3, <1>4, <1>6
<1>9. Back(c, L).k = "pop" => Lv[d] \in Nat
  <2>1. Levels(c, sc, en, Lv) /\ AnySeq(c)
    BY MatchFacts
  <2>2. \A j \in 1 .. Len(en) : Lv[j] \in 1 .. Len(sc)
    BY <2>1, LevelFacts
  <2> QED
    BY <1>3, <1>8, <2>2 DEF PopLike
<1> QED
  BY <1>1, <1>2, <1>3, <1>4, <1>6, <1>7, <1>8, <1>9

LEMMA HeadGone ==
  ASSUME NEW c, NEW sc, NEW td, NEW en, NEW Lv, NEW st, NEW n, Matches(c, sc, td, en, Lv, st, n), c # <<>>,
         Head(c).k \notin PopLike
  PROVE  /\ Matches(Tail(c), sc, Tail(td), en, Lv, st, n) /\ Settled(Tail(c))
         /\ Untouched(Tail(c), sc, Reserves(Head(c)))
<1>1. PICK m, d, s : m = Len(c) - 1 /\ d = Depth(c, m) /\ s = Lv[d]
  OBVIOUS
<1>2. d = Len(en)
  BY <1>1, HeadLevel
<1>3. /\ s = Len(sc) /\ AnySeq(sc) /\ AnySeq(en) /\ AnySeq(Lv) /\ Len(Lv) = Len(en) /\ Apart(c, sc)
      /\ Len(sc) \in Nat /\ Len(en) \in Nat
  BY <1>1, <1>2, MatchFacts
<1>4. SubSeq(sc, 1, s) = sc /\ SubSeq(en, 1, d) = en /\ SubSeq(Lv, 1, d) = Lv
  <2>1. \A u : AnySeq(u) /\ Len(u) \in Nat => SubSeq(u, 1, Len(u)) = u
    <3>1. ASSUME NEW u, AnySeq(u), Len(u) \in Nat
          PROVE  SubSeq(u, 1, Len(u)) = u
      <4>1. 0 \in 0 .. Len(u)
        BY <3>1
      <4> QED
        BY <3>1, <4>1, FirstFacts
    <3> QED
      BY <3>1
  <2> QED
    BY <1>2, <1>3, <2>1
<1>5. /\ Head(c) = Back(c, Len(c)) /\ Len(c) \in Nat \ {0} /\ Last(c, m) = Tail(c) /\ Last(td, m) = Tail(td)
      /\ AnySeq(c)
  <2>1. Last(c, m) = Tail(c) /\ Last(td, m) = Tail(td)
    BY <1>1, HeadTails
  <2>2. Head(c) = Back(c, Len(c)) /\ Len(c) \in Nat \ {0} /\ AnySeq(c)
    BY HeadMatch
  <2> QED
    BY <2>1, <2>2
<1>6. m \in 0 .. Len(c) - 1
  BY <1>1, <1>5
<1>7. Matches(Last(c, m), SubSeq(sc, 1, s), Last(td, m), SubSeq(en, 1, d), SubSeq(Lv, 1, d), st, n) /\ Settled(Last(c, m))
  BY <1>1, <1>6, LeftWith
<1>8. Matches(Tail(c), sc, Tail(td), en, Lv, st, n) /\ Settled(Tail(c))
  BY <1>4, <1>5, <1>7
<1>9. Untouched(Tail(c), sc, Reserves(Head(c)))
  <2>1. Len(c) \in 1 .. Len(c)
    BY <1>5
  <2>2. Len(Tail(c)) = Len(c) - 1 /\ \A k \in 1 .. Len(c) - 1 : Back(Tail(c), k) = Back(c, k)
    BY <1>5, TailFacts
  <2>3. \A k \in 1 .. Len(c) - 1 : k \in 1 .. Len(c) /\ k # Len(c)
    BY <1>5
  <2>4. \A k \in 1 .. Len(Tail(c)) : Reserves(Back(Tail(c), k)) \cap Reserves(Head(c)) = {}
    BY <1>3, <1>5, <2>1, <2>2, <2>3 DEF Apart
  <2>5. \A i \in 1 .. Len(sc) : \A x \in DOMAIN sc[i] : sc[i][x] \notin Reserves(Head(c))
    BY <1>3, <1>5, <2>1 DEF Apart
  <2> QED
    BY <2>4, <2>5 DEF Untouched
<1> QED
  BY <1>8, <1>9

LEMMA HeadPlace ==
  ASSUME NEW c, NEW sc, NEW td, NEW en, NEW Lv, NEW st, NEW n, Matches(c, sc, td, en, Lv, st, n), c # <<>>
  PROVE  /\ Head(c).k \in Micro => StagePlace(Tail(c), Head(c), sc, en)
         /\ Head(c).k = "again" =>
              /\ Head(c).rest = Tail(c) /\ Head(c).sc = sc
              /\ Head(c).stmt.k \in ForKinds => ~ BoundIn(en, Head(c).stmt.name)
         /\ Head(c).k \in Binders => Clear(Tail(c), sc, en, Lv)
<1>1. /\ Head(c) = Back(c, Len(c)) /\ Len(c) \in Nat \ {0} /\ Last(c, Len(c) - 1) = Tail(c) /\ AnySeq(c)
  BY HeadMatch
<1>2. /\ Places(c, sc, en, Lv) /\ Steep(c, Lv) /\ AnySeq(sc) /\ AnySeq(en) /\ Len(sc) \in Nat \ {0}
      /\ Len(en) = Depth(c, Len(c)) /\ Lv[Len(en)] = Len(sc) /\ Len(en) \in Nat \ {0}
  BY MatchFacts
<1>3. PICK L : L = Len(c) /\ L \in 1 .. Len(c)
  BY <1>1
<1>4. Head(c).k \in Micro => StagePlace(Tail(c), Head(c), sc, en)
  BY <1>1, <1>2, <1>3, PlaceFacts
<1>5. ASSUME Head(c).k = "again"
      PROVE  /\ Head(c).rest = Tail(c) /\ Head(c).sc = sc
             /\ Head(c).stmt.k \in ForKinds => ~ BoundIn(en, Head(c).stmt.name)
  <2>1. LoopPlace(c, L, sc, en, Lv)
    BY <1>1, <1>2, <1>3, <1>5, PlaceFacts
  <2>2. /\ Head(c).rest = Tail(c) /\ Head(c).sc = SubSeq(sc, 1, Lv[Depth(c, L)])
        /\ Head(c).stmt.k \in ForKinds => \A i \in 1 .. Depth(c, L) : Head(c).stmt.name \notin DOMAIN en[i]
    BY <1>1, <1>3, <2>1 DEF LoopPlace
  <2>3. SubSeq(sc, 1, Len(sc)) = sc
    <3>1. 0 \in 0 .. Len(sc)
      BY <1>2
    <3> QED
      BY <1>2, <3>1, FirstFacts
  <2>4. DOMAIN en = 1 .. Len(en)
    BY <1>2, AnyFacts
  <2> QED
    BY <1>2, <1>3, <2>2, <2>3, <2>4 DEF BoundIn
<1>6. ASSUME Head(c).k \in Binders
      PROVE  Clear(Tail(c), sc, en, Lv)
  <2>1. \A i \in 1 .. Len(en) - 1 : Lv[i] < Len(sc)
    BY <1>1, <1>2, <1>3, <1>6 DEF Steep
  <2>2. \A k \in 0 .. L - 1 : Depth(Tail(c), k) = Depth(c, k)
    <3>1. L - 1 \in 0 .. Len(c)
      BY <1>1, <1>3
    <3> QED
      BY <1>1, <1>3, <3>1, DepthLast
  <2>3. Len(Tail(c)) = L - 1 /\ \A k \in 1 .. L - 1 : Back(Tail(c), k) = Back(c, k)
    BY <1>1, <1>3, TailFacts
  <2>4. ASSUME NEW k \in 1 .. Len(Tail(c)), Back(Tail(c), k).k = "again"
        PROVE  Depth(Tail(c), k) < Len(en)
    <3>1. k \in 1 .. L - 1 /\ k \in 1 .. Len(c) /\ k \in 0 .. L - 1 /\ L \in k + 1 .. Len(c) /\ Back(c, k).k = "again"
      BY <1>1, <1>3, <2>3, <2>4
    <3>2. LoopPlace(c, k, sc, en, Lv)
      BY <1>2, <3>1, PlaceFacts
    <3>3. Depth(c, k) < Depth(c, L)
      BY <1>1, <1>3, <1>6, <3>1, <3>2 DEF LoopPlace
    <3> QED
      BY <1>2, <1>3, <2>2, <3>1, <3>3
  <2> QED
    BY <2>1, <2>4 DEF Clear
<1> QED
  BY <1>4, <1>5, <1>6
(***************************************************************************)
(* Items in front.                                                           *)
(***************************************************************************)
LEMMA LastCat ==
  ASSUME NEW b, NEW c, AnySeq(b), AnySeq(c), NEW m \in 0 .. Len(c)
  PROVE  Last(b \o c, m) = Last(c, m)
<1>1. PICK u : u = b \o c
  OBVIOUS
<1>2. AnySeq(u) /\ Len(u) = Len(b) + Len(c) /\ \A k \in 1 .. Len(c) : Back(u, k) = Back(c, k)
  BY <1>1, CatFacts
<1>3. Len(b) \in Nat /\ Len(c) \in Nat
  BY AnyFacts
<1>4. m \in 0 .. Len(u)
  BY <1>2, <1>3
<1>5. /\ AnySeq(Last(u, m)) /\ Len(Last(u, m)) = m
      /\ \A k \in 1 .. m : Back(Last(u, m), k) = Back(u, k)
  BY <1>2, <1>4, LastFacts
<1>6. /\ AnySeq(Last(c, m)) /\ Len(Last(c, m)) = m
      /\ \A k \in 1 .. m : Back(Last(c, m), k) = Back(c, k)
  BY LastFacts
<1>7. \A k \in 1 .. m : k \in 1 .. Len(c)
  BY <1>3
<1>8. Last(u, m) = Last(c, m)
  BY <1>2, <1>5, <1>6, <1>7, AnyEqual
<1> QED
  BY <1>1, <1>8

LEMMA DepthCat ==
  ASSUME NEW b, NEW c, AnySeq(b), AnySeq(c)
  PROVE  /\ \A k \in 0 .. Len(c) : Depth(b \o c, k) = Depth(c, k)
         /\ (\A j \in 1 .. Len(b) : Back(b, j).k \notin PopLike) =>
              \A k \in Len(c) .. Len(c) + Len(b) : Depth(b \o c, k) = Depth(c, Len(c))
<1>1. PICK u : u = b \o c
  OBVIOUS
<1>2. /\ AnySeq(u) /\ Len(u) = Len(b) + Len(c) /\ \A k \in 1 .. Len(c) : Back(u, k) = Back(c, k)
      /\ \A k \in 1 .. Len(b) : Back(u, Len(c) + k) = Back(b, k)
  BY <1>1, CatFacts
<1>3. Len(b) \in Nat /\ Len(c) \in Nat
  BY AnyFacts
<1>4. ASSUME NEW k \in 0 .. Len(c)
      PROVE  Depth(u, k) = Depth(c, k)
  <2>1. k \in Nat /\ \A j \in 1 .. k : j \in 1 .. Len(c)
    BY <1>3
  <2> QED
    BY <1>2, <2>1, DepthSame
<1>5. ASSUME \A j \in 1 .. Len(b) : Back(b, j).k \notin PopLike, NEW k \in Len(c) .. Len(c) + Len(b)
      PROVE  Depth(u, k) = Depth(c, Len(c))
  <2>1. ASSUME NEW i \in Len(c) + 1 .. k
        PROVE  Back(u, i).k \notin PopLike
    <3>1. PICK j : j = i - Len(c)
      OBVIOUS
    <3>2. j \in 1 .. Len(b) /\ i = Len(c) + j
      BY <1>3, <2>1, <3>1
    <3> QED
      BY <1>2, <1>5, <3>2
  <2>2. \A i \in 1 .. k : i \in 1 .. Len(c) \/ i \in Len(c) + 1 .. k
    BY <1>3
  <2>3. \A i \in 1 .. Len(c) : i \in 1 .. k
    BY <1>3
  <2>4. ScopedIn(u, k) = ScopedIn(u, Len(c))
    BY <2>1, <2>2, <2>3 DEF ScopedIn
  <2>5. k \in Nat /\ Len(c) \in 0 .. Len(c)
    BY <1>3
  <2>6. Depth(u, k) = Depth(u, Len(c))
    BY <1>3, <2>4, <2>5, ScopedFinite
  <2> QED
    BY <1>4, <2>5, <2>6
<1> QED
  BY <1>1, <1>4, <1>5

SameAround(d, sc, en, Lv, sc1, en1, Lv1) ==
  SubSeq(sc1, 1, Lv1[d]) = SubSeq(sc, 1, Lv[d]) /\ \A i \in 1 .. d : DOMAIN en1[i] = DOMAIN en[i]
BindsAbove(d, b, c) == \A j \in 1 .. Len(b) : Back(b, j).k \in Binders => d < Depth(b \o c, Len(c) + j)

(* A loop stays where it is when its scopes and the names around it stay. *)
LEMMA LoopPlaceCat ==
  ASSUME NEW b, NEW c, AnySeq(b), AnySeq(c), NEW k \in 1 .. Len(c),
         NEW sc, NEW en, NEW Lv, LoopPlace(c, k, sc, en, Lv), NEW d, d = Depth(c, k),
         NEW sc1, NEW en1, NEW Lv1, SameAround(d, sc, en, Lv, sc1, en1, Lv1), BindsAbove(d, b, c)
  PROVE  LoopPlace(b \o c, k, sc1, en1, Lv1)
<1>1. PICK u, x : u = b \o c /\ x = Back(c, k)
  OBVIOUS
<1>2. /\ AnySeq(u) /\ Len(u) = Len(b) + Len(c) /\ \A i \in 1 .. Len(c) : Back(u, i) = Back(c, i)
      /\ \A i \in 1 .. Len(b) : Back(u, Len(c) + i) = Back(b, i)
  BY <1>1, CatFacts
<1>3. Len(b) \in Nat /\ Len(c) \in Nat
  BY AnyFacts
<1>4. Back(u, k) = x /\ k \in 0 .. Len(c) /\ k - 1 \in 0 .. Len(c)
  BY <1>1, <1>2, <1>3
<1>5. \A i \in 0 .. Len(c) : Depth(u, i) = Depth(c, i)
  BY <1>1, DepthCat
<1>6. Last(u, k - 1) = Last(c, k - 1)
  BY <1>1, <1>4, LastCat
<1>7. /\ x.rest = Last(c, k - 1) /\ x.sc = SubSeq(sc, 1, Lv[d])
      /\ \A j \in k + 1 .. Len(c) : Back(c, j).k \in Binders => d < Depth(c, j)
      /\ x.stmt.k \in ForKinds => \A i \in 1 .. d : x.stmt.name \notin DOMAIN en[i]
  BY <1>1 DEF LoopPlace
<1>8. ASSUME NEW j \in k + 1 .. Len(u), Back(u, j).k \in Binders
      PROVE  d < Depth(u, j)
  <2>1. CASE j \in k + 1 .. Len(c)
    <3>1. j \in 1 .. Len(c) /\ j \in 0 .. Len(c)
      BY <1>3, <2>1
    <3> QED
      BY <1>2, <1>5, <1>7, <1>8, <2>1, <3>1
  <2>2. CASE j \notin k + 1 .. Len(c)
    <3>1. PICK i : i = j - Len(c)
      OBVIOUS
    <3>2. i \in 1 .. Len(b) /\ j = Len(c) + i
      BY <1>2, <1>3, <2>2, <3>1
    <3> QED
      BY <1>1, <1>2, <1>8, <3>2 DEF BindsAbove
  <2> QED
    BY <2>1, <2>2
<1>9. Depth(u, k) = d
  BY <1>4, <1>5
<1>10. x.sc = SubSeq(sc1, 1, Lv1[d])
  BY <1>7 DEF SameAround
<1>11. x.stmt.k \in ForKinds => \A i \in 1 .. d : x.stmt.name \notin DOMAIN en1[i]
  BY <1>7 DEF SameAround
<1>12. LoopPlace(u, k, sc1, en1, Lv1)
  BY <1>4, <1>6, <1>7, <1>8, <1>9, <1>10, <1>11 DEF LoopPlace
<1> QED
  BY <1>1, <1>12

LEMMA ApartCat ==
  ASSUME NEW b, NEW c, NEW sc, AnySeq(b), AnySeq(c), Apart(c, sc), \A k \in 1 .. Len(b) : Reserves(Back(b, k)) = {}
  PROVE  Apart(b \o c, sc)
<1>1. PICK u : u = b \o c
  OBVIOUS
<1>2. /\ AnySeq(u) /\ Len(u) = Len(b) + Len(c) /\ \A k \in 1 .. Len(c) : Back(u, k) = Back(c, k)
      /\ \A k \in 1 .. Len(b) : Back(u, Len(c) + k) = Back(b, k)
  BY <1>1, CatFacts
<1>3. Len(b) \in Nat /\ Len(c) \in Nat
  BY AnyFacts
<1>4. ASSUME NEW k \in 1 .. Len(u)
      PROVE  (k \in 1 .. Len(c) /\ Back(u, k) = Back(c, k)) \/ Reserves(Back(u, k)) = {}
  <2>1. CASE k \in 1 .. Len(c)
    BY <1>2, <2>1
  <2>2. CASE k \notin 1 .. Len(c)
    <3>1. PICK i : i = k - Len(c)
      OBVIOUS
    <3>2. i \in 1 .. Len(b) /\ k = Len(c) + i
      BY <1>2, <1>3, <2>2, <3>1
    <3> QED
      BY <1>2, <3>2
  <2> QED
    BY <2>1, <2>2
<1>5. \A i, j \in 1 .. Len(sc) : \A x \in DOMAIN sc[i], y \in DOMAIN sc[j] :
        sc[i][x] = sc[j][y] => i = j /\ x = y
  BY DEF Apart
<1>6. \A i \in 1 .. Len(sc) : \A x \in DOMAIN sc[i] : \A k \in 1 .. Len(u) :
        sc[i][x] \notin Reserves(Back(u, k))
  BY <1>4 DEF Apart
<1>7. \A i, k \in 1 .. Len(u) : i # k => Reserves(Back(u, i)) \cap Reserves(Back(u, k)) = {}
  BY <1>4 DEF Apart
<1>8. Apart(u, sc)
  BY <1>5, <1>6, <1>7 DEF Apart
<1> QED
  BY <1>1, <1>8
AllCode(b) == AnySeq(b) /\ \A k \in 1 .. Len(b) : IsCode(Back(b, k))
Binds(b)   == \E k \in 1 .. Len(b) : Back(b, k).k \in Binders

LEMMA AllCodeFacts ==
  ASSUME NEW b, AllCode(b), NEW st, NEW n
  PROVE  /\ AnySeq(b) /\ ItemsMatch(b, b, st, n)
         /\ \A k \in 1 .. Len(b) : /\ Reserves(Back(b, k)) = {}
                                   /\ Back(b, k).k \notin PopLike \cup Micro \cup {"again"}
<1>1. AnySeq(b)
  BY DEF AllCode
<1>2. ASSUME NEW k \in 1 .. Len(b)
      PROVE  /\ Reserves(Back(b, k)) = {} /\ ItemMatch(Back(b, k), Back(b, k), st, n)
             /\ Back(b, k).k \notin PopLike \cup Micro \cup {"again"}
  <2>1. IsCode(Back(b, k))
    BY DEF AllCode
  <2>2. Reserves(Back(b, k)) = {} /\ Back(b, k).k \notin PopLike \cup Micro \cup {"again"}
    BY <2>1, CodeFacts
  <2>3. ItemMatch(Back(b, k), Back(b, k), st, n)
    BY <2>1 DEF ItemMatch
  <2> QED
    BY <2>2, <2>3
<1>3. ItemsMatch(b, b, st, n)
  BY <1>1, <1>2, ItemsBy
<1> QED
  BY <1>1, <1>2, <1>3

LEMMA SettledCat ==
  ASSUME NEW b, NEW c, AnySeq(b), AnySeq(c), Settled(c), \A k \in 1 .. Len(b) : Back(b, k).k \notin Micro
  PROVE  Settled(b \o c)
<1>1. PICK u : u = b \o c
  OBVIOUS
<1>2. /\ AnySeq(u) /\ Len(u) = Len(b) + Len(c) /\ \A k \in 1 .. Len(c) : Back(u, k) = Back(c, k)
      /\ \A k \in 1 .. Len(b) : Back(u, Len(c) + k) = Back(b, k)
  BY <1>1, CatFacts
<1>3. Len(b) \in Nat /\ Len(c) \in Nat
  BY AnyFacts
<1>4. ASSUME NEW k \in 1 .. Len(u)
      PROVE  Back(u, k).k \notin Micro
  <2>1. CASE k \in 1 .. Len(c)
    BY <1>2, <2>1 DEF Settled
  <2>2. CASE k \notin 1 .. Len(c)
    <3>1. PICK i : i = k - Len(c)
      OBVIOUS
    <3>2. i \in 1 .. Len(b) /\ k = Len(c) + i
      BY <1>2, <1>3, <2>2, <3>1
    <3> QED
      BY <1>2, <3>2
  <2> QED
    BY <2>1, <2>2
<1> QED
  BY <1>1, <1>4 DEF Settled

(* Statements in front; where one binds a name, that must be possible. *)
LEMMA CodeInFront ==
  ASSUME NEW c, NEW sc, NEW td, NEW en, NEW Lv, NEW st, NEW n, Matches(c, sc, td, en, Lv, st, n), Settled(c),
         NEW b, AllCode(b), Binds(b) => Clear(c, sc, en, Lv)
  PROVE  Matches(b \o c, sc, b \o td, en, Lv, st, n)
<1>1. /\ ItemsMatch(c, td, st, n) /\ Levels(c, sc, en, Lv) /\ Steep(c, Lv) /\ Names(sc, en, Lv, st)
      /\ Apart(c, sc) /\ Places(c, sc, en, Lv) /\ AnySeq(c) /\ Len(c) \in Nat
      /\ AnySeq(sc) /\ AnySeq(en) /\ AnySeq(Lv) /\ Len(Lv) = Len(en) /\ Len(en) = Depth(c, Len(c)) /\ Lv[Len(en)] = Len(sc)
      /\ Len(en) \in Nat \ {0}
  BY MatchFacts
<1>2. /\ AnySeq(b) /\ ItemsMatch(b, b, st, n)
      /\ \A k \in 1 .. Len(b) : /\ Reserves(Back(b, k)) = {}
                                /\ Back(b, k).k \notin PopLike \cup Micro \cup {"again"}
  BY AllCodeFacts
<1>3. PICK u, L, M : u = b \o c /\ L = Len(c) /\ M = Len(b)
  OBVIOUS
<1>4. /\ AnySeq(u) /\ Len(u) = L + M /\ (\A k \in 1 .. L : Back(u, k) = Back(c, k))
      /\ \A k \in 1 .. M : Back(u, L + k) = Back(b, k)
  <2>1. /\ AnySeq(u) /\ Len(u) = M + L /\ (\A k \in 1 .. L : Back(u, k) = Back(c, k))
        /\ \A k \in 1 .. M : Back(u, L + k) = Back(b, k)
    BY <1>1, <1>2, <1>3, CatFacts
  <2>2. M \in Nat
    BY <1>2, <1>3, AnyFacts
  <2> QED
    BY <1>1, <1>3, <2>1, <2>2
<1>5. M \in Nat /\ L \in Nat
  BY <1>1, <1>2, <1>3, AnyFacts
<1>6. ItemsMatch(u, b \o td, st, n)
  BY <1>1, <1>2, <1>3, ItemsCat
<1>7. (\A k \in 0 .. L : Depth(u, k) = Depth(c, k)) /\ (\A k \in L .. L + M : Depth(u, k) = Len(en))
  <2>1. \A k \in 0 .. L : Depth(u, k) = Depth(c, k)
    BY <1>1, <1>2, <1>3, DepthCat
  <2>2. \A j \in 1 .. Len(b) : Back(b, j).k \notin PopLike
    BY <1>2
  <2>3. \A k \in L .. L + M : Depth(u, k) = Depth(c, L)
    BY <1>1, <1>2, <1>3, <2>2, DepthCat
  <2> QED
    BY <1>1, <1>3, <2>1, <2>3
<1>8. Levels(u, sc, en, Lv)
  <2>1. Len(en) = Depth(u, Len(u))
    BY <1>4, <1>5, <1>7
  <2> QED
    BY <1>1, <2>1 DEF Levels
<1>9. Steep(u, Lv)
  <2>1. ASSUME NEW k \in 1 .. Len(u)
        PROVE  /\ Back(u, k).k = "pop" => Lv[Depth(u, k)] = Lv[Depth(u, k - 1)] + 1
               /\ Back(u, k).k = "fpop" => Lv[Depth(u, k)] = Lv[Depth(u, k - 1)]
               /\ Back(u, k).k \in Binders => \A i \in 1 .. Depth(u, k) - 1 : Lv[i] < Lv[Depth(u, k)]
    <3>1. CASE k \in 1 .. L
      <4>1. k \in 0 .. L /\ k - 1 \in 0 .. L /\ k \in 1 .. Len(c)
        BY <1>3, <1>5, <3>1
      <4>2. Depth(u, k) = Depth(c, k) /\ Depth(u, k - 1) = Depth(c, k - 1) /\ Back(u, k) = Back(c, k)
        BY <1>4, <1>7, <3>1, <4>1
      <4> QED
        BY <1>1, <4>1, <4>2 DEF Steep
    <3>2. CASE k \notin 1 .. L
      <4>1. PICK i : i = k - L
        OBVIOUS
      <4>2. i \in 1 .. M /\ k = L + i /\ k \in L .. L + M
        BY <1>4, <1>5, <3>2, <4>1
      <4>3. Back(u, k).k \notin PopLike
        BY <1>2, <1>3, <1>4, <4>2
      <4>4. Back(u, k).k # "pop" /\ Back(u, k).k # "fpop"
        BY <4>3 DEF PopLike
      <4>5. Back(u, k).k \in Binders => Clear(c, sc, en, Lv)
        BY <1>3, <1>4, <4>2 DEF Binds
      <4>6. Depth(u, k) = Len(en)
        BY <1>7, <4>2
      <4> QED
        BY <1>1, <4>4, <4>5, <4>6 DEF Clear
    <3> QED
      BY <3>1, <3>2
  <2> QED
    BY <2>1 DEF Steep
<1>10. Apart(u, sc)
  BY <1>1, <1>2, <1>3, ApartCat
<1>11. Settled(u)
  BY <1>1, <1>2, <1>3, SettledCat
<1>12. ASSUME NEW k \in 1 .. Len(u), Back(u, k).k = "again"
       PROVE  LoopPlace(u, k, sc, en, Lv)
  <2>1. k \in 1 .. L
    <3>1. SUFFICES ASSUME k \notin 1 .. L PROVE FALSE
      OBVIOUS
    <3>2. PICK i : i = k - L
      OBVIOUS
    <3>3. i \in 1 .. M /\ k = L + i
      BY <1>4, <1>5, <3>1, <3>2
    <3>4. Back(u, k).k \notin PopLike \cup Micro \cup {"again"}
      BY <1>2, <1>3, <1>4, <3>3
    <3> QED
      BY <1>12, <3>4
  <2>2. Back(c, k).k = "again" /\ LoopPlace(c, k, sc, en, Lv)
    <3>1. Back(c, k).k = "again"
      BY <1>4, <1>12, <2>1
    <3> QED
      BY <1>1, <1>3, <2>1, <3>1, PlaceFacts
  <2>3. PICK d : d = Depth(c, k)
    OBVIOUS
  <2>4. ASSUME NEW j \in 1 .. M, Back(b, j).k \in Binders
        PROVE  d < Depth(u, L + j)
    <3>1. Clear(c, sc, en, Lv)
      BY <1>3, <2>4 DEF Binds
    <3>2. d < Len(en)
      BY <1>3, <2>1, <2>2, <2>3, <3>1 DEF Clear
    <3>3. L + j \in L .. L + M
      BY <1>5
    <3> QED
      BY <1>7, <3>2, <3>3
  <2>5. BindsAbove(d, b, c)
    BY <1>3, <2>4 DEF BindsAbove
  <2>6. SameAround(d, sc, en, Lv, sc, en, Lv)
    BY DEF SameAround
  <2> QED
    BY <1>1, <1>2, <1>3, <2>1, <2>2, <2>3, <2>5, <2>6, LoopPlaceCat
<1>13. Places(u, sc, en, Lv)
  BY <1>11, <1>12, PlacesBy
<1>14. Matches(u, sc, b \o td, en, Lv, st, n)
  BY <1>1, <1>6, <1>8, <1>9, <1>10, <1>13, MatchesBy
<1> QED
  BY <1>3, <1>14
OneMore(s, t) == AnySeq(t) /\ Len(t) = Len(s) + 1 /\ \A i \in 1 .. Len(s) : t[i] = s[i]

(* The end of a block, or of a for's body, in front. *)
LEMMA ScopeInFront ==
  ASSUME NEW c, NEW sc, NEW td, NEW en, NEW Lv, NEW st, NEW n, Matches(c, sc, td, en, Lv, st, n), Settled(c),
         NEW x, x.k \in PopLike, NEW sc1, AnySeq(sc1),
         Len(sc1) = IF x.k = "pop" THEN Len(sc) + 1 ELSE Len(sc),
         \A k \in 0 .. Len(sc) : SubSeq(sc1, 1, k) = SubSeq(sc, 1, k),
         NEW en1, OneMore(en, en1), NEW Lv1, OneMore(Lv, Lv1), Lv1[Len(Lv) + 1] = Len(sc1),
         Names(sc1, en1, Lv1, st), Apart(c, sc1)
  PROVE  /\ Matches(<<x>> \o c, sc1, <<Pop>> \o td, en1, Lv1, st, n) /\ Settled(<<x>> \o c)
         /\ x.k = "pop" => Clear(<<x>> \o c, sc1, en1, Lv1)
<1>1. /\ ItemsMatch(c, td, st, n) /\ Levels(c, sc, en, Lv) /\ Steep(c, Lv) /\ Places(c, sc, en, Lv)
      /\ AnySeq(c) /\ Len(c) \in Nat /\ AnySeq(sc) /\ AnySeq(en) /\ AnySeq(Lv) /\ Len(Lv) = Len(en)
      /\ Len(en) = Depth(c, Len(c)) /\ Lv[Len(en)] = Len(sc) /\ Len(en) \in Nat \ {0} /\ Len(sc) \in Nat \ {0}
  BY MatchFacts
<1>2. /\ \A j \in 1 .. Len(en) : Lv[j] \in 1 .. Len(sc)
      /\ \A j \in 1 .. Len(en) : \A i \in 1 .. j : Lv[i] <= Lv[j]
      /\ \A k \in 0 .. Len(c) : Depth(c, k) \in 1 .. Len(en)
  BY <1>1, LevelFacts
<1>3. PICK u, L, D, N : u = <<x>> \o c /\ L = Len(c) /\ D = Len(en) /\ N = Len(sc1)
  OBVIOUS
<1>4. AnySeq(<<x>>) /\ Len(<<x>>) = 1 /\ Back(<<x>>, 1) = x
  BY OneItem DEF Back
<1>5. /\ AnySeq(u) /\ Len(u) = L + 1 /\ Back(u, L + 1) = x /\ \A k \in 1 .. L : Back(u, k) = Back(c, k)
  BY <1>1, <1>3, ConsFacts
<1>6. \A k \in 0 .. L : Depth(u, k) = Depth(c, k)
  BY <1>1, <1>3, <1>4, DepthCat
<1>7. Depth(u, L + 1) = D + 1 /\ Depth(u, L) = D
  <2>1. L + 1 \in Nat \ {0} /\ (L + 1) - 1 = L /\ L \in 0 .. L
    BY <1>1, <1>3
  <2>2. Depth(u, L + 1) = Depth(u, L) + 1
    BY <1>5, <2>1, DepthStep
  <2> QED
    BY <1>1, <1>3, <1>6, <2>1, <2>2
<1>8. AnySeq(en1) /\ Len(en1) = D + 1 /\ \A i \in 1 .. D : en1[i] = en[i]
  BY <1>1, <1>3 DEF OneMore
<1>9. AnySeq(Lv1) /\ Len(Lv1) = D + 1 /\ Lv1[D + 1] = N /\ \A i \in 1 .. D : Lv1[i] = Lv[i]
  BY <1>1, <1>3 DEF OneMore
<1>10. N \in Nat \ {0} /\ Len(sc) <= N /\ D \in Nat \ {0} /\ L \in Nat
  BY <1>1, <1>3
<1>11. ItemsMatch(u, <<Pop>> \o td, st, n)
  <2>1. ItemMatch(x, Pop, st, n)
    BY DEF ItemMatch
  <2> QED
    BY <1>1, <1>3, <2>1, ItemsOne, ItemsCat
<1>12. Levels(u, sc1, en1, Lv1)
  <2>1. ASSUME NEW j \in 1 .. D + 1
        PROVE  Lv1[j] \in 1 .. N /\ \A i \in 1 .. j : Lv1[i] <= Lv1[j]
    <3>1. CASE j \in 1 .. D
      <4>1. \A i \in 1 .. j : i \in 1 .. D
        BY <1>10, <3>1
      <4>2. Lv1[j] = Lv[j] /\ \A i \in 1 .. j : Lv1[i] = Lv[i]
        BY <1>9, <3>1, <4>1
      <4>3. Lv[j] \in 1 .. Len(sc) /\ \A i \in 1 .. j : Lv[i] <= Lv[j]
        BY <1>2, <1>3, <3>1
      <4>4. Lv[j] \in 1 .. N
        BY <1>1, <1>10, <4>3
      <4> QED
        BY <4>2, <4>3, <4>4
    <3>2. CASE j = D + 1
      <4>1. \A i \in 1 .. j : i \in 1 .. D \/ i = D + 1
        BY <1>10, <3>2
      <4>2. \A i \in 1 .. D : Lv[i] \in 1 .. Len(sc)
        BY <1>2, <1>3
      <4>3. \A i \in 1 .. D : Lv1[i] <= N
        BY <1>1, <1>9, <1>10, <4>2
      <4> QED
        BY <1>9, <1>10, <3>2, <4>1, <4>3
    <3> QED
      BY <1>10, <3>1, <3>2
  <2> QED
    BY <1>3, <1>5, <1>7, <1>8, <1>9, <2>1 DEF Levels
<1>13. \A k \in 1 .. L + 1 : k \in 1 .. L \/ k = L + 1
  BY <1>10
<1>14. Steep(u, Lv1)
  <2>1. ASSUME NEW k \in 1 .. L
        PROVE  /\ Back(u, k).k = "pop" => Lv1[Depth(u, k)] = Lv1[Depth(u, k - 1)] + 1
               /\ Back(u, k).k = "fpop" => Lv1[Depth(u, k)] = Lv1[Depth(u, k - 1)]
               /\ Back(u, k).k \in Binders => \A i \in 1 .. Depth(u, k) - 1 : Lv1[i] < Lv1[Depth(u, k)]
    <3>1. k \in 0 .. L /\ k - 1 \in 0 .. L /\ k \in 1 .. Len(c)
      BY <1>3, <1>10
    <3>2. PICK d, e : d = Depth(c, k) /\ e = Depth(c, k - 1)
      OBVIOUS
    <3>3. Depth(u, k) = d /\ Depth(u, k - 1) = e /\ Back(u, k) = Back(c, k) /\ d \in 1 .. D /\ e \in 1 .. D
      BY <1>2, <1>3, <1>5, <1>6, <3>1, <3>2
    <3>4. Lv1[d] = Lv[d] /\ Lv1[e] = Lv[e] /\ \A i \in 1 .. d - 1 : Lv1[i] = Lv[i]
      BY <1>9, <1>10, <3>3
    <3> QED
      BY <1>1, <3>1, <3>2, <3>3, <3>4 DEF Steep
  <2>2. /\ x.k = "pop" => Lv1[Depth(u, L + 1)] = Lv1[Depth(u, L)] + 1
        /\ x.k = "fpop" => Lv1[Depth(u, L + 1)] = Lv1[Depth(u, L)]
        /\ x.k \notin Binders
    <3>1. Lv1[D] = Len(sc) /\ "pop" # "fpop"
      BY <1>1, <1>3, <1>9, <1>10
    <3>2. x.k = "pop" => N = Len(sc) + 1
      BY <1>3
    <3>3. x.k = "fpop" => N = Len(sc)
      BY <1>3
    <3>4. x.k \notin Binders
      BY DEF Binders, PopLike
    <3> QED
      BY <1>7, <1>9, <3>1, <3>2, <3>3, <3>4
  <2>3. (L + 1) - 1 = L
    BY <1>10
  <2> QED
    BY <1>5, <1>13, <2>1, <2>2, <2>3 DEF Steep
<1>15. Apart(u, sc1)
  <2>1. Reserves(x) = {}
    BY DEF Reserves, PopLike, Micro
  <2>2. \A k \in 1 .. Len(<<x>>) : Reserves(Back(<<x>>, k)) = {}
    BY <1>4, <2>1
  <2> QED
    BY <1>1, <1>3, <1>4, <2>2, ApartCat
<1>16. Settled(u)
  <2>1. x.k \notin Micro
    BY DEF PopLike, Micro
  <2>2. \A k \in 1 .. Len(<<x>>) : Back(<<x>>, k).k \notin Micro
    BY <1>4, <2>1
  <2> QED
    BY <1>1, <1>3, <1>4, <2>2, SettledCat
<1>17. ASSUME NEW k \in 1 .. Len(u), Back(u, k).k = "again"
       PROVE  k \in 1 .. L /\ LoopPlace(u, k, sc1, en1, Lv1)
  <2>1. x.k # "again" /\ x.k \notin Binders
    BY DEF PopLike, Binders
  <2>2. k \in 1 .. L
    BY <1>5, <1>13, <1>17, <2>1
  <2>3. LoopPlace(c, k, sc, en, Lv) /\ k \in 1 .. Len(c)
    BY <1>1, <1>3, <1>5, <1>17, <2>2, PlaceFacts
  <2>4. PICK d : d = Depth(c, k)
    OBVIOUS
  <2>5. d \in 1 .. D
    <3>1. k \in 0 .. Len(c)
      BY <1>1, <2>3
    <3> QED
      BY <1>2, <1>3, <2>4, <3>1
  <2>6. SubSeq(sc1, 1, Lv1[d]) = SubSeq(sc, 1, Lv[d])
    <3>1. Lv1[d] = Lv[d] /\ Lv[d] \in 0 .. Len(sc)
      BY <1>1, <1>2, <1>3, <1>9, <2>5
    <3> QED
      BY <3>1
  <2>7. \A i \in 1 .. d : DOMAIN en1[i] = DOMAIN en[i]
    BY <1>8, <1>10, <2>5
  <2>0. PICK b : b = <<x>>
    OBVIOUS
  <2>8. AnySeq(b) /\ BindsAbove(d, b, c)
    BY <1>4, <2>0, <2>1 DEF BindsAbove
  <2>10. SameAround(d, sc, en, Lv, sc1, en1, Lv1)
    BY <2>6, <2>7 DEF SameAround
  <2>9. LoopPlace(b \o c, k, sc1, en1, Lv1)
    BY <1>1, <2>3, <2>4, <2>8, <2>10, LoopPlaceCat
  <2> QED
    BY <1>3, <2>0, <2>2, <2>9
<1>18. Places(u, sc1, en1, Lv1)
  BY <1>16, <1>17, PlacesBy
<1>19. Matches(u, sc1, <<Pop>> \o td, en1, Lv1, st, n)
  BY <1>11, <1>12, <1>14, <1>15, <1>18, MatchesBy
<1>20. ASSUME x.k = "pop"
       PROVE  Clear(u, sc1, en1, Lv1)
  <2>1. Len(en1) - 1 = D /\ N = Len(sc) + 1
    BY <1>3, <1>8, <1>10, <1>20
  <2>2. \A i \in 1 .. D : Lv1[i] < N
    BY <1>1, <1>2, <1>3, <1>9, <2>1
  <2>3. ASSUME NEW k \in 1 .. Len(u), Back(u, k).k = "again"
        PROVE  Depth(u, k) < Len(en1)
    <3>1. k \in 1 .. L
      BY <1>17, <2>3
    <3>2. k \in 0 .. L
      BY <1>10, <3>1
    <3>3. Depth(u, k) \in 1 .. D
      BY <1>2, <1>3, <1>6, <3>2
    <3> QED
      BY <1>8, <1>10, <3>3
  <2> QED
    BY <1>3, <2>1, <2>2, <2>3 DEF Clear
<1> QED
  BY <1>3, <1>16, <1>19, <1>20
NoNames == [x \in {} |-> 0]

LEMMA NoNamesFacts == DOMAIN NoNames = {} /\ IsFrame(NoNames)
<1>1. DOMAIN NoNames = {} /\ NoNames \in [{} -> Int]
  BY DEF NoNames
<1> QED
  BY <1>1 DEF IsFrame

LEMMA NamesPop ==
  ASSUME NEW c, NEW sc, NEW en, NEW Lv, NEW st, AnySeq(c), Levels(c, sc, en, Lv), Names(sc, en, Lv, st),
         NEW sc1, OneMore(sc, sc1), sc1[Len(sc) + 1] = NoNames,
         NEW en1, OneMore(en, en1), en1[Len(en) + 1] = NoNames,
         NEW Lv1, OneMore(Lv, Lv1), Lv1[Len(Lv) + 1] = Len(sc1)
  PROVE  Names(sc1, en1, Lv1, st)
<1>1. PICK D, N : D = Len(en) /\ N = Len(sc)
  OBVIOUS
<1>2. /\ N \in Nat /\ D \in Nat /\ Len(Lv) = D /\ \A j \in 1 .. D : Lv[j] \in 1 .. N
  BY <1>1, LevelFacts
<1>3. /\ Len(sc1) = N + 1 /\ sc1[N + 1] = NoNames /\ \A i \in 1 .. N : sc1[i] = sc[i]
  BY <1>1 DEF OneMore
<1>4. /\ Len(en1) = D + 1 /\ en1[D + 1] = NoNames /\ \A i \in 1 .. D : en1[i] = en[i]
  BY <1>1 DEF OneMore
<1>5. Lv1[D + 1] = N + 1 /\ \A i \in 1 .. D : Lv1[i] = Lv[i]
  BY <1>1, <1>2, <1>3 DEF OneMore
<1>6. \A j \in 1 .. D + 1 : j \in 1 .. D \/ j = D + 1
  BY <1>2
<1>7. DOMAIN NoNames = {} /\ IsFrame(NoNames)
  BY NoNamesFacts
<1>8. \A j \in 1 .. D : sc1[Lv1[j]] = sc[Lv[j]]
  BY <1>2, <1>3, <1>5
<1>9. \A j \in 1 .. Len(en1) : IsFrame(en1[j])
  BY <1>1, <1>4, <1>6, <1>7 DEF Names
<1>10. \A j \in 1 .. Len(en1) : \A x \in DOMAIN en1[j] :
         x \in DOMAIN sc1[Lv1[j]] /\ Holds(st, sc1[Lv1[j]][x], en1[j][x])
  BY <1>1, <1>4, <1>6, <1>7, <1>8 DEF Names
<1>11. ASSUME NEW m \in 1 .. Len(sc1), NEW x \in DOMAIN sc1[m]
       PROVE  \/ \E j \in 1 .. Len(en1) : Lv1[j] = m /\ x \in DOMAIN en1[j]
              \/ \A j \in 1 .. Len(en1) : Lv1[j] <= m => x \notin DOMAIN en1[j]
  <2>1. m \in 1 .. N /\ x \in DOMAIN sc[m]
    <3>1. m # N + 1
      BY <1>3, <1>7
    <3>2. Len(sc1) = N + 1
      BY <1>3
    <3>3. m \in 1 .. N
      BY <1>2, <3>1, <3>2
    <3>4. sc1[m] = sc[m]
      BY <1>3, <3>3
    <3> QED
      BY <3>3, <3>4
  <2>2. \/ \E j \in 1 .. D : Lv[j] = m /\ x \in DOMAIN en[j]
        \/ \A j \in 1 .. D : Lv[j] <= m => x \notin DOMAIN en[j]
    BY <1>1, <2>1 DEF Names
  <2>3. \A j \in 1 .. D : j \in 1 .. D + 1
    BY <1>2
  <2> QED
    BY <1>4, <1>5, <1>6, <1>7, <2>2, <2>3
<1>12. ASSUME NEW j \in 2 .. Len(en1), Lv1[j - 1] = Lv1[j], NEW x \in DOMAIN en1[j], NEW i \in 1 .. j - 1
       PROVE  x \notin DOMAIN en1[i]
  <2>1. j # D + 1
    BY <1>4, <1>7
  <2>2. j \in 2 .. D /\ j \in 1 .. D /\ j - 1 \in 1 .. D /\ i \in 1 .. D
    BY <1>2, <1>4, <2>1
  <2>3. Lv[j - 1] = Lv[j] /\ x \in DOMAIN en[j] /\ en1[i] = en[i]
    BY <1>4, <1>5, <1>12, <2>2
  <2> QED
    BY <1>1, <2>2, <2>3 DEF Names
<1> QED
  BY <1>9, <1>10, <1>11, <1>12 DEF Names

LEMMA NamesFPop ==
  ASSUME NEW c, NEW sc, NEW en, NEW Lv, NEW st, AnySeq(c), Levels(c, sc, en, Lv), Names(sc, en, Lv, st),
         NEW x \in Name, NEW v \in Int, ~ BoundIn(en, x), x \in DOMAIN sc[Len(sc)],
         Holds(st, sc[Len(sc)][x], v),
         NEW en1, OneMore(en, en1), en1[Len(en) + 1] = [z \in {x} |-> v],
         NEW Lv1, OneMore(Lv, Lv1), Lv1[Len(Lv) + 1] = Len(sc)
  PROVE  Names(sc, en1, Lv1, st)
<1>1. PICK D, N, f : D = Len(en) /\ N = Len(sc) /\ f = [z \in {x} |-> v]
  OBVIOUS
<1>2. /\ N \in Nat \ {0} /\ D \in Nat /\ Len(Lv) = D /\ (\A j \in 1 .. D : Lv[j] \in 1 .. N)
      /\ \A j \in 1 .. D : x \notin DOMAIN en[j]
  <2>1. /\ N \in Nat \ {0} /\ D \in Nat /\ Len(Lv) = D /\ (\A j \in 1 .. D : Lv[j] \in 1 .. N) /\ AnySeq(en)
    BY <1>1, LevelFacts
  <2>2. DOMAIN en = 1 .. D
    BY <1>1, <2>1, AnyFacts
  <2> QED
    BY <2>1, <2>2 DEF BoundIn
<1>3. DOMAIN f = {x} /\ f[x] = v /\ IsFrame(f)
  <2>1. DOMAIN f = {x} /\ f[x] = v /\ f \in [{x} -> Int]
    BY <1>1
  <2> QED
    BY <2>1 DEF IsFrame
<1>4. /\ Len(en1) = D + 1 /\ en1[D + 1] = f /\ \A i \in 1 .. D : en1[i] = en[i]
  BY <1>1 DEF OneMore
<1>5. Lv1[D + 1] = N /\ \A i \in 1 .. D : Lv1[i] = Lv[i]
  BY <1>1, <1>2 DEF OneMore
<1>6. \A j \in 1 .. D + 1 : j \in 1 .. D \/ j = D + 1
  BY <1>2
<1>7. D + 1 \in 1 .. D + 1 /\ \A j \in 1 .. D : j \in 1 .. D + 1
  BY <1>2
<1>8. \A j \in 1 .. Len(en1) : IsFrame(en1[j])
  BY <1>1, <1>3, <1>4, <1>6 DEF Names
<1>9. ASSUME NEW j \in 1 .. Len(en1), NEW y \in DOMAIN en1[j]
      PROVE  y \in DOMAIN sc[Lv1[j]] /\ Holds(st, sc[Lv1[j]][y], en1[j][y])
  <2>1. CASE j \in 1 .. D
    BY <1>1, <1>4, <1>5, <1>9, <2>1 DEF Names
  <2>2. CASE j = D + 1
    <3>1. y = x
      BY <1>3, <1>4, <1>9, <2>2
    <3> QED
      BY <1>1, <1>3, <1>4, <1>5, <2>2, <3>1
  <2> QED
    BY <1>4, <1>6, <2>1, <2>2
<1>10. ASSUME NEW m \in 1 .. Len(sc), NEW y \in DOMAIN sc[m]
       PROVE  \/ \E j \in 1 .. Len(en1) : Lv1[j] = m /\ y \in DOMAIN en1[j]
              \/ \A j \in 1 .. Len(en1) : Lv1[j] <= m => y \notin DOMAIN en1[j]
  <2>1. CASE y = x /\ m = N
    BY <1>3, <1>4, <1>5, <1>7, <2>1
  <2>2. CASE y = x /\ m # N
    <3>1. ~ (N <= m)
      BY <1>1, <1>2, <2>2
    <3> QED
      BY <1>2, <1>4, <1>5, <1>6, <2>2, <3>1
  <2>3. CASE y # x
    <3>1. \/ \E j \in 1 .. D : Lv[j] = m /\ y \in DOMAIN en[j]
          \/ \A j \in 1 .. D : Lv[j] <= m => y \notin DOMAIN en[j]
      BY <1>1, <1>10 DEF Names
    <3> QED
      BY <1>3, <1>4, <1>5, <1>6, <1>7, <2>3, <3>1
  <2> QED
    BY <2>1, <2>2, <2>3
<1>11. ASSUME NEW j \in 2 .. Len(en1), Lv1[j - 1] = Lv1[j], NEW y \in DOMAIN en1[j], NEW i \in 1 .. j - 1
       PROVE  y \notin DOMAIN en1[i]
  <2>1. CASE j = D + 1
    <3>1. y = x /\ i \in 1 .. D
      BY <1>2, <1>3, <1>4, <1>11, <2>1
    <3> QED
      BY <1>2, <1>4, <3>1
  <2>2. CASE j # D + 1
    <3>1. j \in 2 .. D /\ j \in 1 .. D /\ j - 1 \in 1 .. D /\ i \in 1 .. D
      BY <1>2, <1>4, <2>2
    <3>2. Lv[j - 1] = Lv[j] /\ y \in DOMAIN en[j] /\ en1[i] = en[i]
      BY <1>4, <1>5, <1>11, <3>1
    <3> QED
      BY <1>1, <3>1, <3>2 DEF Names
  <2> QED
    BY <2>1, <2>2
<1> QED
  BY <1>8, <1>9, <1>10, <1>11 DEF Names
LEMMA PushedOne == ASSUME NEW s, AnySeq(s), NEW a PROVE OneMore(s, Append(s, a)) /\ Append(s, a)[Len(s) + 1] = a
<1>1. PICK t : t = Append(s, a)
  OBVIOUS
<1>2. AnySeq(t) /\ Len(t) = Len(s) + 1 /\ t[Len(s) + 1] = a /\ \A i \in 1 .. Len(s) : t[i] = s[i]
  BY <1>1, PushedFacts
<1> QED
  BY <1>1, <1>2 DEF OneMore

LEMMA PopInFront ==
  ASSUME NEW c, NEW sc, NEW td, NEW en, NEW Lv, NEW st, NEW n, Matches(c, sc, td, en, Lv, st, n), Settled(c)
  PROVE  \E Lv1 : /\ Matches(<<Pop>> \o c, Append(sc, NoNames), <<Pop>> \o td, Append(en, NoNames), Lv1, st, n)
                  /\ Settled(<<Pop>> \o c)
                  /\ Clear(<<Pop>> \o c, Append(sc, NoNames), Append(en, NoNames), Lv1)
<1>1. /\ Levels(c, sc, en, Lv) /\ Names(sc, en, Lv, st) /\ Apart(c, sc)
      /\ AnySeq(c) /\ AnySeq(sc) /\ AnySeq(en) /\ AnySeq(Lv) /\ Len(sc) \in Nat
  BY MatchFacts
<1>2. PICK sc1, en1 : sc1 = Append(sc, NoNames) /\ en1 = Append(en, NoNames)
  OBVIOUS
<1>3. OneMore(sc, sc1) /\ sc1[Len(sc) + 1] = NoNames
  BY <1>1, <1>2, PushedOne
<1>4. OneMore(en, en1) /\ en1[Len(en) + 1] = NoNames
  BY <1>1, <1>2, PushedOne
<1>5. PICK Lv1 : OneMore(Lv, Lv1) /\ Lv1[Len(Lv) + 1] = Len(sc1)
  BY <1>1, PushedOne
<1>6. Names(sc1, en1, Lv1, st)
  BY <1>1, <1>3, <1>4, <1>5, NamesPop
<1>7. AnySeq(sc1) /\ Len(sc1) = Len(sc) + 1
  BY <1>3 DEF OneMore
<1>8. \A k \in 0 .. Len(sc) : SubSeq(sc1, 1, k) = SubSeq(sc, 1, k)
  BY <1>1, <1>2, PushedFacts
<1>9. Apart(c, sc1)
  <2>1. \A i \in 1 .. Len(sc1) : (i \in 1 .. Len(sc) /\ sc1[i] = sc[i]) \/ sc1[i] = NoNames
    <3>1. ASSUME NEW i \in 1 .. Len(sc1)
          PROVE  (i \in 1 .. Len(sc) /\ sc1[i] = sc[i]) \/ sc1[i] = NoNames
      <4>1. i \in 1 .. Len(sc) \/ i = Len(sc) + 1
        BY <1>1, <1>7
      <4> QED
        BY <1>3, <4>1 DEF OneMore
    <3> QED
      BY <3>1
  <2>2. DOMAIN NoNames = {}
    BY NoNamesFacts
  <2>3. \A i \in 1 .. Len(sc1) : \A x \in DOMAIN sc1[i] : i \in 1 .. Len(sc) /\ sc1[i] = sc[i]
    BY <2>1, <2>2
  <2>4. \A i, j \in 1 .. Len(sc1) : \A x \in DOMAIN sc1[i], y \in DOMAIN sc1[j] :
          sc1[i][x] = sc1[j][y] => i = j /\ x = y
    <3>1. ASSUME NEW i \in 1 .. Len(sc1), NEW j \in 1 .. Len(sc1), NEW x \in DOMAIN sc1[i], NEW y \in DOMAIN sc1[j]
          PROVE  sc1[i][x] = sc1[j][y] => i = j /\ x = y
      <4>1. i \in 1 .. Len(sc) /\ sc1[i] = sc[i] /\ j \in 1 .. Len(sc) /\ sc1[j] = sc[j]
        BY <2>3, <3>1
      <4> QED
        BY <1>1, <3>1, <4>1 DEF Apart
    <3> QED
      BY <3>1
  <2>5. \A i \in 1 .. Len(sc1) : \A x \in DOMAIN sc1[i] : \A k \in 1 .. Len(c) :
          sc1[i][x] \notin Reserves(Back(c, k))
    BY <1>1, <2>3 DEF Apart
  <2>6. \A i, k \in 1 .. Len(c) : i # k => Reserves(Back(c, i)) \cap Reserves(Back(c, k)) = {}
    BY <1>1 DEF Apart
  <2> QED
    BY <2>4, <2>5, <2>6 DEF Apart
<1>10. PICK x : x = Pop
  OBVIOUS
<1>11. x.k = "pop" /\ x.k \in PopLike
  BY <1>10 DEF Pop, PopLike
<1>12. Len(sc1) = IF x.k = "pop" THEN Len(sc) + 1 ELSE Len(sc)
  BY <1>7, <1>11
<1>13. /\ Matches(<<x>> \o c, sc1, <<Pop>> \o td, en1, Lv1, st, n) /\ Settled(<<x>> \o c)
       /\ Clear(<<x>> \o c, sc1, en1, Lv1)
  BY <1>4, <1>5, <1>6, <1>7, <1>8, <1>9, <1>11, <1>12, ScopeInFront
<1> QED
  BY <1>2, <1>10, <1>13

LEMMA FPopInFront ==
  ASSUME NEW c, NEW sc, NEW td, NEW en, NEW Lv, NEW st, NEW n, Matches(c, sc, td, en, Lv, st, n), Settled(c),
         NEW x \in Name, NEW v \in Int, ~ BoundIn(en, x), x \in DOMAIN sc[Len(sc)],
         Holds(st, sc[Len(sc)][x], v), NEW f, f = [z \in {x} |-> v], NEW en1, en1 = Append(en, f)
  PROVE  \E Lv1 : Matches(<<FPop>> \o c, sc, <<Pop>> \o td, en1, Lv1, st, n) /\ Settled(<<FPop>> \o c)
<1>1. /\ Levels(c, sc, en, Lv) /\ Names(sc, en, Lv, st) /\ Apart(c, sc)
      /\ AnySeq(c) /\ AnySeq(sc) /\ AnySeq(en) /\ AnySeq(Lv) /\ Len(sc) \in Nat
  BY MatchFacts
<1>3. OneMore(en, en1) /\ en1[Len(en) + 1] = f
  BY <1>1, PushedOne
<1>4. PICK Lv1 : OneMore(Lv, Lv1) /\ Lv1[Len(Lv) + 1] = Len(sc)
  BY <1>1, PushedOne
<1>5. Names(sc, en1, Lv1, st)
  BY <1>1, <1>3, <1>4, NamesFPop
<1>6. PICK w : w = FPop
  OBVIOUS
<1>7. w.k = "fpop" /\ w.k \in PopLike /\ w.k # "pop"
  BY <1>6 DEF FPop, PopLike
<1>8. Len(sc) = IF w.k = "pop" THEN Len(sc) + 1 ELSE Len(sc)
  BY <1>7
<1>9. Matches(<<w>> \o c, sc, <<Pop>> \o td, en1, Lv1, st, n) /\ Settled(<<w>> \o c)
  BY <1>1, <1>3, <1>4, <1>5, <1>7, <1>8, ScopeInFront
<1> QED
  BY <1>6, <1>9

(* Where a stage of a for, or what is left of a loop, may stand. *)
Standing(x, c, sc, en) ==
  /\ x.k \in Micro => StagePlace(c, x, sc, en)
  /\ x.k = "again" => /\ x.rest = c /\ x.sc = sc
                      /\ x.stmt.k \in ForKinds => ~ BoundIn(en, x.stmt.name)

LEMMA ApartOne ==
  ASSUME NEW c, NEW sc, NEW x, AnySeq(c), Apart(c, sc), Untouched(c, sc, Reserves(x))
  PROVE  Apart(<<x>> \o c, sc)
<1>1. PICK u, L : u = <<x>> \o c /\ L = Len(c)
  OBVIOUS
<1>2. AnySeq(u) /\ Len(u) = L + 1 /\ Back(u, L + 1) = x /\ \A k \in 1 .. L : Back(u, k) = Back(c, k)
  BY <1>1, ConsFacts
<1>3. \A k \in 1 .. L + 1 : (k \in 1 .. L /\ k # L + 1) \/ k = L + 1
  <2>1. L \in Nat
    BY <1>1, AnyFacts
  <2> QED
    BY <2>1
<1>4. \A i, j \in 1 .. Len(sc) : \A y \in DOMAIN sc[i], z \in DOMAIN sc[j] :
        sc[i][y] = sc[j][z] => i = j /\ y = z
  BY DEF Apart
<1>5. \A i \in 1 .. Len(sc) : \A y \in DOMAIN sc[i] : \A k \in 1 .. Len(u) :
        sc[i][y] \notin Reserves(Back(u, k))
  BY <1>1, <1>2, <1>3 DEF Apart, Untouched
<1>6. ASSUME NEW i \in 1 .. Len(u), NEW k \in 1 .. Len(u), i # k
      PROVE  Reserves(Back(u, i)) \cap Reserves(Back(u, k)) = {}
  <2>1. CASE i \in 1 .. L /\ k \in 1 .. L
    BY <1>1, <1>2, <1>6, <2>1 DEF Apart
  <2>2. CASE i = L + 1 /\ k \in 1 .. L
    BY <1>1, <1>2, <2>2 DEF Untouched
  <2>3. CASE k = L + 1 /\ i \in 1 .. L
    BY <1>1, <1>2, <2>3 DEF Untouched
  <2> QED
    BY <1>2, <1>3, <1>6, <2>1, <2>2, <2>3
<1>7. Apart(u, sc)
  BY <1>4, <1>5, <1>6 DEF Apart
<1> QED
  BY <1>1, <1>7
LEMMA ConsIs ==
  ASSUME NEW s, AnySeq(s), NEW a, NEW o, o = <<a>>, NEW w, w = o \o s
  PROVE  AnySeq(w) /\ Len(w) = Len(s) + 1 /\ Back(w, Len(s) + 1) = a /\ Tail(w) = s
BY ConsFacts

LEMMA ConsBack ==
  ASSUME NEW s, AnySeq(s), NEW o, Len(o) = 1, AnySeq(o), NEW w, w = o \o s, NEW k \in 1 .. Len(s)
  PROVE  Back(w, k) = Back(s, k)
BY CatFacts

LEMMA OneInFront ==
  ASSUME NEW c, NEW sc, NEW td, NEW en, NEW Lv, NEW st, NEW n, Matches(c, sc, td, en, Lv, st, n), Settled(c),
         NEW x, NEW y, ItemMatch(x, y, st, n), x.k \notin PopLike \cup Binders,
         Untouched(c, sc, Reserves(x)), Standing(x, c, sc, en)
  PROVE  /\ Matches(<<x>> \o c, sc, <<y>> \o td, en, Lv, st, n)
         /\ x.k \notin Micro => Settled(<<x>> \o c)
<1>1. /\ ItemsMatch(c, td, st, n) /\ Levels(c, sc, en, Lv) /\ Steep(c, Lv) /\ Names(sc, en, Lv, st)
      /\ Apart(c, sc) /\ Places(c, sc, en, Lv) /\ AnySeq(c) /\ Len(c) \in Nat
      /\ AnySeq(sc) /\ AnySeq(en) /\ Len(Lv) = Len(en) /\ Len(en) = Depth(c, Len(c)) /\ Lv[Len(en)] = Len(sc)
      /\ Len(en) \in Nat \ {0} /\ Len(sc) \in Nat \ {0}
  BY MatchFacts
<1>2. PICK b : b = <<x>>
  OBVIOUS
<1>3. AnySeq(b) /\ Len(b) = 1 /\ Back(b, 1) = x
  BY <1>2, OneItem DEF Back
<1>4. PICK u, L : u = b \o c /\ L = Len(c)
  OBVIOUS
<1>5. AnySeq(u) /\ Len(u) = L + 1 /\ Back(u, L + 1) = x /\ Tail(u) = c /\ \A k \in 1 .. L : Back(u, k) = Back(c, k)
  <2>1. AnySeq(c)
    BY <1>1
  <2>2. /\ AnySeq(u) /\ Len(u) = Len(c) + 1 /\ Back(u, Len(c) + 1) = x /\ Tail(u) = c
        /\ \A k \in 1 .. Len(c) : Back(u, k) = Back(c, k)
    <3>1. u = b \o c
      BY <1>4
    <3>2. AnySeq(u) /\ Len(u) = Len(c) + 1 /\ Tail(u) = c
      BY <1>2, <2>1, <3>1, ConsIs
    <3>3. Back(u, Len(c) + 1) = x
      BY <1>2, <2>1, <3>1, ConsIs
    <3>4. ASSUME NEW k \in 1 .. Len(c)
          PROVE  Back(u, k) = Back(c, k)
      BY <1>3, <2>1, <3>1, ConsBack
    <3> QED
      BY <3>2, <3>3, <3>4
  <2> QED
    BY <1>4, <2>2
<1>6. L \in Nat /\ \A k \in 1 .. L + 1 : k \in 1 .. L \/ k = L + 1
  BY <1>1, <1>4
<1>7. \A k \in 0 .. L : Depth(u, k) = Depth(c, k)
  BY <1>1, <1>3, <1>4, DepthCat
<1>8. Depth(u, L + 1) = Len(en)
  <2>1. L + 1 \in Nat \ {0} /\ (L + 1) - 1 = L /\ L \in 0 .. L
    BY <1>6
  <2>2. Depth(u, L + 1) = Depth(u, L)
    BY <1>5, <2>1, DepthStep
  <2> QED
    BY <1>1, <1>4, <1>7, <2>1, <2>2
<1>9. ItemsMatch(u, <<y>> \o td, st, n)
  BY <1>1, <1>2, <1>4, ItemsOne, ItemsCat
<1>10. Levels(u, sc, en, Lv)
  BY <1>1, <1>5, <1>8 DEF Levels
<1>11. x.k # "pop" /\ x.k # "fpop" /\ x.k \notin Binders
  BY DEF PopLike
<1>12. Steep(u, Lv)
  <2>1. ASSUME NEW k \in 1 .. L
        PROVE  /\ Back(u, k).k = "pop" => Lv[Depth(u, k)] = Lv[Depth(u, k - 1)] + 1
               /\ Back(u, k).k = "fpop" => Lv[Depth(u, k)] = Lv[Depth(u, k - 1)]
               /\ Back(u, k).k \in Binders => \A i \in 1 .. Depth(u, k) - 1 : Lv[i] < Lv[Depth(u, k)]
    <3>1. k \in 0 .. L /\ k - 1 \in 0 .. L /\ k \in 1 .. Len(c)
      BY <1>4, <1>6
    <3>2. Depth(u, k) = Depth(c, k) /\ Depth(u, k - 1) = Depth(c, k - 1) /\ Back(u, k) = Back(c, k)
      BY <1>5, <1>7, <3>1
    <3> QED
      BY <1>1, <3>1, <3>2 DEF Steep
  <2> QED
    BY <1>5, <1>6, <1>11, <2>1 DEF Steep
<1>13. Apart(u, sc)
  BY <1>1, <1>2, <1>4, ApartOne
<1>14. ASSUME NEW k \in 1 .. L, Back(u, k).k = "again"
       PROVE  LoopPlace(u, k, sc, en, Lv)
  <2>1. LoopPlace(c, k, sc, en, Lv) /\ k \in 1 .. Len(c)
    BY <1>1, <1>4, <1>5, <1>14, PlaceFacts
  <2>2. PICK d : d = Depth(c, k)
    OBVIOUS
  <2>3. SameAround(d, sc, en, Lv, sc, en, Lv)
    BY DEF SameAround
  <2>4. BindsAbove(d, b, c)
    BY <1>3, <1>11 DEF BindsAbove
  <2> QED
    BY <1>1, <1>3, <1>4, <2>1, <2>2, <2>3, <2>4, LoopPlaceCat
<1>15. ASSUME x.k = "again"
       PROVE  LoopPlace(u, L + 1, sc, en, Lv)
  <2>1. x.rest = c /\ x.sc = sc /\ (x.stmt.k \in ForKinds => ~ BoundIn(en, x.stmt.name))
    BY <1>15 DEF Standing
  <2>2. Last(u, L) = c /\ (L + 1) - 1 = L
    <3>1. u # <<>> /\ Len(u) - 1 = L
      BY <1>5, <1>6, AnyFacts
    <3>2. Last(u, Len(u) - 1) = Tail(u)
      BY <1>5, <3>1, LastOf
    <3> QED
      BY <1>5, <1>6, <3>1, <3>2
  <2>3. SubSeq(sc, 1, Len(sc)) = sc
    <3>1. 0 \in 0 .. Len(sc)
      BY <1>1
    <3> QED
      BY <1>1, <3>1, FirstFacts
  <2>4. DOMAIN en = 1 .. Len(en)
    BY <1>1, AnyFacts
  <2>5. x.stmt.k \in ForKinds => \A i \in 1 .. Len(en) : x.stmt.name \notin DOMAIN en[i]
    BY <2>1, <2>4 DEF BoundIn
  <2>6. \A j \in (L + 1) + 1 .. Len(u) : FALSE
    BY <1>5, <1>6
  <2> QED
    BY <1>1, <1>5, <1>8, <2>1, <2>2, <2>3, <2>5, <2>6 DEF LoopPlace
<1>16. ASSUME NEW k \in 1 .. Len(u)
       PROVE  /\ Back(u, k).k \in Micro => k = Len(u) /\ StagePlace(Last(u, k - 1), Back(u, k), sc, en)
              /\ Back(u, k).k = "again" => LoopPlace(u, k, sc, en, Lv)
  <2>1. CASE k \in 1 .. L
    <3>1. Back(u, k).k \notin Micro
      BY <1>4, <1>5, <2>1 DEF Settled
    <3> QED
      BY <1>14, <2>1, <3>1
  <2>2. CASE k = L + 1
    <3>1. Last(u, k - 1) = c
      <4>1. u # <<>> /\ Len(u) - 1 = L /\ k - 1 = L
        BY <1>5, <1>6, <2>2, AnyFacts
      <4>2. Last(u, Len(u) - 1) = Tail(u)
        BY <1>5, <4>1, LastOf
      <4> QED
        BY <1>5, <4>1, <4>2
    <3>2. x.k \in Micro => StagePlace(c, x, sc, en)
      BY DEF Standing
    <3> QED
      BY <1>5, <1>15, <2>2, <3>1, <3>2
  <2> QED
    BY <1>5, <1>6, <2>1, <2>2
<1>17. Places(u, sc, en, Lv)
  BY <1>16 DEF Places
<1>18. Matches(u, sc, <<y>> \o td, en, Lv, st, n)
  BY <1>1, <1>9, <1>10, <1>12, <1>13, <1>17, MatchesBy
<1>19. x.k \notin Micro => Settled(u)
  <2>1. ASSUME x.k \notin Micro, NEW k \in 1 .. Len(u)
        PROVE  Back(u, k).k \notin Micro
    BY <1>4, <1>5, <1>6, <2>1 DEF Settled
  <2> QED
    BY <2>1 DEF Settled
<1> QED
  BY <1>2, <1>4, <1>18, <1>19
(***************************************************************************)
(* Values that change.                                                       *)
(***************************************************************************)
AgreeBut(st, st1, D) == \A l, v : Holds(st, l, v) /\ l \notin D => Holds(st1, l, v)

(* No name of the statements has a local of D, and no loop keeps one. *)
Unseen(c, sc, en, Lv, D) ==
  /\ \A j \in 1 .. Len(en) : \A x \in DOMAIN en[j] : sc[Lv[j]][x] \notin D
  /\ \A k \in 1 .. Len(c) : Reserves(Back(c, k)) \cap D = {}

LEMMA KeepsFacts ==
  ASSUME NEW l, LoopKind(l), l.stmt.k \in ForKinds
  PROVE  /\ l.l \in Nat /\ l.l \in Keeps(l) /\ l.l + 1 \in Keeps(l)
         /\ l.stmt.k = "list" => l.l + 2 \in Keeps(l) /\ VarOf(l) = l.l + 3
         /\ l.stmt.k = "iter" => VarOf(l) = l.l + 2
         /\ VarOf(l) \notin Keeps(l) /\ \A d \in Keeps(l) : d \in Nat
<1>1. PICK d, s : d = l.l /\ s = l.stmt
  OBVIOUS
<1>2. d \in Nat /\ (s.k = "list" \/ s.k = "iter")
  BY <1>1 DEF LoopKind, ForKinds
<1>3. VarOf(l) = IF s.k = "list" THEN d + 3 ELSE d + 2
  BY <1>1 DEF VarOf
<1>4. Keeps(l) = d .. VarOf(l) - 1
  BY <1>1 DEF Keeps
<1> QED
  BY <1>1, <1>2, <1>3, <1>4

LEMMA LoopMatchKept ==
  ASSUME NEW x, NEW y, NEW st, NEW st1, NEW n, NEW D, LoopMatch(x, y, st, n), Keeps(x) \cap D = {},
         AgreeBut(st, st1, D)
  PROVE  LoopMatch(x, y, st1, n)
<1>1. LoopKind(x)
  BY DEF LoopMatch
<1>2. CASE x.stmt.k \in ForKinds
  <2>1. /\ x.l \in Keeps(x) /\ x.l + 1 \in Keeps(x)
    BY <1>1, <1>2, KeepsFacts
  <2>2. x.l \notin D /\ x.l + 1 \notin D
    BY <2>1
  <2>3. \A v : /\ Holds(st, x.l, v) => Holds(st1, x.l, v)
               /\ Holds(st, x.l + 1, v) => Holds(st1, x.l + 1, v)
    BY <2>2 DEF AgreeBut
  <2> QED
    BY <2>3 DEF LoopMatch
<1>3. CASE x.stmt.k \notin ForKinds
  <2>1. x.stmt.k # "list" /\ x.stmt.k # "iter"
    BY <1>3 DEF ForKinds
  <2> QED
    BY <1>3, <2>1 DEF LoopMatch
<1> QED
  BY <1>2, <1>3

LEMMA StageMatchKept ==
  ASSUME NEW x, NEW y, NEW st, NEW st1, NEW n, NEW D, StageMatch(x, y, st, n), Keeps(x.loop) \cap D = {},
         AgreeBut(st, st1, D)
  PROVE  StageMatch(x, y, st1, n)
<1>1. PICK l : l = x.loop
  OBVIOUS
<1>2. LoopKind(l) /\ l.stmt.k \in ForKinds /\ (y = l.stmt \/ IsRound(l.stmt, y))
  BY <1>1 DEF StageMatch
<1>3. CASE l.stmt.k = "list"
  <2>1. l.l \in Keeps(l) /\ l.l + 1 \in Keeps(l) /\ l.l + 2 \in Keeps(l)
    BY <1>2, <1>3, KeepsFacts
  <2>2. l.l \notin D /\ l.l + 1 \notin D /\ l.l + 2 \notin D
    BY <1>1, <2>1
  <2>3. \A v : /\ Holds(st, l.l, v) => Holds(st1, l.l, v)
               /\ Holds(st, l.l + 1, v) => Holds(st1, l.l + 1, v)
               /\ Holds(st, l.l + 2, v) => Holds(st1, l.l + 2, v)
    BY <2>2 DEF AgreeBut
  <2>4. ListStage(x.k, l.l, y, st, n)
    BY <1>1, <1>3 DEF StageMatch
  <2>5. ListStage(x.k, l.l, y, st1, n)
    BY <2>3, <2>4 DEF ListStage
  <2> QED
    BY <1>1, <1>2, <1>3, <2>5 DEF StageMatch
<1>4. CASE l.stmt.k = "iter"
  <2>1. l.l \in Keeps(l) /\ l.l + 1 \in Keeps(l)
    BY <1>2, <1>4, KeepsFacts
  <2>2. l.l \notin D /\ l.l + 1 \notin D
    BY <1>1, <2>1
  <2>3. \A v : /\ Holds(st, l.l, v) => Holds(st1, l.l, v)
               /\ Holds(st, l.l + 1, v) => Holds(st1, l.l + 1, v)
    BY <2>2 DEF AgreeBut
  <2>4. IterStage(x.k, l.l, y, st, n)
    BY <1>1, <1>4 DEF StageMatch
  <2>5. IterStage(x.k, l.l, y, st1, n)
    BY <2>3, <2>4 DEF IterStage
  <2> QED
    BY <1>1, <1>2, <1>4, <2>5 DEF StageMatch
<1> QED
  BY <1>2, <1>3, <1>4 DEF ForKinds

LEMMA ItemMatchKept ==
  ASSUME NEW x, NEW y, NEW st, NEW st1, NEW n, NEW D, ItemMatch(x, y, st, n), Reserves(x) \cap D = {},
         AgreeBut(st, st1, D)
  PROVE  ItemMatch(x, y, st1, n)
<1>1. CASE x.k \in PopLike /\ y = Pop
  BY <1>1 DEF ItemMatch
<1>2. CASE x.k = "again" /\ LoopMatch(x, y, st, n)
  <2>1. Keeps(x) \cap D = {}
    BY <1>2 DEF Reserves
  <2> QED
    BY <1>2, <2>1, LoopMatchKept DEF ItemMatch
<1>3. CASE x.k \in Micro /\ StageMatch(x, y, st, n)
  <2>1. x.k # "again"
    BY <1>3 DEF Micro
  <2>2. Keeps(x.loop) \cap D = {}
    BY <1>3, <2>1 DEF Reserves
  <2> QED
    BY <1>3, <2>2, StageMatchKept DEF ItemMatch
<1>4. CASE IsCode(x) /\ y = x
  BY <1>4 DEF ItemMatch
<1> QED
  BY <1>1, <1>2, <1>3, <1>4 DEF ItemMatch

LEMMA StoreKept ==
  ASSUME NEW c, NEW sc, NEW td, NEW en, NEW Lv, NEW st, NEW n, Matches(c, sc, td, en, Lv, st, n),
         NEW st1, NEW D, AgreeBut(st, st1, D), Unseen(c, sc, en, Lv, D)
  PROVE  Matches(c, sc, td, en, Lv, st1, n)
<1>1. /\ ItemsMatch(c, td, st, n) /\ Levels(c, sc, en, Lv) /\ Steep(c, Lv) /\ Names(sc, en, Lv, st)
      /\ Apart(c, sc) /\ Places(c, sc, en, Lv)
  BY MatchFacts
<1>2. /\ AnySeq(c) /\ AnySeq(td) /\ Len(td) = Len(c)
      /\ \A k \in 1 .. Len(c) : ItemMatch(Back(c, k), Back(td, k), st, n)
  BY <1>1, ItemsFacts
<1>3. ASSUME NEW k \in 1 .. Len(c)
      PROVE  ItemMatch(Back(c, k), Back(td, k), st1, n)
  <2>1. Reserves(Back(c, k)) \cap D = {}
    BY DEF Unseen
  <2> QED
    BY <1>2, <2>1, ItemMatchKept
<1>4. ItemsMatch(c, td, st1, n)
  BY <1>2, <1>3, ItemsBy
<1>5. \A j \in 1 .. Len(en) : \A x \in DOMAIN en[j] :
        x \in DOMAIN sc[Lv[j]] /\ Holds(st1, sc[Lv[j]][x], en[j][x])
  BY <1>1 DEF Names, Unseen, AgreeBut
<1>6. Names(sc, en, Lv, st1)
  BY <1>1, <1>5 DEF Names
<1> QED
  BY <1>1, <1>4, <1>6, MatchesBy

LEMMA UntouchedUnseen ==
  ASSUME NEW c, NEW sc, NEW td, NEW en, NEW Lv, NEW st, NEW n, Matches(c, sc, td, en, Lv, st, n),
         NEW D, Untouched(c, sc, D)
  PROVE  Unseen(c, sc, en, Lv, D)
<1>1. Levels(c, sc, en, Lv) /\ Names(sc, en, Lv, st) /\ AnySeq(c)
  BY MatchFacts
<1>2. \A j \in 1 .. Len(en) : Lv[j] \in 1 .. Len(sc)
  BY <1>1, LevelFacts
<1>3. \A j \in 1 .. Len(en) : \A x \in DOMAIN en[j] : x \in DOMAIN sc[Lv[j]]
  BY <1>1 DEF Names
<1> QED
  BY <1>2, <1>3 DEF Unseen, Untouched

LEMMA PutFacts ==
  ASSUME NEW st, NEW l, NEW v, NEW st1, st1 = [x \in DOMAIN st \cup {l} |-> IF x = l THEN v ELSE st[x]]
  PROVE  AgreeBut(st, st1, {l}) /\ Holds(st1, l, v)
BY DEF AgreeBut, Holds
With(f, x, v) == [y \in DOMAIN f \cup {x} |-> IF y = x THEN v ELSE f[y]]

WithIs(f, x, v, g) == DOMAIN g = DOMAIN f \cup {x} /\ g[x] = v /\ \A y \in DOMAIN f : y # x => g[y] = f[y]

LEMMA WithFacts ==
  ASSUME NEW f, NEW x, NEW v, NEW g, g = With(f, x, v)
  PROVE  WithIs(f, x, v, g)
<1>1. DOMAIN g = DOMAIN f \cup {x}
  BY DEF With
<1>2. g[x] = v
  BY DEF With
<1>3. ASSUME NEW y \in DOMAIN f, y # x
      PROVE  g[y] = f[y]
  BY <1>3 DEF With
<1> QED
  BY <1>1, <1>2, <1>3 DEF WithIs

LEMMA WithFrame ==
  ASSUME NEW f, IsFrame(f), NEW x \in Name, NEW v \in Int, NEW g, g = With(f, x, v)
  PROVE  IsFrame(g)
<1>a. WithIs(f, x, v, g)
  BY WithFacts
<1>1. DOMAIN g = DOMAIN f \cup {x} /\ g[x] = v /\ \A y \in DOMAIN f : y # x => g[y] = f[y]
  BY <1>a DEF WithIs
<1>2. \A y \in DOMAIN g : g[y] \in Int /\ y \in Name
  BY <1>1 DEF IsFrame
<1>3. g = [y \in DOMAIN g |-> g[y]]
  BY DEF With
<1>4. g \in [DOMAIN g -> Int]
  BY <1>2, <1>3
<1> QED
  BY <1>2, <1>4 DEF IsFrame

(* t is s with f for its last item. *)
LastIs(s, t, f) ==
  /\ AnySeq(t) /\ Len(t) = Len(s) /\ t[Len(s)] = f /\ \A i \in 1 .. Len(s) - 1 : t[i] = s[i]
  /\ \A k \in 0 .. Len(s) - 1 : SubSeq(t, 1, k) = SubSeq(s, 1, k)

LEMMA LastIsBy ==
  ASSUME NEW s, AnySeq(s), Len(s) \in Nat \ {0}, NEW t, AnySeq(t), Len(t) = Len(s), NEW f, t[Len(s)] = f,
         \A i \in 1 .. Len(s) - 1 : t[i] = s[i]
  PROVE  LastIs(s, t, f)
<1>1. ASSUME NEW k \in 0 .. Len(s) - 1
      PROVE  SubSeq(t, 1, k) = SubSeq(s, 1, k)
  <2>1. k \in 0 .. Len(s) /\ k \in 0 .. Len(t)
    OBVIOUS
  <2>2. AnySeq(SubSeq(s, 1, k)) /\ Len(SubSeq(s, 1, k)) = k /\ \A i \in 1 .. k : SubSeq(s, 1, k)[i] = s[i]
    BY <2>1, FirstFacts
  <2>3. AnySeq(SubSeq(t, 1, k)) /\ Len(SubSeq(t, 1, k)) = k /\ \A i \in 1 .. k : SubSeq(t, 1, k)[i] = t[i]
    BY <2>1, FirstFacts
  <2>4. \A i \in 1 .. k : i \in 1 .. Len(s) - 1
    OBVIOUS
  <2>5. \A i \in 1 .. k : SubSeq(t, 1, k)[i] = SubSeq(s, 1, k)[i]
    BY <2>2, <2>3, <2>4
  <2> QED
    BY <2>2, <2>3, <2>5, SameItems
<1> QED
  BY <1>1 DEF LastIs

LEMMA LastChanged ==
  ASSUME NEW s, AnySeq(s), Len(s) \in Nat \ {0}, NEW f, NEW t, t = [s EXCEPT ![Len(s)] = f]
  PROVE  LastIs(s, t, f)
<1>1. PICK E : s \in Seq(E)
  BY DEF AnySeq
<1>2. s \in Seq(E \cup {f})
  BY <1>1, SeqMonotonic
<1>3. DOMAIN s = 1 .. Len(s)
  BY <1>1, LenProperties
<1>4. Len(s) \in 1 .. Len(s)
  OBVIOUS
<1>5. t \in Seq(E \cup {f}) /\ Len(t) = Len(s)
  BY <1>2, <1>4, ExceptSeq
<1>6. t[Len(s)] = f
  BY <1>3, <1>4
<1>7. ASSUME NEW i \in 1 .. Len(s) - 1
      PROVE  t[i] = s[i]
  <2>1. i \in 1 .. Len(s) /\ i # Len(s)
    OBVIOUS
  <2> QED
    BY <1>3, <2>1
<1>8. AnySeq(t)
  BY <1>5 DEF AnySeq
<1> QED
  BY <1>5, <1>6, <1>7, <1>8, LastIsBy

LEMMA BoundWith ==
  ASSUME NEW sc, AnySeq(sc), Len(sc) \in Nat \ {0}, NEW x, NEW l, NEW t, t = Bound(sc, x, l),
         NEW g, g = With(sc[Len(sc)], x, l)
  PROVE  LastIs(sc, t, g)
<1>1. t = [sc EXCEPT ![Len(sc)] = g]
  BY DEF Bound, With
<1> QED
  BY <1>1, LastChanged

(* Fresh locals are in no one's use. *)
LEMMA ApartBound ==
  ASSUME NEW c, NEW sc, AnySeq(c), AnySeq(sc), Len(sc) \in Nat \ {0}, Apart(c, sc), NEW x, NEW l,
         Untouched(c, sc, {l}), NEW t, t = Bound(sc, x, l)
  PROVE  Apart(c, t)
<1>1. PICK N, h, g : N = Len(sc) /\ h = sc[N] /\ g = With(h, x, l)
  OBVIOUS
<1>2. LastIs(sc, t, g)
  BY <1>1, BoundWith
<1>a. N \in Nat \ {0} /\ Len(t) = N /\ t[N] = g /\ \A i \in 1 .. N - 1 : t[i] = sc[i]
  BY <1>1, <1>2 DEF LastIs
<1>d. WithIs(h, x, l, g)
  BY <1>1, WithFacts
<1>3. DOMAIN g = DOMAIN h \cup {x} /\ g[x] = l /\ \A y \in DOMAIN h : y # x => g[y] = h[y]
  BY <1>d DEF WithIs
<1>b. \A i \in 1 .. N : \A y \in DOMAIN sc[i] : sc[i][y] # l
  BY <1>1 DEF Untouched
<1>4. ASSUME NEW i \in 1 .. N, NEW y \in DOMAIN t[i]
      PROVE  \/ i = N /\ y = x /\ t[i][y] = l
             \/ y \in DOMAIN sc[i] /\ t[i][y] = sc[i][y] /\ t[i][y] # l
  <2>1. CASE i = N
    <3>1. CASE y = x
      BY <1>a, <1>3, <2>1, <3>1
    <3>2. CASE y # x
      BY <1>1, <1>a, <1>3, <1>4, <1>b, <2>1, <3>2
    <3> QED
      BY <3>1, <3>2
  <2>2. CASE i # N
    <3>1. i \in 1 .. N - 1
      BY <1>a, <2>2
    <3> QED
      BY <1>a, <1>b, <1>4, <3>1
  <2> QED
    BY <2>1, <2>2
<1>5. ASSUME NEW i \in 1 .. N, NEW j \in 1 .. N, NEW y \in DOMAIN t[i], NEW z \in DOMAIN t[j], t[i][y] = t[j][z]
      PROVE  i = j /\ y = z
  <2>1. \/ i = N /\ y = x /\ t[i][y] = l
        \/ y \in DOMAIN sc[i] /\ t[i][y] = sc[i][y] /\ t[i][y] # l
    BY <1>4
  <2>2. \/ j = N /\ z = x /\ t[j][z] = l
        \/ z \in DOMAIN sc[j] /\ t[j][z] = sc[j][z] /\ t[j][z] # l
    BY <1>4
  <2>3. CASE y \in DOMAIN sc[i] /\ t[i][y] = sc[i][y] /\ t[i][y] # l
    BY <1>1, <1>5, <2>2, <2>3 DEF Apart
  <2> QED
    BY <1>5, <2>1, <2>2, <2>3
<1>c. \A k \in 1 .. Len(c) : l \notin Reserves(Back(c, k))
  BY DEF Untouched
<1>6. \A i \in 1 .. N : \A y \in DOMAIN t[i] : \A k \in 1 .. Len(c) : t[i][y] \notin Reserves(Back(c, k))
  BY <1>1, <1>4, <1>c DEF Apart
<1>7. \A i, k \in 1 .. Len(c) : i # k => Reserves(Back(c, i)) \cap Reserves(Back(c, k)) = {}
  BY DEF Apart
<1> QED
  BY <1>a, <1>5, <1>6, <1>7 DEF Apart
(* The innermost scopes change, and no jump goes back into them. *)
LEMMA Rebound ==
  ASSUME NEW c, NEW sc, NEW td, NEW en, NEW Lv, NEW st, NEW n, Matches(c, sc, td, en, Lv, st, n), Settled(c),
         Clear(c, sc, en, Lv), NEW sc1, NEW g, LastIs(sc, sc1, g), NEW en1, NEW f, LastIs(en, en1, f),
         Names(sc1, en1, Lv, st), Apart(c, sc1)
  PROVE  Matches(c, sc1, td, en1, Lv, st, n)
<1>1. /\ ItemsMatch(c, td, st, n) /\ Levels(c, sc, en, Lv) /\ Steep(c, Lv) /\ Places(c, sc, en, Lv)
      /\ AnySeq(c) /\ Len(c) \in Nat
  BY MatchFacts
<1>2. PICK M, N : M = Len(sc) /\ N = Len(en)
  OBVIOUS
<1>3. /\ M \in Nat \ {0} /\ N \in Nat \ {0} /\ \A k \in 0 .. Len(c) : Depth(c, k) \in 1 .. N
      /\ \A j \in 1 .. N : Lv[j] \in 1 .. M
  BY <1>1, <1>2, LevelFacts
<1>4. /\ AnySeq(sc1) /\ AnySeq(en1) /\ Len(sc1) = M /\ Len(en1) = N
      /\ \A i \in 1 .. N - 1 : en1[i] = en[i] /\ \A k \in 0 .. M - 1 : SubSeq(sc1, 1, k) = SubSeq(sc, 1, k)
  BY <1>2 DEF LastIs
<1>5. Levels(c, sc1, en1, Lv)
  BY <1>1, <1>2, <1>4 DEF Levels
<1>6. ASSUME NEW k \in 1 .. Len(c), Back(c, k).k = "again"
      PROVE  LoopPlace(c, k, sc1, en1, Lv)
  <2>1. LoopPlace(c, k, sc, en, Lv)
    BY <1>1, <1>6, PlaceFacts
  <2>2. PICK d : d = Depth(c, k)
    OBVIOUS
  <2>3. d < N
    BY <1>2, <1>6, <2>2 DEF Clear
  <2>a. k \in 0 .. Len(c)
    BY <1>1
  <2>4. d \in 1 .. N - 1 /\ Lv[d] < M /\ Lv[d] \in 0 .. M - 1
    <3>1. d \in 1 .. N
      BY <1>3, <2>2, <2>a
    <3>2. d \in 1 .. N - 1
      BY <1>3, <2>3, <3>1
    <3>3. Lv[d] < M
      BY <1>2, <3>2 DEF Clear
    <3> QED
      BY <1>3, <3>1, <3>2, <3>3
  <2>5. \A i \in 1 .. d : i \in 1 .. N - 1
    BY <1>3, <2>4
  <2>6. SameAround(d, sc, en, Lv, sc1, en1, Lv)
    BY <1>4, <2>4, <2>5 DEF SameAround
  <2>7. PICK b : b = <<>>
    OBVIOUS
  <2>8. AnySeq(b) /\ Len(b) = 0
    BY <2>7, AnyEmpty
  <2>9. b \o c = c
    <3>1. PICK E : c \in Seq(E)
      BY <1>1 DEF AnySeq
    <3> QED
      BY <2>7, <3>1, ConcatEmptySeq
  <2>10. BindsAbove(d, b, c)
    BY <2>8 DEF BindsAbove
  <2>11. LoopPlace(b \o c, k, sc1, en1, Lv)
    BY <1>1, <2>1, <2>2, <2>6, <2>8, <2>10, LoopPlaceCat
  <2> QED
    BY <2>9, <2>11
<1>7. Places(c, sc1, en1, Lv)
  BY <1>6, PlacesBy
<1> QED
  BY <1>1, <1>5, <1>7, MatchesBy

(* var: a new local, and the name in the innermost scope. *)
LEMMA NamesVar ==
  ASSUME NEW c, NEW sc, NEW en, NEW Lv, NEW st, AnySeq(c), Levels(c, sc, en, Lv), Names(sc, en, Lv, st),
         Clear(c, sc, en, Lv), NEW x \in Name, NEW v \in Int, NEW l, Holds(st, l, v),
         NEW M, NEW N, M = Len(sc), N = Len(en),
         NEW sc1, NEW g, LastIs(sc, sc1, g), WithIs(sc[M], x, l, g),
         NEW en1, NEW f, LastIs(en, en1, f), f = With(en[N], x, v)
  PROVE  Names(sc1, en1, Lv, st)
<1>1. /\ M \in Nat \ {0} /\ N \in Nat \ {0} /\ Lv[N] = M /\ \A j \in 1 .. N : Lv[j] \in 1 .. M
  BY LevelFacts
<1>2. \A i \in 1 .. N - 1 : Lv[i] < M
  BY DEF Clear
<1>3. Len(sc1) = M /\ sc1[M] = g /\ \A i \in 1 .. M - 1 : sc1[i] = sc[i]
  BY DEF LastIs
<1>4. Len(en1) = N /\ en1[N] = f /\ \A i \in 1 .. N - 1 : en1[i] = en[i]
  BY DEF LastIs
<1>5. PICK e, h : e = en[N] /\ h = sc[M]
  OBVIOUS
<1>6. DOMAIN g = DOMAIN h \cup {x} /\ g[x] = l /\ \A y \in DOMAIN h : y # x => g[y] = h[y]
  BY <1>5 DEF WithIs
<1>7. WithIs(e, x, v, f)
  BY <1>5, WithFacts
<1>8. DOMAIN f = DOMAIN e \cup {x} /\ f[x] = v /\ \A y \in DOMAIN e : y # x => f[y] = e[y]
  BY <1>7 DEF WithIs
<1>9. /\ \A j \in 1 .. N : IsFrame(en[j])
      /\ \A j \in 1 .. N : \A y \in DOMAIN en[j] : y \in DOMAIN sc[Lv[j]] /\ Holds(st, sc[Lv[j]][y], en[j][y])
      /\ \A m \in 1 .. M : \A y \in DOMAIN sc[m] :
           \/ \E j \in 1 .. N : Lv[j] = m /\ y \in DOMAIN en[j]
           \/ \A j \in 1 .. N : Lv[j] <= m => y \notin DOMAIN en[j]
      /\ \A j \in 2 .. N : Lv[j - 1] = Lv[j] => \A y \in DOMAIN en[j] : \A i \in 1 .. j - 1 : y \notin DOMAIN en[i]
  BY DEF Names
<1>a. N \in 1 .. N /\ M \in 1 .. M /\ \A j \in 1 .. N : j # N => j \in 1 .. N - 1
  BY <1>1
<1>b. \A m \in 1 .. M : m # M => m \in 1 .. M - 1
  BY <1>1
<1>c. \A j \in 1 .. N - 1 : j \in 1 .. N /\ Lv[j] \in 1 .. M - 1
  BY <1>1, <1>2
<1>10. ASSUME NEW j \in 1 .. N
       PROVE  IsFrame(en1[j])
  <2>1. CASE j = N
    <3>1. IsFrame(e)
      BY <1>5, <1>9, <1>a
    <3> QED
      BY <1>4, <1>5, <2>1, <3>1, WithFrame
  <2> QED
    BY <1>4, <1>9, <1>a, <2>1
<1>11. ASSUME NEW j \in 1 .. N, NEW y \in DOMAIN en1[j]
       PROVE  y \in DOMAIN sc1[Lv[j]] /\ Holds(st, sc1[Lv[j]][y], en1[j][y])
  <2>1. CASE j = N
    <3>1. CASE y = x
      BY <1>1, <1>3, <1>4, <1>6, <1>8, <2>1, <3>1
    <3>2. CASE y # x
      <4>1. y \in DOMAIN e /\ f[y] = e[y]
        BY <1>4, <1>8, <1>11, <2>1, <3>2
      <4>2. y \in DOMAIN h /\ Holds(st, h[y], e[y])
        BY <1>1, <1>5, <1>9, <1>a, <4>1
      <4> QED
        BY <1>1, <1>3, <1>4, <1>6, <2>1, <3>2, <4>1, <4>2
    <3> QED
      BY <3>1, <3>2
  <2>2. CASE j # N
    <3>1. j \in 1 .. N - 1
      BY <1>a, <2>2
    <3>2. en1[j] = en[j] /\ sc1[Lv[j]] = sc[Lv[j]]
      BY <1>3, <1>4, <1>c, <3>1
    <3> QED
      BY <1>9, <1>11, <3>2
  <2> QED
    BY <2>1, <2>2
<1>d. ASSUME NEW j \in 1 .. N, NEW y, y # x
      PROVE  y \in DOMAIN en1[j] <=> y \in DOMAIN en[j]
  BY <1>4, <1>5, <1>8, <1>a, <1>d
<1>12. ASSUME NEW m \in 1 .. M, NEW y \in DOMAIN sc1[m]
       PROVE  \/ \E j \in 1 .. N : Lv[j] = m /\ y \in DOMAIN en1[j]
              \/ \A j \in 1 .. N : Lv[j] <= m => y \notin DOMAIN en1[j]
  <2>1. CASE m = M
    <3>1. CASE y = x
      BY <1>1, <1>4, <1>8, <1>a, <2>1, <3>1
    <3>2. CASE y # x
      <4>1. y \in DOMAIN sc[m]
        BY <1>3, <1>5, <1>6, <1>12, <2>1, <3>2
      <4> QED
        BY <1>9, <1>d, <3>2, <4>1
    <3> QED
      BY <3>1, <3>2
  <2>2. CASE m # M
    <3>1. m \in 1 .. M - 1 /\ sc1[m] = sc[m]
      BY <1>3, <1>b, <2>2
    <3>2. \A j \in 1 .. N : Lv[j] <= m => j \in 1 .. N - 1
      BY <1>1, <1>a, <3>1
    <3>3. \A j \in 1 .. N : Lv[j] = m => j \in 1 .. N - 1
      BY <1>1, <1>a, <3>1
    <3> QED
      BY <1>4, <1>9, <1>12, <3>1, <3>2, <3>3
  <2> QED
    BY <2>1, <2>2
<1>13. ASSUME NEW j \in 2 .. N, Lv[j - 1] = Lv[j], NEW y \in DOMAIN en1[j], NEW i \in 1 .. j - 1
       PROVE  y \notin DOMAIN en1[i]
  <2>1. j # N
    <3>1. j = N => j - 1 \in 1 .. N - 1
      BY <1>1
    <3> QED
      BY <1>1, <1>2, <1>13, <3>1
  <2>2. j \in 1 .. N - 1 /\ i \in 1 .. N - 1
    BY <1>1, <2>1
  <2> QED
    BY <1>4, <1>9, <1>13, <2>2
<1> QED
  BY <1>3, <1>4, <1>10, <1>11, <1>12, <1>13 DEF Names
(* A for: its variable has a local, and no name of the statements is it yet. *)
LEMMA NamesFor ==
  ASSUME NEW c, NEW sc, NEW en, NEW Lv, NEW st, AnySeq(c), Levels(c, sc, en, Lv), Names(sc, en, Lv, st),
         NEW x, ~ BoundIn(en, x), NEW l, NEW M, M = Len(sc),
         NEW sc1, NEW g, LastIs(sc, sc1, g), WithIs(sc[M], x, l, g)
  PROVE  Names(sc1, en, Lv, st)
<1>1. PICK N : N = Len(en)
  OBVIOUS
<1>2. /\ M \in Nat \ {0} /\ N \in Nat \ {0} /\ \A j \in 1 .. N : Lv[j] \in 1 .. M
  BY <1>1, LevelFacts
<1>3. Len(sc1) = M /\ sc1[M] = g /\ \A i \in 1 .. M - 1 : sc1[i] = sc[i]
  BY DEF LastIs
<1>4. PICK h : h = sc[M]
  OBVIOUS
<1>5. DOMAIN g = DOMAIN h \cup {x} /\ \A y \in DOMAIN h : y # x => g[y] = h[y]
  BY <1>4 DEF WithIs
<1>6. /\ \A j \in 1 .. N : IsFrame(en[j])
      /\ \A j \in 1 .. N : \A y \in DOMAIN en[j] : y \in DOMAIN sc[Lv[j]] /\ Holds(st, sc[Lv[j]][y], en[j][y])
      /\ \A m \in 1 .. M : \A y \in DOMAIN sc[m] :
           \/ \E j \in 1 .. N : Lv[j] = m /\ y \in DOMAIN en[j]
           \/ \A j \in 1 .. N : Lv[j] <= m => y \notin DOMAIN en[j]
      /\ \A j \in 2 .. N : Lv[j - 1] = Lv[j] => \A y \in DOMAIN en[j] : \A i \in 1 .. j - 1 : y \notin DOMAIN en[i]
  BY <1>1 DEF Names
<1>7. \A j \in 1 .. N : x \notin DOMAIN en[j]
  <2>1. DOMAIN en = 1 .. N
    BY <1>1, AnyFacts DEF Levels
  <2> QED
    BY <2>1 DEF BoundIn
<1>8. ASSUME NEW m \in 1 .. M, NEW y, y # x
      PROVE  (y \in DOMAIN sc1[m] <=> y \in DOMAIN sc[m]) /\ (y \in DOMAIN sc[m] => sc1[m][y] = sc[m][y])
  <2>1. CASE m = M
    BY <1>3, <1>4, <1>5, <1>8, <2>1
  <2>2. CASE m # M
    <3>1. m \in 1 .. M - 1
      BY <1>2, <2>2
    <3> QED
      BY <1>3, <3>1
  <2> QED
    BY <2>1, <2>2
<1>9. ASSUME NEW j \in 1 .. N, NEW y \in DOMAIN en[j]
      PROVE  y \in DOMAIN sc1[Lv[j]] /\ Holds(st, sc1[Lv[j]][y], en[j][y])
  BY <1>2, <1>6, <1>7, <1>8
<1>10. ASSUME NEW m \in 1 .. M, NEW y \in DOMAIN sc1[m]
       PROVE  \/ \E j \in 1 .. N : Lv[j] = m /\ y \in DOMAIN en[j]
              \/ \A j \in 1 .. N : Lv[j] <= m => y \notin DOMAIN en[j]
  <2>1. CASE y = x
    BY <1>7, <2>1
  <2>2. CASE y # x
    <3>1. y \in DOMAIN sc[m]
      BY <1>8, <1>10, <2>2
    <3> QED
      BY <1>6, <3>1
  <2> QED
    BY <2>1, <2>2
<1> QED
  BY <1>1, <1>3, <1>6, <1>9, <1>10 DEF Names

LEMMA BindVar ==
  ASSUME NEW c, NEW sc, NEW td, NEW en, NEW Lv, NEW st, NEW n, Matches(c, sc, td, en, Lv, st, n), Settled(c),
         Clear(c, sc, en, Lv), NEW x \in Name, NEW v \in Int, NEW l, Untouched(c, sc, {l}),
         NEW st1, AgreeBut(st, st1, {l}), Holds(st1, l, v),
         NEW sc1, sc1 = Bound(sc, x, l), NEW en1, NEW f, LastIs(en, en1, f), f = With(en[Len(en)], x, v)
  PROVE  Matches(c, sc1, td, en1, Lv, st1, n)
<1>1. Unseen(c, sc, en, Lv, {l})
  BY UntouchedUnseen
<1>2. Matches(c, sc, td, en, Lv, st1, n)
  BY <1>1, StoreKept
<1>3. /\ Levels(c, sc, en, Lv) /\ Names(sc, en, Lv, st1) /\ Apart(c, sc) /\ AnySeq(c) /\ AnySeq(sc)
      /\ Len(sc) \in Nat \ {0}
  BY <1>2, MatchFacts
<1>4. PICK M, N : M = Len(sc) /\ N = Len(en)
  OBVIOUS
<1>5. PICK h, g : h = sc[M] /\ g = With(h, x, l)
  OBVIOUS
<1>6. LastIs(sc, sc1, g)
  BY <1>3, <1>4, <1>5, BoundWith
<1>7. WithIs(sc[M], x, l, g)
  BY <1>5, WithFacts
<1>8. Names(sc1, en1, Lv, st1)
  BY <1>3, <1>4, <1>6, <1>7, NamesVar
<1>9. Apart(c, sc1)
  BY <1>3, ApartBound
<1> QED
  BY <1>2, <1>6, <1>8, <1>9, Rebound

LEMMA BindFor ==
  ASSUME NEW c, NEW sc, NEW td, NEW en, NEW Lv, NEW st, NEW n, Matches(c, sc, td, en, Lv, st, n), Settled(c),
         Clear(c, sc, en, Lv), NEW x, ~ BoundIn(en, x), NEW l, Untouched(c, sc, {l}),
         NEW sc1, sc1 = Bound(sc, x, l)
  PROVE  Matches(c, sc1, td, en, Lv, st, n)
<1>3. /\ Levels(c, sc, en, Lv) /\ Names(sc, en, Lv, st) /\ Apart(c, sc) /\ AnySeq(c) /\ AnySeq(sc)
      /\ Len(sc) \in Nat \ {0} /\ AnySeq(en) /\ Len(en) \in Nat \ {0}
  BY MatchFacts
<1>4. PICK M, N : M = Len(sc) /\ N = Len(en)
  OBVIOUS
<1>5. PICK h, g, f : h = sc[M] /\ g = With(h, x, l) /\ f = en[N]
  OBVIOUS
<1>6. LastIs(sc, sc1, g)
  BY <1>3, <1>4, <1>5, BoundWith
<1>7. WithIs(sc[M], x, l, g)
  BY <1>5, WithFacts
<1>8. Names(sc1, en, Lv, st)
  BY <1>3, <1>4, <1>6, <1>7, NamesFor
<1>9. Apart(c, sc1)
  BY <1>3, ApartBound
<1>10. LastIs(en, en, f)
  BY <1>3, <1>4, <1>5, LastIsBy
<1> QED
  BY <1>6, <1>8, <1>9, <1>10, Rebound
(***************************************************************************)
(* Names that are looked up.                                                 *)
(***************************************************************************)
LEMMA Least ==
  ASSUME NEW js \in SUBSET Nat, js # {}
  PROVE  \E m \in js : \A y \in js : m <= y
<1> DEFINE Less == OpToRel(<, Nat)
<1>1. IsWellFoundedOn(Less, Nat)
  BY NatLessThanWellFounded
<1>2. \A x, y \in Nat : <<y, x>> \in Less <=> y < x
  BY DEF OpToRel
<1> HIDE DEF Less
<1>3. PICK x \in js : \A y \in js : ~ (<<y, x>> \in Less)
  BY <1>1, WFMin
<1>4. x \in Nat /\ \A y \in js : y \in Nat /\ ~ (y < x)
  BY <1>2, <1>3
<1> QED
  BY <1>4

LEMMA Greatest ==
  ASSUME NEW n \in Nat, NEW js \in SUBSET (0 .. n), js # {}
  PROVE  \E m \in js : \A y \in js : y <= m
<1>1. PICK ks : ks = {n - j : j \in js}
  OBVIOUS
<1>2. ks \in SUBSET Nat
  BY <1>1
<1>3. ks # {}
  BY <1>1
<1>4. PICK k \in ks : \A y \in ks : k <= y
  BY <1>2, <1>3, Least
<1>5. PICK m \in js : k = n - m
  BY <1>1, <1>4
<1>6. \A y \in js : n - y \in ks
  BY <1>1
<1>7. \A y \in js : n - m <= n - y /\ y \in 0 .. n
  BY <1>4, <1>5, <1>6
<1> QED
  BY <1>5, <1>7

LEMMA NewestFacts ==
  ASSUME NEW en, AnySeq(en), NEW x, BoundIn(en, x), NEW k, k = Newest(en, x)
  PROVE  k \in 1 .. Len(en) /\ x \in DOMAIN en[k] /\ \A j \in 1 .. Len(en) : x \in DOMAIN en[j] => j <= k
<1>1. DOMAIN en = 1 .. Len(en) /\ Len(en) \in Nat
  BY AnyFacts
<1>2. PICK js : js = {j \in DOMAIN en : x \in DOMAIN en[j]}
  OBVIOUS
<1>3. js \in SUBSET (0 .. Len(en)) /\ js # {}
  BY <1>1, <1>2 DEF BoundIn
<1>4. \E m \in js : \A y \in js : y <= m
  BY <1>1, <1>3, Greatest
<1>5. \E m \in DOMAIN en : x \in DOMAIN en[m] /\ \A j \in DOMAIN en : x \in DOMAIN en[j] => j <= m
  BY <1>2, <1>4
<1> QED
  BY <1>1, <1>5 DEF Newest

LEMMA LookupIs ==
  ASSUME NEW c, NEW sc, NEW en, NEW Lv, NEW st, AnySeq(c), Levels(c, sc, en, Lv), Names(sc, en, Lv, st),
         NEW x, BoundIn(en, x), NEW k, k = Newest(en, x)
  PROVE  /\ Lv[k] \in 1 .. Len(sc) /\ x \in DOMAIN sc[Lv[k]] /\ LookupIn(sc, x) = sc[Lv[k]][x]
         /\ Holds(st, LookupIn(sc, x), en[k][x])
<1>1. AnySeq(sc) /\ AnySeq(en) /\ \A j \in 1 .. Len(en) : Lv[j] \in 1 .. Len(sc)
  BY LevelFacts
<1>2. k \in 1 .. Len(en) /\ x \in DOMAIN en[k] /\ \A j \in 1 .. Len(en) : x \in DOMAIN en[j] => j <= k
  BY <1>1, NewestFacts
<1>3. \A j \in 1 .. Len(en) : \A i \in 1 .. j : Lv[i] <= Lv[j]
  BY LevelFacts
<1>4. PICK m : m = Lv[k]
  OBVIOUS
<1>5. m \in 1 .. Len(sc) /\ x \in DOMAIN sc[m] /\ Holds(st, sc[m][x], en[k][x])
  BY <1>1, <1>2, <1>4 DEF Names
<1>6. ASSUME NEW i \in 1 .. Len(sc), x \in DOMAIN sc[i]
      PROVE  i <= m
  <2>1. CASE \E j \in 1 .. Len(en) : Lv[j] = i /\ x \in DOMAIN en[j]
    <3>1. PICK j \in 1 .. Len(en) : Lv[j] = i /\ x \in DOMAIN en[j]
      BY <2>1
    <3>2. j \in 1 .. k
      BY <1>2, <3>1
    <3> QED
      BY <1>2, <1>3, <1>4, <3>1, <3>2
  <2>2. CASE \A j \in 1 .. Len(en) : Lv[j] <= i => x \notin DOMAIN en[j]
    <3>1. ~ (m <= i)
      BY <1>2, <1>4, <2>2
    <3> QED
      BY <1>5, <3>1
  <2> QED
    BY <1>6, <2>1, <2>2 DEF Names
<1>7. Holding(sc, x) = {i \in 1 .. Len(sc) : x \in DOMAIN sc[i]}
  BY <1>1, AnyFacts DEF Holding
<1>8. m \in Holding(sc, x) /\ \A j \in Holding(sc, x) : j <= m
  BY <1>5, <1>6, <1>7
<1>9. \A i \in Holding(sc, x) : (\A j \in Holding(sc, x) : j <= i) => i = m
  <2>1. ASSUME NEW i \in Holding(sc, x), \A j \in Holding(sc, x) : j <= i
        PROVE  i = m
    <3>1. m <= i /\ i <= m /\ i \in 1 .. Len(sc)
      BY <1>7, <1>8, <2>1
    <3> QED
      BY <1>5, <3>1
  <2> QED
    BY <2>1
<1>10. (CHOOSE i \in Holding(sc, x) : \A j \in Holding(sc, x) : j <= i) = m
  BY <1>8, <1>9
<1>11. LookupIn(sc, x) = sc[m][x]
  BY <1>10 DEF LookupIn
<1> QED
  BY <1>4, <1>5, <1>11
(* Name x of frame k has the value v now. *)
Assigned(en, en1, k, x, v) ==
  /\ AnySeq(en1) /\ Len(en1) = Len(en)
  /\ \A i \in 1 .. Len(en) : /\ DOMAIN en1[i] = DOMAIN en[i] /\ IsFrame(en1[i])
                             /\ \A y \in DOMAIN en[i] : en1[i][y] = IF i = k /\ y = x THEN v ELSE en[i][y]

LEMMA AssignedBy ==
  ASSUME NEW en, AnySeq(en), NEW k \in 1 .. Len(en), \A i \in 1 .. Len(en) : IsFrame(en[i]),
         NEW x \in DOMAIN en[k], NEW v \in Int, NEW en1, en1 = [en EXCEPT ![k][x] = v]
  PROVE  Assigned(en, en1, k, x, v)
<1>1. PICK e, f : e = en[k] /\ f = [e EXCEPT ![x] = v]
  OBVIOUS
<1>2. en1 = [en EXCEPT ![k] = f]
  BY <1>1
<1>3. PICK E : en \in Seq(E)
  BY DEF AnySeq
<1>4. en \in Seq(E \cup {f})
  BY <1>3, SeqMonotonic
<1>5. en1 \in Seq(E \cup {f}) /\ Len(en1) = Len(en)
  BY <1>2, <1>4, ExceptSeq
<1>6. DOMAIN en = 1 .. Len(en)
  BY AnyFacts
<1>7. en1[k] = f /\ \A i \in 1 .. Len(en) : i # k => en1[i] = en[i]
  BY <1>2, <1>6
<1>8. IsFrame(e)
  BY <1>1
<1>9. DOMAIN f = DOMAIN e /\ \A y \in DOMAIN e : f[y] = IF y = x THEN v ELSE e[y]
  BY <1>1, <1>8 DEF IsFrame
<1>10. IsFrame(f)
  BY <1>1, <1>8 DEF IsFrame
<1>11. ASSUME NEW i \in 1 .. Len(en)
       PROVE  /\ DOMAIN en1[i] = DOMAIN en[i] /\ IsFrame(en1[i])
              /\ \A y \in DOMAIN en[i] : en1[i][y] = IF i = k /\ y = x THEN v ELSE en[i][y]
  <2>1. CASE i = k
    BY <1>1, <1>7, <1>9, <1>10, <2>1
  <2>2. CASE i # k
    BY <1>7, <2>2
  <2> QED
    BY <2>1, <2>2
<1>12. AnySeq(en1)
  BY <1>5 DEF AnySeq
<1> QED
  BY <1>5, <1>11, <1>12 DEF Assigned

LEMMA NamesAssign ==
  ASSUME NEW c, NEW sc, NEW en, NEW Lv, NEW st, AnySeq(c), Levels(c, sc, en, Lv), Names(sc, en, Lv, st),
         Apart(c, sc), NEW x, BoundIn(en, x), NEW k, k = Newest(en, x), NEW v,
         NEW en1, Assigned(en, en1, k, x, v), NEW l, l = sc[Lv[k]][x],
         NEW st1, AgreeBut(st, st1, {l}), Holds(st1, l, v)
  PROVE  Names(sc, en1, Lv, st1)
<1>1. PICK N : N = Len(en)
  OBVIOUS
<1>2. /\ AnySeq(en) /\ N \in Nat \ {0} /\ \A j \in 1 .. N : Lv[j] \in 1 .. Len(sc)
      /\ \A j \in 1 .. N : \A i \in 1 .. j : Lv[i] <= Lv[j]
  BY <1>1, LevelFacts
<1>3. k \in 1 .. N /\ x \in DOMAIN en[k] /\ \A j \in 1 .. N : x \in DOMAIN en[j] => j <= k
  BY <1>1, <1>2, NewestFacts
<1>4. /\ Len(en1) = N /\ \A i \in 1 .. N : DOMAIN en1[i] = DOMAIN en[i] /\ IsFrame(en1[i])
      /\ \A i \in 1 .. N : \A y \in DOMAIN en[i] : en1[i][y] = IF i = k /\ y = x THEN v ELSE en[i][y]
  BY <1>1 DEF Assigned
<1>5. /\ \A j \in 1 .. N : \A y \in DOMAIN en[j] : y \in DOMAIN sc[Lv[j]] /\ Holds(st, sc[Lv[j]][y], en[j][y])
      /\ \A m \in 1 .. Len(sc) : \A y \in DOMAIN sc[m] :
           \/ \E j \in 1 .. N : Lv[j] = m /\ y \in DOMAIN en[j]
           \/ \A j \in 1 .. N : Lv[j] <= m => y \notin DOMAIN en[j]
      /\ \A j \in 2 .. N : Lv[j - 1] = Lv[j] => \A y \in DOMAIN en[j] : \A i \in 1 .. j - 1 : y \notin DOMAIN en[i]
  BY <1>1 DEF Names
<1>6. ASSUME NEW j \in 1 .. N, NEW y \in DOMAIN en[j], ~ (j = k /\ y = x)
      PROVE  sc[Lv[j]][y] # l
  <2>1. SUFFICES ASSUME sc[Lv[j]][y] = l
                 PROVE  FALSE
    OBVIOUS
  <2>2. Lv[j] = Lv[k] /\ y = x
    BY <1>2, <1>3, <1>5, <2>1 DEF Apart
  <2>3. j \in 1 .. k - 1 /\ k \in 2 .. N /\ k - 1 \in 1 .. k /\ j \in 1 .. k - 1
    BY <1>2, <1>3, <1>6, <2>2
  <2>4. k - 1 \in 1 .. N
    BY <1>2, <2>3
  <2>5. Lv[j] <= Lv[k - 1] /\ Lv[k - 1] <= Lv[k]
    BY <1>2, <1>3, <2>3, <2>4
  <2>6. Lv[k - 1] = Lv[k]
    <3>1. Lv[k - 1] \in Nat /\ Lv[k] \in Nat
      BY <1>2, <1>3, <2>4
    <3> QED
      BY <2>2, <2>5, <3>1
  <2> QED
    BY <1>3, <1>5, <1>6, <2>2, <2>3, <2>6
<1>7. ASSUME NEW j \in 1 .. N, NEW y \in DOMAIN en1[j]
      PROVE  y \in DOMAIN sc[Lv[j]] /\ Holds(st1, sc[Lv[j]][y], en1[j][y])
  <2>1. y \in DOMAIN en[j]
    BY <1>4, <1>7
  <2>2. CASE j = k /\ y = x
    BY <1>4, <1>5, <2>1, <2>2
  <2>3. CASE ~ (j = k /\ y = x)
    <3>1. sc[Lv[j]][y] \notin {l} /\ Holds(st, sc[Lv[j]][y], en[j][y]) /\ y \in DOMAIN sc[Lv[j]]
      BY <1>5, <1>6, <2>1, <2>3
    <3>2. Holds(st1, sc[Lv[j]][y], en[j][y])
      BY <3>1 DEF AgreeBut
    <3>3. en1[j][y] = en[j][y]
      BY <1>4, <2>1, <2>3
    <3> QED
      BY <3>1, <3>2, <3>3
  <2> QED
    BY <2>2, <2>3
<1>8. \A m \in 1 .. Len(sc) : \A y \in DOMAIN sc[m] :
        \/ \E j \in 1 .. N : Lv[j] = m /\ y \in DOMAIN en1[j]
        \/ \A j \in 1 .. N : Lv[j] <= m => y \notin DOMAIN en1[j]
  BY <1>4, <1>5
<1>9. ASSUME NEW j \in 2 .. N, Lv[j - 1] = Lv[j], NEW y \in DOMAIN en1[j], NEW i \in 1 .. j - 1
      PROVE  y \notin DOMAIN en1[i]
  <2>1. j \in 1 .. N /\ i \in 1 .. N
    BY <1>2
  <2> QED
    BY <1>4, <1>5, <1>9, <2>1
<1> QED
  BY <1>4, <1>7, <1>8, <1>9 DEF Names

(* The loops see the names that are bound only. *)
LEMMA PlacesKept ==
  ASSUME NEW c, NEW sc, NEW en, NEW Lv, AnySeq(c), Levels(c, sc, en, Lv), Places(c, sc, en, Lv),
         NEW en1, AnySeq(en1), Len(en1) = Len(en), \A i \in 1 .. Len(en) : DOMAIN en1[i] = DOMAIN en[i]
  PROVE  Places(c, sc, en1, Lv)
<1>1. AnySeq(en) /\ Len(c) \in Nat /\ \A k \in 0 .. Len(c) : Depth(c, k) \in 1 .. Len(en)
  BY LevelFacts
<1>2. DOMAIN en = 1 .. Len(en) /\ DOMAIN en1 = 1 .. Len(en) /\ Len(en) \in Nat
  BY <1>1, AnyFacts
<1>3. \A x : BoundIn(en1, x) <=> BoundIn(en, x)
  BY <1>2 DEF BoundIn
<1>4. ASSUME NEW k \in 1 .. Len(c), Back(c, k).k \in Micro
      PROVE  k = Len(c) /\ StagePlace(Last(c, k - 1), Back(c, k), sc, en1)
  <2>1. k = Len(c) /\ StagePlace(Last(c, k - 1), Back(c, k), sc, en)
    BY <1>4, PlaceFacts
  <2> QED
    BY <1>3, <2>1 DEF StagePlace
<1>5. ASSUME NEW k \in 1 .. Len(c), Back(c, k).k = "again"
      PROVE  LoopPlace(c, k, sc, en1, Lv)
  <2>1. LoopPlace(c, k, sc, en, Lv)
    BY <1>5, PlaceFacts
  <2>2. k \in 0 .. Len(c)
    BY <1>1
  <2>3. \A i \in 1 .. Depth(c, k) : i \in 1 .. Len(en)
    BY <1>1, <1>2, <2>2
  <2>4. \A i \in 1 .. Depth(c, k) : DOMAIN en1[i] = DOMAIN en[i]
    BY <2>3
  <2> QED
    BY <2>1, <2>4 DEF LoopPlace
<1> QED
  BY <1>4, <1>5 DEF Places

LEMMA Assigns ==
  ASSUME NEW c, NEW sc, NEW td, NEW en, NEW Lv, NEW st, NEW n, Matches(c, sc, td, en, Lv, st, n),
         NEW x, BoundIn(en, x), NEW v \in Int, NEW k, k = Newest(en, x),
         NEW en1, en1 = [en EXCEPT ![k][x] = v],
         NEW st1, AgreeBut(st, st1, {LookupIn(sc, x)}), Holds(st1, LookupIn(sc, x), v)
  PROVE  Matches(c, sc, td, en1, Lv, st1, n)
<1>1. /\ ItemsMatch(c, td, st, n) /\ Levels(c, sc, en, Lv) /\ Steep(c, Lv) /\ Names(sc, en, Lv, st)
      /\ Apart(c, sc) /\ Places(c, sc, en, Lv) /\ AnySeq(c) /\ AnySeq(en)
  BY MatchFacts
<1>2. PICK l : l = LookupIn(sc, x)
  OBVIOUS
<1>3. Lv[k] \in 1 .. Len(sc) /\ x \in DOMAIN sc[Lv[k]] /\ l = sc[Lv[k]][x]
  BY <1>1, <1>2, LookupIs
<1>4. k \in 1 .. Len(en) /\ x \in DOMAIN en[k]
  BY <1>1, NewestFacts
<1>5. \A i \in 1 .. Len(en) : IsFrame(en[i])
  BY <1>1 DEF Names
<1>6. Assigned(en, en1, k, x, v)
  BY <1>1, <1>4, <1>5, AssignedBy
<1>7. AnySeq(en1) /\ Len(en1) = Len(en) /\ \A i \in 1 .. Len(en) : DOMAIN en1[i] = DOMAIN en[i]
  BY <1>6 DEF Assigned
<1>8. Names(sc, en1, Lv, st1)
  BY <1>1, <1>2, <1>3, <1>6, NamesAssign
<1>9. Places(c, sc, en1, Lv)
  BY <1>1, <1>7, PlacesKept
<1>10. Levels(c, sc, en1, Lv)
  BY <1>1, <1>7 DEF Levels
<1>11. ASSUME NEW i \in 1 .. Len(c)
       PROVE  ItemMatch(Back(c, i), Back(td, i), st1, n)
  <2>1. ItemMatch(Back(c, i), Back(td, i), st, n)
    BY <1>1, ItemsFacts
  <2>2. Reserves(Back(c, i)) \cap {l} = {}
    BY <1>1, <1>3 DEF Apart
  <2> QED
    BY <1>2, <2>1, <2>2, ItemMatchKept
<1>12. ItemsMatch(c, td, st1, n)
  <2>1. AnySeq(td) /\ Len(td) = Len(c)
    BY <1>1, ItemsFacts
  <2> QED
    BY <1>1, <1>11, <2>1, ItemsBy
<1> QED
  BY <1>1, <1>8, <1>9, <1>10, <1>12, MatchesBy
(***************************************************************************)
(* The list shrinks; no list loop is under way.                              *)
(***************************************************************************)
LEMMA LoopMatchLen ==
  ASSUME NEW x, NEW y, NEW st, NEW n, NEW m, LoopMatch(x, y, st, n), y.stmt.k # "list"
  PROVE  LoopMatch(x, y, st, m)
<1>1. x.stmt.k # "list"
  <2>1. SUFFICES ASSUME x.stmt.k = "list"
                 PROVE  FALSE
    OBVIOUS
  <2>2. IsRound(x.stmt, y)
    BY <2>1 DEF LoopMatch, ForKinds
  <2>3. y.stmt.k = x.stmt.k
    BY <2>2 DEF IsRound, ForAgain, Again
  <2> QED
    BY <2>1, <2>3
<1> QED
  BY <1>1 DEF LoopMatch

LEMMA LenKept ==
  ASSUME NEW c, NEW sc, NEW td, NEW en, NEW Lv, NEW st, NEW n, Matches(c, sc, td, en, Lv, st, n), Settled(c),
         NEW m, \A k \in 1 .. Len(c) : Back(td, k).k = "again" => Back(td, k).stmt.k # "list"
  PROVE  Matches(c, sc, td, en, Lv, st, m)
<1>1. /\ ItemsMatch(c, td, st, n) /\ Levels(c, sc, en, Lv) /\ Steep(c, Lv) /\ Names(sc, en, Lv, st)
      /\ Apart(c, sc) /\ Places(c, sc, en, Lv) /\ AnySeq(c) /\ AnySeq(td) /\ Len(td) = Len(c)
  BY MatchFacts
<1>2. ASSUME NEW k \in 1 .. Len(c)
      PROVE  ItemMatch(Back(c, k), Back(td, k), st, m)
  <2>1. ItemMatch(Back(c, k), Back(td, k), st, n)
    BY <1>1, ItemsFacts
  <2>2. PICK x, y : x = Back(c, k) /\ y = Back(td, k)
    OBVIOUS
  <2>3. ItemMatch(x, y, st, n) /\ x.k \notin Micro /\ (y.k = "again" => y.stmt.k # "list")
    BY <2>1, <2>2 DEF Settled
  <2>4. CASE x.k = "again"
    <3>1. LoopMatch(x, y, st, n) /\ y.k = "again"
      BY <2>3, <2>4, ItemTurn
    <3>2. LoopMatch(x, y, st, m)
      BY <2>3, <3>1, LoopMatchLen
    <3>3. ItemMatch(x, y, st, m)
      BY <2>4, <3>2 DEF ItemMatch
    <3> QED
      BY <2>2, <3>3
  <2>5. CASE x.k # "again"
    <3>1. ItemMatch(x, y, st, m)
      BY <2>3, <2>5 DEF ItemMatch
    <3> QED
      BY <2>2, <3>1
  <2> QED
    BY <2>4, <2>5
<1>3. ItemsMatch(c, td, st, m)
  BY <1>1, <1>2, ItemsBy
<1> QED
  BY <1>1, <1>3, MatchesBy

-----------------------------------------------------------------------------
(***************************************************************************)
(* Arriving.                                                                 *)
(***************************************************************************)
LEMMA SeqOf ==
  ASSUME NEW s, AnySeq(s), NEW E, \A k \in 1 .. Len(s) : Back(s, k) \in E
  PROVE  s \in Seq(E)
<1>1. PICK F : s \in Seq(F)
  BY DEF AnySeq
<1>2. Len(s) \in Nat /\ s \in [1 .. Len(s) -> F]
  BY <1>1, LenProperties
<1>3. ASSUME NEW i \in 1 .. Len(s)
      PROVE  s[i] \in E
  BY AnyFacts
<1>4. s \in [1 .. Len(s) -> E]
  BY <1>2, <1>3
<1> QED
  BY <1>2, <1>4, SeqDef

LEMMA RoundTyped ==
  ASSUME NEW s \in Stmt, NEW y, IsRound(s, y)
  PROVE  y \in SrcItem
<1>1. PICK i, m : i = y.stmt.at /\ m = y.stmt.n
  OBVIOUS
<1>2. i \in Nat /\ m \in Nat /\ y = ForAgain(s, i, m)
  BY <1>1 DEF IsRound
<1> QED
  BY <1>2 DEF SrcItem

LEMMA ItemTyped ==
  ASSUME NEW x, NEW y, NEW st, NEW n, ItemMatch(x, y, st, n)
  PROVE  y \in SrcItem
<1>1. CASE x.k \in PopLike /\ y = Pop
  BY <1>1 DEF SrcItem
<1>2. CASE x.k = "again" /\ LoopMatch(x, y, st, n)
  <2>1. x.stmt \in Stmt /\ x.stmt.k \in {"while"} \cup ForKinds
    BY <1>2 DEF LoopMatch, LoopKind, ForKinds
  <2>2. CASE x.stmt.k = "while"
    <3>1. y = Again(x.stmt)
      BY <1>2, <2>2 DEF LoopMatch
    <3> QED
      BY <2>1, <3>1 DEF SrcItem
  <2>3. CASE x.stmt.k \in ForKinds
    <3>1. IsRound(x.stmt, y)
      BY <1>2, <2>3 DEF LoopMatch
    <3> QED
      BY <2>1, <3>1, RoundTyped
  <2> QED
    BY <2>1, <2>2, <2>3
<1>3. CASE x.k \in Micro /\ StageMatch(x, y, st, n)
  <2>1. x.loop.stmt \in Stmt /\ (y = x.loop.stmt \/ IsRound(x.loop.stmt, y))
    BY <1>3 DEF StageMatch, LoopKind
  <2>2. CASE y = x.loop.stmt
    BY <2>1, <2>2 DEF SrcItem
  <2>3. CASE IsRound(x.loop.stmt, y)
    BY <2>1, <2>3, RoundTyped
  <2> QED
    BY <2>1, <2>2, <2>3
<1>4. CASE IsCode(x) /\ y = x
  <2>1. CASE x \in Stmt
    BY <1>4, <2>1 DEF SrcItem
  <2>2. CASE x.body \in Seq(Stmt) /\ x = Block(x.body)
    BY <1>4, <2>2 DEF SrcItem
  <2> QED
    BY <1>4, <2>1, <2>2 DEF IsCode
<1> QED
  BY <1>1, <1>2, <1>3, <1>4 DEF ItemMatch

LEMMA SourceTyped ==
  ASSUME NEW c, NEW sc, NEW td, NEW en, NEW Lv, NEW st, NEW n, Matches(c, sc, td, en, Lv, st, n)
  PROVE  Source(td, en) \in States
<1>1. ItemsMatch(c, td, st, n) /\ Names(sc, en, Lv, st) /\ AnySeq(td) /\ Len(td) = Len(c) /\ AnySeq(en)
  BY MatchFacts
<1>2. ASSUME NEW k \in 1 .. Len(td)
      PROVE  Back(td, k) \in SrcItem
  BY <1>1, ItemsFacts, ItemTyped
<1>3. td \in Seq(SrcItem)
  BY <1>1, <1>2, SeqOf
<1>4. ASSUME NEW k \in 1 .. Len(en)
      PROVE  Back(en, k) \in EnvFrame
  <2>1. PICK j : j = Len(en) + 1 - k
    OBVIOUS
  <2>2. j \in 1 .. Len(en)
    <3>1. Len(en) \in Nat
      BY <1>1, AnyFacts
    <3> QED
      BY <2>1, <3>1
  <2>3. IsFrame(en[j])
    BY <1>1, <2>2 DEF Names
  <2>4. en[j] \in EnvFrame
    BY <2>3 DEF IsFrame, EnvFrame
  <2> QED
    BY <2>1, <2>4 DEF Back
<1>5. en \in Seq(EnvFrame)
  BY <1>1, <1>4, SeqOf
<1> QED
  BY <1>3, <1>5 DEF Source, States

LEMMA Arrives ==
  ASSUME NEW P, NEW b, NEW i, NEW c, NEW sc, Point(b, i, c, sc) \in P,
         NEW td, NEW en, NEW Lv, NEW st, NEW n, Matches(c, sc, td, en, Lv, st, n)
  PROVE  Arrived(P, Source(td, en), b, i, st, n)
<1>1. Source(td, en) \in States
  BY SourceTyped
<1>2. PICK p : p = Point(b, i, c, sc)
  OBVIOUS
<1>3. p \in P /\ p.b = b /\ p.i = i /\ p.cont = c /\ p.sc = sc
  BY <1>2 DEF Point
<1>4. PICK r : r = Source(td, en)
  OBVIOUS
<1>5. r.todo = td /\ r.env = en
  BY <1>4 DEF Source
<1> QED
  BY <1>1, <1>3, <1>4, <1>5 DEF Arrived

LEMMA FreshUntouched ==
  ASSUME NEW p, AnySeq(p.cont), p.cont # <<>>, AnySeq(p.sc), NEW D, \A l \in D : Fresh(p, l)
  PROVE  Untouched(Tail(p.cont), p.sc, D)
<1>1. DOMAIN p.sc = 1 .. Len(p.sc)
  BY AnyFacts
<1>2. \A m \in 1 .. Len(p.sc) : \A x \in DOMAIN p.sc[m] : p.sc[m][x] \notin D
  BY <1>1 DEF Fresh
<1>3. Len(p.cont) \in Nat \ {0} /\ Len(Tail(p.cont)) = Len(p.cont) - 1
      /\ \A k \in 1 .. Len(p.cont) - 1 : Back(Tail(p.cont), k) = Back(p.cont, k)
  BY TailFacts
<1>4. \A k \in 1 .. Len(Tail(p.cont)) : k \in 1 .. Len(p.cont) /\ Back(Tail(p.cont), k) = Back(p.cont, k)
  BY <1>3
<1>5. \A k \in 1 .. Len(Tail(p.cont)) : Reserves(Back(Tail(p.cont), k)) \cap D = {}
  BY <1>4 DEF Fresh
<1> QED
  BY <1>2, <1>5 DEF Untouched
-----------------------------------------------------------------------------
(***************************************************************************)
(* The silent steps of the statements.                                       *)
(***************************************************************************)
LEMMA TurnIs ==
  ASSUME NEW td, NEW en, NEW r, r = Source(td, en)
  PROVE  /\ r.todo = td /\ r.env = en
         /\ td # <<>> => Turn(r) = Head(td)
         /\ td = <<>> => Turn(r).k = "return" /\ Turn(r).val = 0
BY DEF Source, Turn

LEMMA GoesOnce ==
  ASSUME NEW r, NEW q, NEW p, NEW n, Goes(r, q, n), Goes(r, p, n)
  PROVE  q = p
<1>1. PICK x : x = Turn(r)
  OBVIOUS
<1>2. /\ GoesVar(r, q) => x.k = "var"
      /\ GoesAssign(r, q) => x.k = "assign"
      /\ GoesBlock(r, q) => x.k = "block"
      /\ GoesPop(r, q) => x.k = "pop"
      /\ GoesAgain(r, q) => x.k = "again" /\ x.stmt.k = "while"
      /\ GoesFor(r, q, n) => x.k \in ForKinds \/ (x.k = "again" /\ x.stmt.k \in ForKinds)
      /\ GoesOut(r, q) => x.k \in {"break", "continue"}
  BY <1>1 DEF GoesVar, GoesAssign, GoesBlock, GoesPop, GoesAgain, GoesFor, GoesOut
<1>3. /\ GoesVar(r, p) => x.k = "var"
      /\ GoesAssign(r, p) => x.k = "assign"
      /\ GoesBlock(r, p) => x.k = "block"
      /\ GoesPop(r, p) => x.k = "pop"
      /\ GoesAgain(r, p) => x.k = "again" /\ x.stmt.k = "while"
      /\ GoesFor(r, p, n) => x.k \in ForKinds \/ (x.k = "again" /\ x.stmt.k \in ForKinds)
      /\ GoesOut(r, p) => x.k \in {"break", "continue"}
  BY <1>1 DEF GoesVar, GoesAssign, GoesBlock, GoesPop, GoesAgain, GoesFor, GoesOut
<1>4. \/ GoesVar(r, q) /\ GoesVar(r, p)
      \/ GoesAssign(r, q) /\ GoesAssign(r, p)
      \/ GoesBlock(r, q) /\ GoesBlock(r, p)
      \/ GoesPop(r, q) /\ GoesPop(r, p)
      \/ GoesAgain(r, q) /\ GoesAgain(r, p)
      \/ GoesFor(r, q, n) /\ GoesFor(r, p, n)
      \/ GoesOut(r, q) /\ GoesOut(r, p)
  BY <1>2, <1>3 DEF Goes, ForKinds
<1>5. CASE GoesFor(r, q, n) /\ GoesFor(r, p, n)
  BY <1>5 DEF GoesFor, ForKinds
<1>6. CASE GoesOut(r, q) /\ GoesOut(r, p)
  BY <1>6 DEF GoesOut
<1>7. CASE GoesVar(r, q) /\ GoesVar(r, p)
  BY <1>7 DEF GoesVar
<1>8. CASE GoesAssign(r, q) /\ GoesAssign(r, p)
  BY <1>8 DEF GoesAssign
<1>9. CASE GoesBlock(r, q) /\ GoesBlock(r, p)
  BY <1>9 DEF GoesBlock
<1>10. CASE GoesPop(r, q) /\ GoesPop(r, p)
  BY <1>10 DEF GoesPop
<1>11. CASE GoesAgain(r, q) /\ GoesAgain(r, p)
  BY <1>11 DEF GoesAgain
<1> QED
  BY <1>4, <1>5, <1>6, <1>7, <1>8, <1>9, <1>10, <1>11

LEMMA RunTurn ==
  ASSUME NEW r, r = Source(todo, env)
  PROVE  r.todo = todo /\ r.env = env /\ Turn(r) = T /\ (Sees(r) <=> SourceSees)
BY DEF Source, Turn, T, Sees, SourceSees

LEMMA GivenUpIs ==
  ASSUME NEW r, r = Source(todo, env), NEW k, Unwind(k)
  PROVE  Source(todo, env)' = GivenUp(r, k)
BY DEF Unwind, GivenUp, Source

LEMMA RoundIs ==
  ASSUME NEW r, r = Source(todo, env), NEW s, NEW i, NEW n, Round(s, i, n)
  PROVE  Source(todo, env)' = Rounds(r, s, i, n)
BY DEF Round, Rounds, Source, ForAgain, Again

LEMMA RunGoes ==
  ASSUME SourceSilent, NEW r, r = Source(todo, env)
  PROVE  Goes(r, Source(todo, env)', len)
<1>1. r.todo = todo /\ r.env = env /\ Turn(r) = T
  BY RunTurn
<1>2. PICK q : q = Source(todo, env)'
  OBVIOUS
<1>3. q = Source(todo', env')
  BY <1>2 DEF Source
<1>4. \/ /\ T.k = "var"
         /\ env' = [env EXCEPT ![Len(env)] = [x \in DOMAIN @ \cup {T.name} |->
                                                IF x = T.name THEN T.val ELSE @[x]]]
         /\ todo' = Tail(todo)
      \/ /\ T.k = "assign"
         /\ env' = [env EXCEPT ![Innermost(T.name)][T.name] = T.val]
         /\ todo' = Tail(todo)
      \/ T.k = "block" /\ todo' = T.body \o <<Pop>> \o Tail(todo) /\ env' = Append(env, [x \in {} |-> 0])
      \/ T.k = "pop" /\ Unwind(1)
      \/ T.k = "again" /\ T.stmt.k = "while" /\ todo' = <<T.stmt>> \o Tail(todo) /\ UNCHANGED env
      \/ EnterFor \/ NextRound
      \/ T.k = "break" /\ Unwind(LoopAt)
      \/ T.k = "continue" /\ Unwind(LoopAt - 1)
  BY DEF SourceSilent
<1>5. CASE /\ T.k = "var"
           /\ env' = [env EXCEPT ![Len(env)] = [x \in DOMAIN @ \cup {T.name} |->
                                                  IF x = T.name THEN T.val ELSE @[x]]]
           /\ todo' = Tail(todo)
  <2>1. GoesVar(r, q)
    BY <1>1, <1>3, <1>5 DEF GoesVar
  <2> QED
    BY <1>2, <2>1 DEF Goes
<1>6. CASE /\ T.k = "assign"
           /\ env' = [env EXCEPT ![Innermost(T.name)][T.name] = T.val]
           /\ todo' = Tail(todo)
  <2>1. Innermost(T.name) = Newest(env, T.name)
    BY DEF Innermost, Newest
  <2>2. GoesAssign(r, q)
    BY <1>1, <1>3, <1>6, <2>1 DEF GoesAssign
  <2> QED
    BY <1>2, <2>2 DEF Goes
<1>7. CASE T.k = "block" /\ todo' = T.body \o <<Pop>> \o Tail(todo) /\ env' = Append(env, [x \in {} |-> 0])
  <2>1. GoesBlock(r, q)
    BY <1>1, <1>3, <1>7 DEF GoesBlock
  <2> QED
    BY <1>2, <2>1 DEF Goes
<1>8. CASE T.k = "pop" /\ Unwind(1)
  <2>1. GoesPop(r, q)
    BY <1>1, <1>2, <1>8, GivenUpIs DEF GoesPop
  <2> QED
    BY <1>2, <2>1 DEF Goes
<1>9. CASE T.k = "again" /\ T.stmt.k = "while" /\ todo' = <<T.stmt>> \o Tail(todo) /\ UNCHANGED env
  <2>1. GoesAgain(r, q)
    BY <1>1, <1>3, <1>9 DEF GoesAgain
  <2> QED
    BY <1>2, <2>1 DEF Goes
<1>10. CASE EnterFor
  <2>1. T.k \in ForKinds /\ q = Rounds(r, T, 0, len)
    BY <1>2, <1>10, RoundIs DEF EnterFor, ForKinds
  <2>2. GoesFor(r, q, len)
    BY <1>1, <2>1 DEF GoesFor
  <2> QED
    BY <1>2, <2>2 DEF Goes
<1>11. CASE NextRound
  <2>1. PICK m : m = IF T.stmt.k = "iter" THEN len ELSE T.stmt.n
    OBVIOUS
  <2>2. T.k = "again" /\ T.stmt.k \in ForKinds /\ Round(T.stmt, T.stmt.at, m)
    BY <1>11, <2>1 DEF NextRound, ForKinds
  <2>3. q = Rounds(r, T.stmt, T.stmt.at, m)
    BY <1>2, <2>2, RoundIs
  <2>4. GoesFor(r, q, len)
    BY <1>1, <2>1, <2>2, <2>3 DEF GoesFor
  <2> QED
    BY <1>2, <2>4 DEF Goes
<1>a. LoopAt = LoopOf(todo)
  BY DEF LoopAt, LoopOf
<1>12. CASE T.k = "break" /\ Unwind(LoopAt)
  <2>1. GoesOut(r, q)
    BY <1>1, <1>2, <1>12, <1>a, GivenUpIs DEF GoesOut
  <2> QED
    BY <1>2, <2>1 DEF Goes
<1>13. CASE T.k = "continue" /\ Unwind(LoopAt - 1)
  <2>1. GoesOut(r, q)
    BY <1>1, <1>2, <1>13, <1>a, GivenUpIs DEF GoesOut
  <2> QED
    BY <1>2, <2>1 DEF Goes
<1> QED
  BY <1>4, <1>5, <1>6, <1>7, <1>8, <1>9, <1>10, <1>11, <1>12, <1>13

(* A for begins its next round, or is over. *)
RoundsOf(y, n) == IF y.k = "again" THEN (IF y.stmt.k = "iter" THEN n ELSE y.stmt.n) ELSE n

LEMMA RoundGoes ==
  ASSUME NEW r, r.todo # <<>>, NEW y, y = Head(r.todo), NEW s, s.k \in ForKinds, y = s \/ IsRound(s, y), NEW n
  PROVE  /\ ~ Sees(r) /\ Goes(r, Rounds(r, s, RoundAt(y), RoundsOf(y, n)), n)
         /\ RoundsOf(y, n) = IF s.k = "iter" THEN n ELSE RoundEnd(y, n)
<1>1. Turn(r) = y
  BY DEF Turn
<1>2. CASE y = s
  <2>1. y.k # "again" /\ ~ Sees(r)
    BY <1>1, <1>2 DEF ForKinds, Sees
  <2>2. RoundAt(y) = 0 /\ RoundsOf(y, n) = n /\ RoundEnd(y, n) = n
    BY <2>1 DEF RoundAt, RoundsOf, RoundEnd
  <2>3. GoesFor(r, Rounds(r, s, 0, n), n)
    BY <1>1, <1>2 DEF GoesFor
  <2> QED
    BY <2>1, <2>2, <2>3 DEF Goes
<1>3. CASE IsRound(s, y)
  <2>1. PICK i, m, u : i = y.stmt.at /\ m = y.stmt.n /\ u = y.stmt
    OBVIOUS
  <2>2. y.k = "again" /\ u = [k |-> s.k, name |-> s.name, body |-> s.body, at |-> i, n |-> m]
    BY <1>3, <2>1 DEF IsRound, ForAgain, Again
  <2>3. u.k = s.k /\ u.name = s.name /\ u.body = s.body /\ u.at = i /\ u.n = m
    BY <2>2
  <2>4. ~ Sees(r) /\ RoundAt(y) = i /\ RoundEnd(y, n) = m
    BY <1>1, <2>1, <2>2 DEF Sees, RoundAt, RoundEnd
  <2>5. PICK N : N = RoundsOf(y, n)
    OBVIOUS
  <2>6. N = IF s.k = "iter" THEN n ELSE m
    BY <2>1, <2>2, <2>3, <2>5 DEF RoundsOf
  <2>7. Rounds(r, u, i, N) = Rounds(r, s, i, N)
    BY <2>3 DEF Rounds, ForAgain
  <2>8. N = IF u.k = "iter" THEN n ELSE u.n
    BY <2>3, <2>6
  <2>9. Turn(r).k = "again" /\ Turn(r).stmt = u /\ u.k \in ForKinds
    BY <1>1, <2>1, <2>2, <2>3
  <2>10. GoesFor(r, Rounds(r, s, i, N), n)
    BY <2>3, <2>7, <2>8, <2>9 DEF GoesFor
  <2>11. Goes(r, Rounds(r, s, RoundAt(y), N), n)
    BY <2>4, <2>10 DEF Goes
  <2> QED
    BY <2>4, <2>5, <2>6, <2>11
<1> QED
  BY <1>2, <1>3
(***************************************************************************)
(* Scopes and loops that are left.                                           *)
(***************************************************************************)
LEMMA SettledBy ==
  ASSUME NEW c, NEW sc, NEW td, NEW en, NEW Lv, NEW st, NEW n, Matches(c, sc, td, en, Lv, st, n),
         c = <<>> \/ Head(c).k \notin Micro
  PROVE  Settled(c)
<1>1. Places(c, sc, en, Lv) /\ AnySeq(c) /\ Len(c) \in Nat
  BY MatchFacts
<1>2. CASE c = <<>>
  BY <1>1, <1>2, AnyFacts DEF Settled
<1>3. CASE c # <<>> /\ Head(c).k \notin Micro
  <2>1. Head(c) = Back(c, Len(c))
    BY <1>1, <1>3, TailFacts
  <2>2. \A k \in 1 .. Len(c) : Back(c, k).k \in Micro => k = Len(c)
    BY <1>1, PlaceFacts
  <2> QED
    BY <1>3, <2>1, <2>2 DEF Settled
<1> QED
  BY <1>2, <1>3

LEMMA GivenUpTo ==
  ASSUME NEW c, NEW sc, NEW td, NEW en, NEW Lv, NEW st, NEW n, Matches(c, sc, td, en, Lv, st, n),
         NEW m \in 0 .. Len(c) - 1, NEW d, d = Depth(c, m), NEW r, r = Source(td, en), NEW k, k = Len(c) - m
  PROVE  GivenUp(r, k) = Source(Last(td, m), SubSeq(en, 1, d))
<1>1. /\ ItemsMatch(c, td, st, n) /\ Len(td) = Len(c) /\ Len(c) \in Nat /\ AnySeq(c) /\ AnySeq(td)
      /\ Len(en) = Depth(c, Len(c))
  BY MatchFacts
<1>2. k \in 0 .. Len(c) /\ Len(c) - k = m
  BY <1>1
<1>3. \A j \in 1 .. Len(c) : Back(td, j).k = "pop" <=> Back(c, j).k \in PopLike
  BY <1>1, ItemsFacts
<1>4. Depth(c, Len(c)) - Cardinality({j \in 1 .. k : td[j].k = "pop"}) = Depth(c, Len(c) - k)
  BY <1>1, <1>2, <1>3, DepthCount
<1>5. Len(en) - Cardinality({j \in 1 .. k : td[j].k = "pop"}) = d
  BY <1>1, <1>2, <1>4
<1>6. SubSeq(td, k + 1, Len(td)) = Last(td, m)
  <2>1. Len(td) - m + 1 = k + 1
    BY <1>1, <1>2
  <2> QED
    BY <2>1 DEF Last
<1>7. r.todo = td /\ r.env = en
  BY TurnIs
<1>8. GivenUp(r, k) = Source(SubSeq(td, k + 1, Len(td)),
                             SubSeq(en, 1, Len(en) - Cardinality({j \in 1 .. k : td[j].k = "pop"})))
  BY <1>7 DEF GivenUp
<1> QED
  BY <1>5, <1>6, <1>8

LEMMA PopGone ==
  ASSUME NEW c, NEW sc, NEW td, NEW en, NEW Lv, NEW st, NEW n, Matches(c, sc, td, en, Lv, st, n),
         c # <<>>, Head(c).k \in PopLike, NEW r, r = Source(td, en)
  PROVE  \E en1, Lv1 : LET s == IF Head(c).k = "pop" THEN SubSeq(sc, 1, Len(sc) - 1) ELSE sc
                       IN  /\ ~ Sees(r) /\ Goes(r, Source(Tail(td), en1), n)
                           /\ Matches(Tail(c), s, Tail(td), en1, Lv1, st, n) /\ Settled(Tail(c))
<1>c. AnySeq(c) /\ AnySeq(td) /\ td # <<>>
  <2>1. AnySeq(c) /\ AnySeq(td) /\ Len(td) = Len(c)
    BY MatchFacts
  <2> QED
    BY <2>1, AnyFacts
<1>d. ItemMatch(Head(c), Head(td), st, n)
  BY HeadMatch
<1>e. Len(c) \in Nat \ {0}
  BY HeadMatch
<1>a. AnySeq(c) /\ AnySeq(td) /\ td # <<>> /\ ItemMatch(Head(c), Head(td), st, n) /\ Len(c) \in Nat \ {0}
  BY <1>c, <1>d, <1>e
<1>b. Last(c, Len(c) - 1) = Tail(c) /\ Last(td, Len(c) - 1) = Tail(td)
  BY HeadTails
<1>1. /\ AnySeq(c) /\ AnySeq(td) /\ td # <<>> /\ ItemMatch(Head(c), Head(td), st, n)
      /\ Len(c) \in Nat \ {0} /\ Last(c, Len(c) - 1) = Tail(c) /\ Last(td, Len(c) - 1) = Tail(td)
  BY <1>a, <1>b
<1>2. PICK m, d : m = Len(c) - 1 /\ d = Depth(c, m)
  OBVIOUS
<1>3. PICK s : s = Lv[d]
  OBVIOUS
<1>4. m \in 0 .. Len(c) - 1 /\ Len(c) - m = 1
  BY <1>1, <1>2
<1>5. Matches(Tail(c), SubSeq(sc, 1, s), Tail(td), SubSeq(en, 1, d), SubSeq(Lv, 1, d), st, n) /\ Settled(Tail(c))
  BY <1>1, <1>2, <1>3, <1>4, LeftWith
<1>6. SubSeq(sc, 1, s) = IF Head(c).k = "pop" THEN SubSeq(sc, 1, Len(sc) - 1) ELSE sc
  <2>1. CASE Head(c).k = "pop"
    <3>1. s = Len(sc) - 1
      BY <1>2, <1>3, <2>1, HeadLevel
    <3> QED
      BY <2>1, <3>1
  <2>2. CASE Head(c).k = "fpop"
    <3>1. s = Len(sc)
      BY <1>2, <1>3, <2>2, HeadLevel
    <3>2. AnySeq(sc)
      BY MatchFacts
    <3>3. SubSeq(sc, 1, Len(sc)) = sc
      <4>1. Len(sc) \in 0 .. Len(sc)
        BY <3>2, AnyFacts
      <4>2. /\ AnySeq(SubSeq(sc, 1, Len(sc))) /\ Len(SubSeq(sc, 1, Len(sc))) = Len(sc)
            /\ \A i \in 1 .. Len(sc) : SubSeq(sc, 1, Len(sc))[i] = sc[i]
        BY <3>2, <4>1, FirstFacts
      <4> QED
        BY <3>2, <4>2, SameItems
    <3> QED
      BY <2>2, <3>1, <3>3
  <2> QED
    BY <2>1, <2>2 DEF PopLike
<1>7. GivenUp(r, 1) = Source(Tail(td), SubSeq(en, 1, d))
  <2>1. PICK k : k = Len(c) - m
    OBVIOUS
  <2>2. GivenUp(r, k) = Source(Last(td, m), SubSeq(en, 1, d))
    BY <1>2, <1>4, <2>1, GivenUpTo
  <2>3. k = 1
    BY <1>4, <2>1
  <2> QED
    BY <1>1, <1>2, <2>2, <2>3
<1>8. Turn(r).k = "pop"
  <2>1. Head(td) = Pop
    BY <1>1, ItemTurn
  <2> QED
    BY <1>1, <2>1, TurnIs DEF Pop
<1>9. ~ Sees(r) /\ Goes(r, Source(Tail(td), SubSeq(en, 1, d)), n)
  <2>1. GoesPop(r, Source(Tail(td), SubSeq(en, 1, d)))
    BY <1>7, <1>8 DEF GoesPop
  <2> QED
    BY <1>8, <2>1 DEF Goes, Sees
<1> QED
  BY <1>5, <1>6, <1>9

LEMMA LoopOfIs ==
  ASSUME NEW c, NEW sc, NEW td, NEW en, NEW Lv, NEW st, NEW n, Matches(c, sc, td, en, Lv, st, n), Settled(c),
         NEW k, Nearest(c, k)
  PROVE  LoopOf(td) = Len(c) - (k - 1)
<1>1. ItemsMatch(c, td, st, n) /\ AnySeq(c) /\ AnySeq(td) /\ Len(td) = Len(c) /\ Len(c) \in Nat
  BY MatchFacts
<1>2. k \in 1 .. Len(c) /\ Back(c, k).k = "again" /\ \A j \in k + 1 .. Len(c) : Back(c, j).k # "again"
  BY DEF Nearest
<1>3. PICK L, m : L = Len(c) /\ m = L - (k - 1)
  OBVIOUS
<1>4. m \in 1 .. L /\ L + 1 - m = k /\ L \in Nat
  BY <1>1, <1>2, <1>3
<1>5. ASSUME NEW i \in 1 .. L
      PROVE  td[i].k = "again" <=> Back(c, L + 1 - i).k = "again"
  <2>1. PICK j : j = L + 1 - i
    OBVIOUS
  <2>2. j \in 1 .. L /\ td[i] = Back(td, j)
    BY <1>1, <1>3, <2>1, AnyFacts
  <2>3. ItemMatch(Back(c, j), Back(td, j), st, n) /\ Back(c, j).k \notin Micro
    BY <1>1, <1>3, <2>2, ItemsFacts DEF Settled
  <2> QED
    BY <2>1, <2>2, <2>3, ItemTurn
<1>6. td[m].k = "again"
  BY <1>2, <1>4, <1>5
<1>7. ASSUME NEW i \in 1 .. m - 1
      PROVE  td[i].k # "again"
  <2>1. i \in 1 .. L /\ L + 1 - i \in k + 1 .. L
    BY <1>3, <1>4
  <2> QED
    BY <1>2, <1>3, <1>5, <2>1
<1>8. DOMAIN td = 1 .. L
  BY <1>1, <1>3, AnyFacts
<1>9. ASSUME NEW i \in DOMAIN td, td[i].k = "again", \A j \in 1 .. i - 1 : td[j].k # "again"
      PROVE  i = m
  <2>1. ~ (i < m)
    <3>1. i < m => i \in 1 .. m - 1
      BY <1>4, <1>8
    <3> QED
      BY <1>7, <1>9, <3>1
  <2>2. ~ (m < i)
    <3>1. m < i => m \in 1 .. i - 1
      BY <1>4, <1>8
    <3> QED
      BY <1>6, <1>9, <3>1
  <2> QED
    BY <1>4, <1>8, <2>1, <2>2
<1>10. LoopOf(td) = m
  BY <1>4, <1>6, <1>7, <1>8, <1>9 DEF LoopOf
<1> QED
  BY <1>3, <1>10
-----------------------------------------------------------------------------
(***************************************************************************)
(* The statements do in silence what the blocks have done.                   *)
(***************************************************************************)
Moves(P, r, b, i, st, n)   == ~ Sees(r) /\ \E q : Goes(r, q, n) /\ Arrived(P, q, b, i, st, n)
Reaches(P, r, b, i, st, n) == Arrived(P, r, b, i, st, n) \/ Moves(P, r, b, i, st, n)

LEMMA MovesTo ==
  ASSUME NEW P, NEW b, NEW i, NEW c, NEW sc, Point(b, i, c, sc) \in P,
         NEW td, NEW en, NEW Lv, NEW st, NEW n, Matches(c, sc, td, en, Lv, st, n),
         NEW r, ~ Sees(r), NEW m, Goes(r, Source(td, en), m), m = n
  PROVE  Moves(P, r, b, i, st, n)
<1>1. Arrived(P, Source(td, en), b, i, st, n)
  BY Arrives
<1> QED
  BY <1>1 DEF Moves

LEMMA HeadCode ==
  ASSUME NEW c, NEW sc, NEW td, NEW en, NEW Lv, NEW st, NEW n, Matches(c, sc, td, en, Lv, st, n), c # <<>>,
         NEW r, r = Source(td, en)
  PROVE  /\ AnySeq(td) /\ td # <<>> /\ Turn(r) = Head(td) /\ ItemMatch(Head(c), Head(td), st, n)
         /\ Head(c).k \notin PopLike \cup Micro \cup {"again"} => IsCode(Head(c)) /\ Turn(r) = Head(c)
<1>1. AnySeq(c) /\ AnySeq(td) /\ Len(td) = Len(c)
  BY MatchFacts
<1>2. td # <<>>
  BY <1>1, AnyFacts
<1>3. ItemMatch(Head(c), Head(td), st, n)
  BY HeadMatch
<1>4. Turn(r) = Head(td)
  BY <1>2, TurnIs
<1>5. Head(c).k \notin PopLike \cup Micro \cup {"again"} => IsCode(Head(c)) /\ Head(td) = Head(c)
  BY <1>3, ItemTurn
<1> QED
  BY <1>1, <1>2, <1>3, <1>4, <1>5

LEMMA BlockMoves ==
  ASSUME NEW c, NEW sc, NEW td, NEW en, NEW Lv, NEW st, NEW n, Matches(c, sc, td, en, Lv, st, n), c # <<>>,
         NEW r, r = Source(td, en), Head(c).k = "block", NEW P, NEW b, NEW i,
         Point(b, i, Head(c).body \o <<Pop>> \o Tail(c), Append(sc, [x \in {} |-> 0])) \in P
  PROVE  Moves(P, r, b, i, st, n)
<1>1. IsCode(Head(c)) /\ Turn(r) = Head(c)
  BY HeadCode DEF PopLike, Micro
<1>2. PICK s : s = Head(c).body
  OBVIOUS
<1>3. s \in Seq(Stmt)
  BY <1>1, <1>2, CodeFacts
<1>4. PICK c1, td1 : c1 = Tail(c) /\ td1 = Tail(td)
  OBVIOUS
<1>5. Matches(c1, sc, td1, en, Lv, st, n) /\ Settled(c1)
  BY <1>4, HeadGone DEF PopLike
<1>6. PICK sc1, en1 : sc1 = Append(sc, NoNames) /\ en1 = Append(en, NoNames)
  OBVIOUS
<1>7. PICK Lv1 : /\ Matches(<<Pop>> \o c1, sc1, <<Pop>> \o td1, en1, Lv1, st, n) /\ Settled(<<Pop>> \o c1)
                 /\ Clear(<<Pop>> \o c1, sc1, en1, Lv1)
  BY <1>5, <1>6, PopInFront
<1>8. AllCode(s)
  BY <1>3, ItemsCode DEF AllCode
<1>9. Matches(s \o (<<Pop>> \o c1), sc1, s \o (<<Pop>> \o td1), en1, Lv1, st, n)
  BY <1>7, <1>8, CodeInFront
<1>10. AnySeq(c1) /\ AnySeq(td1) /\ AnySeq(s)
  <2>1. AnySeq(c1) /\ AnySeq(td1)
    BY <1>5, MatchFacts
  <2> QED
    BY <1>8, <2>1 DEF AllCode
<1>11. s \o (<<Pop>> \o c1) = s \o <<Pop>> \o c1 /\ s \o (<<Pop>> \o td1) = s \o <<Pop>> \o td1
  OBVIOUS
<1>12. ~ Sees(r) /\ Goes(r, Source(s \o <<Pop>> \o td1, en1), n)
  <2>1. r.todo = td /\ r.env = en
    BY TurnIs
  <2>2. Turn(r).k = "block" /\ Turn(r).body = s
    BY <1>1, <1>2
  <2>3. GoesBlock(r, Source(s \o <<Pop>> \o td1, en1))
    BY <1>4, <1>6, <2>1, <2>2 DEF GoesBlock, NoNames
  <2> QED
    BY <2>2, <2>3 DEF Goes, Sees
<1>13. Point(b, i, s \o <<Pop>> \o c1, sc1) \in P
  BY <1>2, <1>4, <1>6 DEF NoNames
<1> QED
  BY <1>9, <1>11, <1>12, <1>13, MovesTo

LEMMA PopMoves ==
  ASSUME NEW c, NEW sc, NEW td, NEW en, NEW Lv, NEW st, NEW n, Matches(c, sc, td, en, Lv, st, n), c # <<>>,
         NEW r, r = Source(td, en), Head(c).k = "pop", NEW P, NEW b, NEW i,
         Point(b, i, Tail(c), SubSeq(sc, 1, Len(sc) - 1)) \in P
  PROVE  Moves(P, r, b, i, st, n)
<1>1. PICK s : s = SubSeq(sc, 1, Len(sc) - 1)
  OBVIOUS
<1>2. PICK en1, Lv1 : /\ ~ Sees(r) /\ Goes(r, Source(Tail(td), en1), n)
                      /\ Matches(Tail(c), s, Tail(td), en1, Lv1, st, n)
  BY <1>1, PopGone DEF PopLike
<1>3. PICK c1, td1 : c1 = Tail(c) /\ td1 = Tail(td)
  OBVIOUS
<1>4. Point(b, i, c1, s) \in P /\ Matches(c1, s, td1, en1, Lv1, st, n) /\ Goes(r, Source(td1, en1), n)
  BY <1>1, <1>2, <1>3
<1> QED
  BY <1>2, <1>4, MovesTo

LEMMA AgainMoves ==
  ASSUME NEW c, NEW sc, NEW td, NEW en, NEW Lv, NEW st, NEW n, Matches(c, sc, td, en, Lv, st, n), c # <<>>,
         NEW r, r = Source(td, en), Head(c).k = "again", Head(c).stmt.k = "while", NEW P, NEW b, NEW i,
         Point(b, i, <<Head(c).stmt>> \o Tail(c), sc) \in P
  PROVE  Moves(P, r, b, i, st, n)
<1>1. PICK s : s = Head(c).stmt
  OBVIOUS
<1>2. Turn(r) = Head(td) /\ ItemMatch(Head(c), Head(td), st, n)
  BY HeadCode
<1>3. LoopMatch(Head(c), Head(td), st, n)
  BY <1>2, ItemTurn
<1>4. s \in Stmt /\ s.k = "while" /\ Head(td) = Again(s)
  BY <1>1, <1>3 DEF LoopMatch, LoopKind
<1>5. PICK c1, td1 : c1 = Tail(c) /\ td1 = Tail(td)
  OBVIOUS
<1>6. Matches(c1, sc, td1, en, Lv, st, n) /\ Settled(c1)
  BY <1>5, HeadGone DEF PopLike
<1>7. PICK t : t = <<s>>
  OBVIOUS
<1>8. AnySeq(t) /\ Len(t) = 1 /\ t[1] = s
  BY <1>7, OneItem
<1>9. \A k \in 1 .. Len(t) : Back(t, k) = s
  BY <1>8 DEF Back
<1>10. AllCode(t) /\ ~ Binds(t)
  BY <1>4, <1>8, <1>9 DEF AllCode, Binds, Binders, IsCode
<1>11. Matches(t \o c1, sc, t \o td1, en, Lv, st, n)
  BY <1>6, <1>10, CodeInFront
<1>12. ~ Sees(r) /\ Goes(r, Source(t \o td1, en), n)
  <2>1. r.todo = td /\ r.env = en
    BY TurnIs
  <2>2. Turn(r).k = "again" /\ Turn(r).stmt = s
    BY <1>2, <1>4 DEF Again
  <2>3. GoesAgain(r, Source(t \o td1, en))
    BY <1>4, <1>5, <1>7, <2>1, <2>2 DEF GoesAgain
  <2> QED
    BY <2>2, <2>3 DEF Goes, Sees
<1>13. Point(b, i, t \o c1, sc) \in P
  BY <1>1, <1>5, <1>7
<1> QED
  BY <1>11, <1>12, <1>13, MovesTo

(* A stage of a for gives way to the next one. *)
LEMMA Restaged ==
  ASSUME NEW c, NEW sc, NEW td, NEW en, NEW Lv, NEW st, NEW n, Matches(c, sc, td, en, Lv, st, n), c # <<>>,
         NEW l, \/ Head(c).k \in Micro /\ Head(c).loop = l
                \/ Head(c).k = "again" /\ Head(c) = l /\ l.stmt.k \in ForKinds,
         NEW D, D \subseteq Keeps(l), NEW st1, AgreeBut(st, st1, D),
         NEW k \in Micro, StageMatch(Stage(k, l), Head(td), st1, n)
  PROVE  Matches(<<Stage(k, l)>> \o Tail(c), sc, td, en, Lv, st1, n)
<1>1. PICK c1, td1 : c1 = Tail(c) /\ td1 = Tail(td)
  OBVIOUS
<1>2. PICK x, y : x = Stage(k, l) /\ y = Head(td)
  OBVIOUS
<1>3. x.k = k /\ x.loop = l
  BY <1>2 DEF Stage
<1>4. Head(c).k \notin PopLike /\ Reserves(Head(c)) = Keeps(l) /\ Reserves(x) = Keeps(l)
  BY <1>3 DEF Micro, PopLike, Reserves
<1>5. Matches(c1, sc, td1, en, Lv, st, n) /\ Settled(c1) /\ Untouched(c1, sc, Keeps(l))
  BY <1>1, <1>4, HeadGone
<1>6. Untouched(c1, sc, D)
  BY <1>5 DEF Untouched
<1>7. Unseen(c1, sc, en, Lv, D)
  BY <1>5, <1>6, UntouchedUnseen
<1>8. Matches(c1, sc, td1, en, Lv, st1, n)
  BY <1>5, <1>7, StoreKept
<1>9. StagePlace(c1, x, sc, en)
  <2>1. CASE Head(c).k \in Micro /\ Head(c).loop = l
    <3>1. StagePlace(c1, Head(c), sc, en)
      BY <1>1, <2>1, HeadPlace
    <3> QED
      BY <1>3, <2>1, <3>1 DEF StagePlace
  <2>2. CASE Head(c).k = "again" /\ Head(c) = l /\ l.stmt.k \in ForKinds
    <3>1. l.rest = c1 /\ l.sc = sc /\ ~ BoundIn(en, l.stmt.name)
      BY <1>1, <2>2, HeadPlace
    <3> QED
      BY <1>3, <3>1 DEF StagePlace
  <2> QED
    BY <2>1, <2>2
<1>10. Standing(x, c1, sc, en)
  BY <1>3, <1>9 DEF Standing, Micro
<1>11. ItemMatch(x, y, st1, n)
  BY <1>2, <1>3 DEF ItemMatch
<1>12. x.k \notin PopLike \cup Binders
  BY <1>3 DEF Micro, PopLike, Binders
<1>13. Matches(<<x>> \o c1, sc, <<y>> \o td1, en, Lv, st1, n)
  BY <1>4, <1>5, <1>8, <1>10, <1>11, <1>12, OneInFront
<1>14. td = <<y>> \o td1
  <2>1. AnySeq(td) /\ td # <<>>
    <3>1. AnySeq(c) /\ AnySeq(td) /\ Len(td) = Len(c)
      BY MatchFacts
    <3> QED
      BY <3>1, AnyFacts
  <2> QED
    BY <1>1, <1>2, <2>1, TailFacts
<1> QED
  BY <1>1, <1>2, <1>13, <1>14
(* What continue comes back to is what the loop left. *)
LEMMA ContItemMatches ==
  ASSUME NEW c, NEW sc, NEW td, NEW en, NEW Lv, NEW st, NEW n, Matches(c, sc, td, en, Lv, st, n), c # <<>>,
         Head(c).k = "again"
  PROVE  Matches(<<ContItem(Head(c))>> \o Tail(c), sc, td, en, Lv, st, n)
<1>1. PICK l : l = Head(c)
  OBVIOUS
<1>2. PICK y : y = Head(td)
  OBVIOUS
<1>3. LoopMatch(l, y, st, n)
  <2>1. ItemMatch(Head(c), Head(td), st, n)
    BY HeadMatch
  <2> QED
    BY <1>1, <1>2, <2>1, ItemTurn
<1>4. LoopKind(l)
  BY <1>3 DEF LoopMatch
<1>5. CASE l.stmt.k = "iter"
  <2>1. IsRound(l.stmt, y) /\ Holds(st, l.l, y.stmt.at)
    BY <1>3, <1>5 DEF LoopMatch, ForKinds
  <2>2. y.k = "again" /\ RoundAt(y) = y.stmt.at
    BY <2>1 DEF IsRound, RoundAt
  <2>3. IterStage("round", l.l, y, st, n)
    BY <2>1, <2>2 DEF IterStage
  <2>4. PICK x : x = Stage("round", l)
    OBVIOUS
  <2>5. x.k = "round" /\ x.loop = l
    BY <2>4 DEF Stage
  <2>6. StageMatch(x, y, st, n)
    BY <1>4, <1>5, <2>1, <2>3, <2>5 DEF StageMatch, ForKinds
  <2>7. AgreeBut(st, st, {})
    BY DEF AgreeBut
  <2>8. Matches(<<Stage("round", l)>> \o Tail(c), sc, td, en, Lv, st, n)
    BY <1>1, <1>2, <1>5, <2>4, <2>6, <2>7, Restaged DEF Micro, ForKinds
  <2>9. ContItem(l) = Stage("round", l)
    BY <1>5 DEF ContItem
  <2> QED
    BY <1>1, <2>8, <2>9
<1>6. CASE l.stmt.k # "iter"
  <2>1. ContItem(l) = l
    BY <1>6 DEF ContItem
  <2>2. <<l>> \o Tail(c) = c
    <3>1. AnySeq(c)
      BY MatchFacts
    <3> QED
      BY <1>1, <3>1, TailFacts
  <2> QED
    BY <1>1, <2>1, <2>2
<1> QED
  BY <1>5, <1>6

LEMMA BreakMoves ==
  ASSUME NEW c, NEW sc, NEW td, NEW en, NEW Lv, NEW st, NEW n, Matches(c, sc, td, en, Lv, st, n), c # <<>>,
         NEW r, r = Source(td, en), Head(c).k = "break", NEW P, NEW k, Nearest(c, k),
         ExitPoint(Back(c, k)) \in P
  PROVE  Moves(P, r, Back(c, k).exit, 1, st, n)
<1>1. Turn(r) = Head(c)
  BY HeadCode DEF PopLike, Micro
<1>2. Settled(c)
  BY SettledBy DEF Micro
<1>3. LoopOf(td) = Len(c) - (k - 1)
  BY <1>2, LoopOfIs
<1>4. AnySeq(c) /\ Len(c) \in Nat /\ Levels(c, sc, en, Lv) /\ Places(c, sc, en, Lv)
  BY MatchFacts
<1>5. k \in 1 .. Len(c) /\ Back(c, k).k = "again"
  BY DEF Nearest
<1>6. PICK m, d, j : m = k - 1 /\ d = Depth(c, m) /\ j = Len(c) - m
  OBVIOUS
<1>7. m \in 0 .. Len(c) - 1 /\ k \in Nat \ {0}
  BY <1>4, <1>5, <1>6
<1>8. PICK s : s = Lv[d]
  OBVIOUS
<1>9. Matches(Last(c, m), SubSeq(sc, 1, s), Last(td, m), SubSeq(en, 1, d), SubSeq(Lv, 1, d), st, n)
  BY <1>6, <1>7, <1>8, LeftWith
<1>10. GivenUp(r, j) = Source(Last(td, m), SubSeq(en, 1, d))
  BY <1>6, <1>7, GivenUpTo
<1>11. ~ Sees(r) /\ Goes(r, Source(Last(td, m), SubSeq(en, 1, d)), n)
  <2>1. r.todo = td
    BY TurnIs
  <2>2. GoesOut(r, Source(Last(td, m), SubSeq(en, 1, d)))
    BY <1>1, <1>3, <1>6, <1>10, <2>1 DEF GoesOut
  <2> QED
    BY <1>1, <2>2 DEF Goes, Sees
<1>12. PICK l : l = Back(c, k)
  OBVIOUS
<1>13. LoopPlace(c, k, sc, en, Lv)
  BY <1>4, <1>5, PlaceFacts
<1>14. Depth(c, k) = d
  <2>1. Back(c, k).k \notin PopLike
    BY <1>5 DEF PopLike
  <2> QED
    BY <1>6, <1>7, <2>1, DepthStep
<1>15. l.rest = Last(c, m) /\ l.sc = SubSeq(sc, 1, s)
  BY <1>6, <1>8, <1>12, <1>13, <1>14 DEF LoopPlace
<1>16. Point(l.exit, 1, Last(c, m), SubSeq(sc, 1, s)) \in P
  BY <1>12, <1>15 DEF ExitPoint
<1>17. PICK c1, sc1, td1, en1, Lv1 : /\ c1 = Last(c, m) /\ sc1 = SubSeq(sc, 1, s) /\ td1 = Last(td, m)
                                     /\ en1 = SubSeq(en, 1, d) /\ Lv1 = SubSeq(Lv, 1, d)
  OBVIOUS
<1>18. /\ Point(l.exit, 1, c1, sc1) \in P /\ Matches(c1, sc1, td1, en1, Lv1, st, n)
       /\ ~ Sees(r) /\ Goes(r, Source(td1, en1), n)
  BY <1>9, <1>11, <1>16, <1>17
<1>19. Moves(P, r, l.exit, 1, st, n)
  BY <1>18, MovesTo
<1> QED
  BY <1>12, <1>19

LEMMA ContinueMoves ==
  ASSUME NEW c, NEW sc, NEW td, NEW en, NEW Lv, NEW st, NEW n, Matches(c, sc, td, en, Lv, st, n), c # <<>>,
         NEW r, r = Source(td, en), Head(c).k = "continue", NEW P, NEW k, Nearest(c, k),
         ContPoint(Back(c, k)) \in P
  PROVE  Moves(P, r, Back(c, k).cont, 1, st, n)
<1>1. Turn(r) = Head(c)
  BY HeadCode DEF PopLike, Micro
<1>2. Settled(c)
  BY SettledBy DEF Micro
<1>3. LoopOf(td) = Len(c) - (k - 1)
  BY <1>2, LoopOfIs
<1>4. AnySeq(c) /\ Len(c) \in Nat /\ Head(c) = Back(c, Len(c))
  <2>1. AnySeq(c) /\ Len(c) \in Nat
    BY MatchFacts
  <2> QED
    BY <2>1, TailFacts
<1>5. k \in 1 .. Len(c) /\ Back(c, k).k = "again"
  BY DEF Nearest
<1>6. k # Len(c)
  BY <1>4, <1>5
<1>7. PICK d, j : d = Depth(c, k) /\ j = Len(c) - k
  OBVIOUS
<1>8. k \in 0 .. Len(c) - 1 /\ LoopOf(td) - 1 = j
  BY <1>3, <1>4, <1>5, <1>6, <1>7
<1>9. PICK s : s = Lv[d]
  OBVIOUS
<1>10. Matches(Last(c, k), SubSeq(sc, 1, s), Last(td, k), SubSeq(en, 1, d), SubSeq(Lv, 1, d), st, n)
  BY <1>7, <1>8, <1>9, LeftWith
<1>11. GivenUp(r, j) = Source(Last(td, k), SubSeq(en, 1, d))
  BY <1>7, <1>8, GivenUpTo
<1>12. ~ Sees(r) /\ Goes(r, Source(Last(td, k), SubSeq(en, 1, d)), n)
  <2>1. r.todo = td
    BY TurnIs
  <2>2. GoesOut(r, Source(Last(td, k), SubSeq(en, 1, d)))
    BY <1>1, <1>8, <1>11, <2>1 DEF GoesOut
  <2> QED
    BY <1>1, <2>2 DEF Goes, Sees
<1>13. PICK l, m : l = Back(c, k) /\ m = k - 1
  OBVIOUS
<1>14. PICK c1, sc1, td1, en1, Lv1 : /\ c1 = Last(c, k) /\ sc1 = SubSeq(sc, 1, s) /\ td1 = Last(td, k)
                                     /\ en1 = SubSeq(en, 1, d) /\ Lv1 = SubSeq(Lv, 1, d)
  OBVIOUS
<1>15. Matches(c1, sc1, td1, en1, Lv1, st, n)
  BY <1>10, <1>14
<1>16. c1 = <<l>> \o Last(c, m)
  BY <1>4, <1>5, <1>13, <1>14, LastOf
<1>17. AnySeq(Last(c, m))
  <2>1. m \in 0 .. Len(c)
    BY <1>4, <1>5, <1>13
  <2> QED
    BY <1>4, <2>1, LastFacts
<1>18. c1 # <<>> /\ Head(c1) = l /\ Tail(c1) = Last(c, m)
  BY <1>16, <1>17, ConsFacts
<1>19. Matches(<<ContItem(l)>> \o Tail(c1), sc1, td1, en1, Lv1, st, n)
  BY <1>5, <1>13, <1>15, <1>18, ContItemMatches
<1>20. l.rest = Tail(c1) /\ l.sc = sc1
  BY <1>5, <1>13, <1>15, <1>18, HeadPlace
<1>21. Point(l.cont, 1, <<ContItem(l)>> \o Tail(c1), sc1) \in P
  BY <1>13, <1>20 DEF ContPoint
<1>22. Goes(r, Source(td1, en1), n)
  BY <1>12, <1>14
<1>23. PICK c2 : c2 = <<ContItem(l)>> \o Tail(c1)
  OBVIOUS
<1>24. Point(l.cont, 1, c2, sc1) \in P /\ Matches(c2, sc1, td1, en1, Lv1, st, n)
  BY <1>19, <1>21, <1>23
<1>25. Moves(P, r, l.cont, 1, st, n)
  BY <1>12, <1>22, <1>24, MovesTo
<1> QED
  BY <1>13, <1>25

LEMMA BodyMoves ==
  ASSUME NEW c, NEW sc, NEW td, NEW en, NEW Lv, NEW st, NEW n, Matches(c, sc, td, en, Lv, st, n), c # <<>>,
         NEW r, r = Source(td, en), Head(c).k = "fpop", Tail(c) # <<>>, NEW l, l = Head(Tail(c)), l.k = "again",
         NEW P, ContPoint(l) \in P
  PROVE  Moves(P, r, l.cont, 1, st, n)
<1>1. PICK s : s = sc
  OBVIOUS
<1>2. PICK en1, Lv1 : /\ ~ Sees(r) /\ Goes(r, Source(Tail(td), en1), n)
                      /\ Matches(Tail(c), sc, Tail(td), en1, Lv1, st, n)
  BY PopGone DEF PopLike
<1>3. PICK c1, td1 : c1 = Tail(c) /\ td1 = Tail(td)
  OBVIOUS
<1>4. Matches(c1, sc, td1, en1, Lv1, st, n) /\ c1 # <<>> /\ Head(c1) = l
  BY <1>2, <1>3
<1>5. Matches(<<ContItem(l)>> \o Tail(c1), sc, td1, en1, Lv1, st, n)
  BY <1>4, ContItemMatches
<1>6. l.rest = Tail(c1) /\ l.sc = sc
  BY <1>4, HeadPlace
<1>7. PICK c2 : c2 = <<ContItem(l)>> \o Tail(c1)
  OBVIOUS
<1>8. Point(l.cont, 1, c2, sc) \in P
  BY <1>6, <1>7 DEF ContPoint
<1>9. Matches(c2, sc, td1, en1, Lv1, st, n) /\ Goes(r, Source(td1, en1), n)
  BY <1>2, <1>3, <1>5, <1>7
<1> QED
  BY <1>2, <1>8, <1>9, MovesTo
-----------------------------------------------------------------------------
(***************************************************************************)
(* The statements of the blocks, and what they do to the store.              *)
(***************************************************************************)
PutIn(st, l, v) == [x \in DOMAIN st \cup {l} |-> IF x = l THEN v ELSE st[x]]
ValIn(st, l)    == IF l \in DOMAIN st THEN st[l] ELSE Garbage
ElemOf(i, n)    == IF i < n THEN i ELSE Null

Done1(x, st, n) ==
  CASE x.op = "set"     -> PutIn(st, x.dst, x.val)
    [] x.op = "size"    -> PutIn(st, x.dst, n)
    [] x.op = "inc"     -> PutIn(st, x.dst, ValIn(st, x.dst) + 1)
    [] x.op = "get"     -> PutIn(st, x.dst, ElemOf(ValIn(st, x.at), n))
    [] x.op = "payload" -> PutIn(st, x.dst, IF ValIn(st, x.src) = Null THEN Garbage ELSE ValIn(st, x.src))
    [] x.op = "next"    -> [PutIn(st, x.dst, ElemOf(ValIn(st, x.it), n)) EXCEPT ![x.it] = @ + 1]

LEMMA PutIs ==
  ASSUME NEW st, NEW l, NEW v, NEW st1, st1 = PutIn(st, l, v)
  PROVE  AgreeBut(st, st1, {l}) /\ Holds(st1, l, v)
BY PutFacts DEF PutIn

LEMMA HoldsVal == ASSUME NEW st, NEW l, NEW v, Holds(st, l, v) PROVE ValIn(st, l) = v
BY DEF Holds, ValIn

LEMMA PutSet ==
  ASSUME NEW st, NEW n, NEW l, NEW v, NEW x, x = Set(l, v), NEW st1, st1 = Done1(x, st, n)
  PROVE  AgreeBut(st, st1, {l}) /\ Holds(st1, l, v)
<1>1. x.op = "set" /\ x.dst = l /\ x.val = v
  BY DEF Set
<1>2. st1 = PutIn(st, l, v)
  BY <1>1 DEF Done1
<1> QED
  BY <1>2, PutIs

(* The name of a statement at the head is one. *)
LEMMA HeadName ==
  ASSUME NEW c, NEW sc, NEW td, NEW en, NEW Lv, NEW st, NEW n, Matches(c, sc, td, en, Lv, st, n), c # <<>>,
         NEW r, r = Source(td, en), Head(c).k \in {"assign", "var", "list", "iter"}
  PROVE  /\ IsCode(Head(c)) /\ Turn(r) = Head(c) /\ Head(td) = Head(c) /\ Head(c).name \in Name
         /\ Head(c).k \in {"assign", "var"} => Head(c).val \in Int
         /\ Head(c) \in Stmt /\ Head(c).k \notin PopLike
<1>1. Head(c).k \notin PopLike \cup Micro \cup {"again"}
  BY DEF PopLike, Micro
<1>2. IsCode(Head(c)) /\ Turn(r) = Head(c) /\ Turn(r) = Head(td)
  BY <1>1, HeadCode
<1> QED
  BY <1>1, <1>2, CodeFacts

LEMMA AssignMoves ==
  ASSUME NEW c, NEW sc, NEW td, NEW en, NEW Lv, NEW st, NEW n, Matches(c, sc, td, en, Lv, st, n), c # <<>>,
         NEW r, r = Source(td, en), Regular(r), Head(c).k = "assign", NEW P, NEW b, NEW i,
         Point(b, i, Tail(c), sc) \in P,
         NEW x, x = Set(LookupIn(sc, Head(c).name), Head(c).val), NEW st1, st1 = Done1(x, st, n)
  PROVE  Moves(P, r, b, i, st1, n)
<1>1. PICK y, v : y = Head(c).name /\ v = Head(c).val
  OBVIOUS
<1>2. IsCode(Head(c)) /\ Turn(r) = Head(c) /\ y \in Name /\ v \in Int /\ Head(c).k \notin PopLike
  BY <1>1, HeadName
<1>3. r.todo = td /\ r.env = en
  BY TurnIs
<1>4. BoundIn(en, y)
  BY <1>1, <1>2, <1>3 DEF Regular
<1>5. PICK c1, td1 : c1 = Tail(c) /\ td1 = Tail(td)
  OBVIOUS
<1>6. Matches(c1, sc, td1, en, Lv, st, n)
  BY <1>2, <1>5, HeadGone
<1>7. PICK k, l : k = Newest(en, y) /\ l = LookupIn(sc, y)
  OBVIOUS
<1>8. PICK en1 : en1 = [en EXCEPT ![k][y] = v]
  OBVIOUS
<1>9. AgreeBut(st, st1, {l}) /\ Holds(st1, l, v)
  <2>1. x = Set(l, v)
    BY <1>1, <1>7
  <2> QED
    BY <2>1, PutSet
<1>10. Matches(c1, sc, td1, en1, Lv, st1, n)
  BY <1>2, <1>4, <1>6, <1>7, <1>8, <1>9, Assigns
<1>11. ~ Sees(r) /\ Goes(r, Source(td1, en1), n)
  <2>1. GoesAssign(r, Source(td1, en1))
    BY <1>1, <1>2, <1>3, <1>5, <1>7, <1>8 DEF GoesAssign
  <2> QED
    BY <1>2, <2>1 DEF Goes, Sees
<1>12. Point(b, i, c1, sc) \in P
  BY <1>5
<1> QED
  BY <1>10, <1>11, <1>12, MovesTo

LEMMA VarMoves ==
  ASSUME NEW c, NEW sc, NEW td, NEW en, NEW Lv, NEW st, NEW n, Matches(c, sc, td, en, Lv, st, n), c # <<>>,
         NEW r, r = Source(td, en), Head(c).k = "var", NEW P, NEW b, NEW i, NEW l,
         Point(b, i, Tail(c), Bound(sc, Head(c).name, l)) \in P, Untouched(Tail(c), sc, {l}),
         NEW x, x = Set(l, Head(c).val), NEW st1, st1 = Done1(x, st, n)
  PROVE  Moves(P, r, b, i, st1, n)
<1>1. PICK y, v : y = Head(c).name /\ v = Head(c).val
  OBVIOUS
<1>2. IsCode(Head(c)) /\ Turn(r) = Head(c) /\ y \in Name /\ v \in Int /\ Head(c).k \notin PopLike
  BY <1>1, HeadName
<1>3. r.todo = td /\ r.env = en
  BY TurnIs
<1>5. PICK c1, td1 : c1 = Tail(c) /\ td1 = Tail(td)
  OBVIOUS
<1>6. Matches(c1, sc, td1, en, Lv, st, n) /\ Settled(c1)
  BY <1>2, <1>5, HeadGone
<1>7. Clear(c1, sc, en, Lv)
  BY <1>5, HeadPlace DEF Binders
<1>8. PICK N, f : N = Len(en) /\ f = With(en[N], y, v)
  OBVIOUS
<1>9. PICK en1, sc1 : en1 = [en EXCEPT ![N] = f] /\ sc1 = Bound(sc, y, l)
  OBVIOUS
<1>10. AnySeq(en) /\ Len(en) \in Nat \ {0}
  BY MatchFacts
<1>11. LastIs(en, en1, f)
  BY <1>8, <1>9, <1>10, LastChanged
<1>12. AgreeBut(st, st1, {l}) /\ Holds(st1, l, v)
  BY <1>1, PutSet
<1>13. f = With(en[Len(en)], y, v) /\ Untouched(c1, sc, {l})
  BY <1>5, <1>8
<1>14. Matches(c1, sc1, td1, en1, Lv, st1, n)
  BY <1>2, <1>6, <1>7, <1>9, <1>11, <1>12, <1>13, BindVar
<1>15. ~ Sees(r) /\ Goes(r, Source(td1, en1), n)
  <2>1. GoesVar(r, Source(td1, en1))
    BY <1>1, <1>2, <1>3, <1>5, <1>8, <1>9 DEF GoesVar, With
  <2> QED
    BY <1>2, <2>1 DEF Goes, Sees
<1>16. Point(b, i, c1, sc1) \in P
  BY <1>1, <1>5, <1>9
<1> QED
  BY <1>14, <1>15, <1>16, MovesTo
(* A for begins. *)
LEMMA BoundHas ==
  ASSUME NEW sc, AnySeq(sc), Len(sc) \in Nat \ {0}, NEW x, NEW l, NEW t, t = Bound(sc, x, l)
  PROVE  /\ AnySeq(t) /\ Len(t) = Len(sc) /\ x \in DOMAIN t[Len(t)] /\ t[Len(t)][x] = l
         /\ \A i \in 1 .. Len(t) : \A y \in DOMAIN t[i] : t[i][y] = l \/ (y \in DOMAIN sc[i] /\ t[i][y] = sc[i][y])
<1>1. PICK N, h, g : N = Len(sc) /\ h = sc[N] /\ g = With(h, x, l)
  OBVIOUS
<1>2. LastIs(sc, t, g)
  BY <1>1, BoundWith
<1>3. WithIs(h, x, l, g)
  BY <1>1, WithFacts
<1>4. AnySeq(t) /\ Len(t) = N /\ N \in Nat \ {0} /\ t[N] = g /\ \A i \in 1 .. N - 1 : t[i] = sc[i]
  BY <1>1, <1>2 DEF LastIs
<1>5. DOMAIN g = DOMAIN h \cup {x} /\ g[x] = l /\ \A y \in DOMAIN h : y # x => g[y] = h[y]
  BY <1>3 DEF WithIs
<1>6. x \in DOMAIN t[Len(t)] /\ t[Len(t)][x] = l
  BY <1>4, <1>5
<1>7. ASSUME NEW i \in 1 .. N, NEW y \in DOMAIN t[i]
      PROVE  t[i][y] = l \/ (y \in DOMAIN sc[i] /\ t[i][y] = sc[i][y])
  <2>1. CASE i = N
    BY <1>1, <1>4, <1>5, <1>7, <2>1
  <2>2. CASE i # N
    <3>1. i \in 1 .. N - 1
      BY <1>4, <2>2
    <3> QED
      BY <1>4, <1>7, <3>1
  <2> QED
    BY <2>1, <2>2
<1> QED
  BY <1>1, <1>4, <1>6, <1>7

LEMMA ForStarts ==
  ASSUME NEW c, NEW sc, NEW td, NEW en, NEW Lv, NEW st, NEW n, Matches(c, sc, td, en, Lv, st, n), c # <<>>,
         NEW r, r = Source(td, en), Regular(r), Head(c).k \in ForKinds, NEW l,
         l = LoopRec(Head(c), l.cont, l.exit, l.l, Bound(sc, Head(c).name, VarOf(l)), Tail(c)), l.l \in Nat,
         Untouched(Tail(c), sc, l.l .. VarOf(l)),
         NEW st1, AgreeBut(st, st1, {l.l}), NEW k \in Micro,
         Head(c).k = "list" => ListStage(k, l.l, Head(c), st1, n),
         Head(c).k = "iter" => IterStage(k, l.l, Head(c), st1, n)
  PROVE  Matches(<<Stage(k, l)>> \o Tail(c), l.sc, td, en, Lv, st1, n)
<1>1. PICK s, x, v, c1, td1 : s = Head(c) /\ x = s.name /\ v = VarOf(l) /\ c1 = Tail(c) /\ td1 = Tail(td)
  OBVIOUS
<1>2. Turn(r) = s /\ Head(td) = s /\ x \in Name /\ s \in Stmt /\ s.k \notin PopLike
  BY <1>1, HeadName DEF ForKinds
<1>3. ~ BoundIn(en, x)
  BY <1>1, <1>2, TurnIs DEF Regular
<1>4. Matches(c1, sc, td1, en, Lv, st, n) /\ Settled(c1)
  BY <1>1, <1>2, HeadGone
<1>5. Clear(c1, sc, en, Lv)
  BY <1>1, HeadPlace DEF Binders, ForKinds
<1>6. PICK sc1 : sc1 = Bound(sc, x, v)
  OBVIOUS
<1>7. l.k = "again" /\ l.stmt = s /\ l.sc = sc1 /\ l.rest = c1
  <2>1. l = LoopRec(s, l.cont, l.exit, l.l, sc1, c1)
    BY <1>1, <1>6
  <2> QED
    BY <2>1 DEF LoopRec
<1>8. v \in Nat /\ l.l \in l.l .. v /\ v \in l.l .. v /\ Keeps(l) = l.l .. v - 1 /\ l.l # v
  BY <1>1, <1>7 DEF VarOf, Keeps, ForKinds
<1>9. Untouched(c1, sc, {v}) /\ Untouched(c1, sc, Keeps(l))
  <2>1. Untouched(c1, sc, l.l .. v)
    BY <1>1
  <2>2. Keeps(l) \subseteq l.l .. v /\ {v} \subseteq l.l .. v
    BY <1>8
  <2> QED
    BY <2>1, <2>2 DEF Untouched
<1>10. Matches(c1, sc1, td1, en, Lv, st, n)
  BY <1>3, <1>4, <1>5, <1>6, <1>9, BindFor
<1>11. AnySeq(sc) /\ Len(sc) \in Nat \ {0}
  BY MatchFacts
<1>12. /\ Len(sc1) = Len(sc) /\ x \in DOMAIN sc1[Len(sc1)] /\ sc1[Len(sc1)][x] = v
       /\ \A i \in 1 .. Len(sc1) : \A y \in DOMAIN sc1[i] : sc1[i][y] = v \/ (y \in DOMAIN sc[i] /\ sc1[i][y] = sc[i][y])
  BY <1>6, <1>11, BoundHas
<1>13. v \notin Keeps(l) /\ l.l \in Keeps(l)
  BY <1>8
<1>14. Untouched(c1, sc1, Keeps(l))
  <2>1. ASSUME NEW i \in 1 .. Len(sc1), NEW y \in DOMAIN sc1[i]
        PROVE  sc1[i][y] \notin Keeps(l)
    <3>1. CASE sc1[i][y] = v
      BY <1>13, <3>1
    <3>2. CASE y \in DOMAIN sc[i] /\ sc1[i][y] = sc[i][y]
      BY <1>9, <1>12, <3>2 DEF Untouched
    <3> QED
      BY <1>12, <3>1, <3>2
  <2> QED
    BY <1>9, <2>1 DEF Untouched
<1>15. Untouched(c1, sc1, {l.l})
  BY <1>13, <1>14 DEF Untouched
<1>16. Unseen(c1, sc1, en, Lv, {l.l})
  BY <1>10, <1>15, UntouchedUnseen
<1>17. Matches(c1, sc1, td1, en, Lv, st1, n)
  BY <1>10, <1>16, StoreKept
<1>18. LoopKind(l)
  BY <1>1, <1>2, <1>7, <1>12 DEF LoopKind, ForKinds
<1>19. PICK u : u = Stage(k, l)
  OBVIOUS
<1>20. u.k = k /\ u.loop = l
  BY <1>19 DEF Stage
<1>21. StageMatch(u, s, st1, n)
  BY <1>1, <1>7, <1>18, <1>20 DEF StageMatch
<1>22. ItemMatch(u, s, st1, n)
  BY <1>20, <1>21 DEF ItemMatch
<1>23. Standing(u, c1, sc1, en)
  <2>1. StagePlace(c1, u, sc1, en)
    BY <1>1, <1>3, <1>7, <1>20 DEF StagePlace
  <2> QED
    BY <1>20, <2>1 DEF Standing, Micro
<1>24. u.k \notin PopLike \cup Binders /\ Reserves(u) = Keeps(l)
  BY <1>20 DEF Micro, PopLike, Binders, Reserves
<1>25. Matches(<<u>> \o c1, sc1, <<s>> \o td1, en, Lv, st1, n)
  BY <1>4, <1>14, <1>17, <1>22, <1>23, <1>24, OneInFront
<1>26. td = <<s>> \o td1
  <2>1. AnySeq(td) /\ td # <<>>
    BY HeadCode
  <2> QED
    BY <1>1, <1>2, <2>1, TailFacts
<1> QED
  BY <1>1, <1>7, <1>19, <1>25, <1>26

LEMMA ListArrives ==
  ASSUME NEW c, NEW sc, NEW td, NEW en, NEW Lv, NEW st, NEW n \in Nat, Matches(c, sc, td, en, Lv, st, n), c # <<>>,
         NEW r, r = Source(td, en), Regular(r), Head(c).k = "list", NEW l,
         l = LoopRec(Head(c), l.cont, l.exit, l.l, Bound(sc, Head(c).name, VarOf(l)), Tail(c)), l.l \in Nat,
         Untouched(Tail(c), sc, l.l .. VarOf(l)), NEW P, NEW b, NEW i,
         Point(b, i, <<Stage("init", l)>> \o Tail(c), l.sc) \in P,
         NEW x, x = [op |-> "size", dst |-> l.l], NEW st1, st1 = Done1(x, st, n)
  PROVE  Arrived(P, r, b, i, st1, n)
<1>1. st1 = PutIn(st, l.l, n)
  BY DEF Done1
<1>2. AgreeBut(st, st1, {l.l}) /\ Holds(st1, l.l, n)
  BY <1>1, PutIs
<1>3. Head(c).k # "again"
  OBVIOUS
<1>4. ListStage("init", l.l, Head(c), st1, n)
  BY <1>2, <1>3 DEF ListStage, RoundEnd
<1>5. PICK c1, sc1 : c1 = <<Stage("init", l)>> \o Tail(c) /\ sc1 = l.sc
  OBVIOUS
<1>6. Matches(c1, sc1, td, en, Lv, st1, n)
  BY <1>2, <1>4, <1>5, ForStarts DEF ForKinds, Micro
<1> QED
  BY <1>5, <1>6, Arrives

LEMMA IterArrives ==
  ASSUME NEW c, NEW sc, NEW td, NEW en, NEW Lv, NEW st, NEW n, Matches(c, sc, td, en, Lv, st, n), c # <<>>,
         NEW r, r = Source(td, en), Regular(r), Head(c).k = "iter", NEW l,
         l = LoopRec(Head(c), l.cont, l.exit, l.l, Bound(sc, Head(c).name, VarOf(l)), Tail(c)), l.l \in Nat,
         Untouched(Tail(c), sc, l.l .. VarOf(l)), NEW P, NEW b, NEW i,
         Point(b, i, <<Stage("round", l)>> \o Tail(c), l.sc) \in P,
         NEW x, x = Set(l.l, 0), NEW st1, st1 = Done1(x, st, n)
  PROVE  Arrived(P, r, b, i, st1, n)
<1>1. AgreeBut(st, st1, {l.l}) /\ Holds(st1, l.l, 0)
  BY PutSet
<1>2. RoundAt(Head(c)) = 0
  BY DEF RoundAt
<1>3. IterStage("round", l.l, Head(c), st1, n)
  BY <1>1, <1>2 DEF IterStage
<1>4. PICK c1, sc1 : c1 = <<Stage("round", l)>> \o Tail(c) /\ sc1 = l.sc
  OBVIOUS
<1>5. Matches(c1, sc1, td, en, Lv, st1, n)
  BY <1>1, <1>3, <1>4, ForStarts DEF ForKinds, Micro
<1> QED
  BY <1>4, <1>5, Arrives
(***************************************************************************)
(* The stages of a for.                                                      *)
(***************************************************************************)
LEMMA StageFacts ==
  ASSUME NEW c, NEW sc, NEW td, NEW en, NEW Lv, NEW st, NEW n, Matches(c, sc, td, en, Lv, st, n), c # <<>>,
         Head(c).k \in Micro, NEW l, l = Head(c).loop, NEW y, y = Head(td)
  PROVE  /\ LoopKind(l) /\ l.stmt.k \in ForKinds /\ (y = l.stmt \/ IsRound(l.stmt, y))
         /\ l.l \in Nat /\ RoundAt(y) \in Nat
         /\ l.stmt.k = "list" => ListStage(Head(c).k, l.l, y, st, n)
         /\ l.stmt.k = "iter" => IterStage(Head(c).k, l.l, y, st, n)
         /\ Head(c).k \in {"init", "get"} => l.stmt.k = "list"
         /\ Head(c).k = "test" => l.stmt.k = "iter"
<1>1. ItemMatch(Head(c), y, st, n)
  BY HeadMatch
<1>2. StageMatch(Head(c), y, st, n)
  BY <1>1, ItemTurn
<1>3. LoopKind(l) /\ l.stmt.k \in ForKinds /\ (y = l.stmt \/ IsRound(l.stmt, y))
  BY <1>2 DEF StageMatch
<1>4. l.l \in Nat
  BY <1>3 DEF LoopKind
<1>5. RoundAt(y) \in Nat
  <2>1. CASE y = l.stmt
    BY <1>3, <2>1 DEF RoundAt, ForKinds
  <2>2. CASE IsRound(l.stmt, y)
    BY <2>2 DEF RoundAt, IsRound
  <2> QED
    BY <1>3, <2>1, <2>2
<1>6. /\ l.stmt.k = "list" => ListStage(Head(c).k, l.l, y, st, n)
      /\ l.stmt.k = "iter" => IterStage(Head(c).k, l.l, y, st, n)
  BY <1>2 DEF StageMatch
<1>7. Head(c).k \in {"init", "get"} => l.stmt.k = "list"
  BY <1>3, <1>6 DEF IterStage, ForKinds
<1>8. Head(c).k = "test" => l.stmt.k = "iter"
  BY <1>3, <1>6 DEF ListStage, ForKinds
<1> QED
  BY <1>3, <1>4, <1>5, <1>6, <1>7, <1>8

(* The next stage is at the head, and the statements have not moved. *)
LEMMA NextStage ==
  ASSUME NEW c, NEW sc, NEW td, NEW en, NEW Lv, NEW st, NEW n, Matches(c, sc, td, en, Lv, st, n), c # <<>>,
         NEW r, r = Source(td, en),
         NEW l, \/ Head(c).k \in Micro /\ Head(c).loop = l
                \/ Head(c).k = "again" /\ Head(c) = l,
         LoopKind(l), l.stmt.k \in ForKinds, NEW y, y = Head(td), y = l.stmt \/ IsRound(l.stmt, y),
         NEW D, D \subseteq Keeps(l), NEW st1, AgreeBut(st, st1, D), NEW k \in Micro,
         l.stmt.k = "list" => ListStage(k, l.l, y, st1, n),
         l.stmt.k = "iter" => IterStage(k, l.l, y, st1, n),
         NEW P, NEW b, NEW i, Point(b, i, <<Stage(k, l)>> \o Tail(c), sc) \in P
  PROVE  Arrived(P, r, b, i, st1, n)
<1>1. PICK u : u = Stage(k, l)
  OBVIOUS
<1>2. u.k = k /\ u.loop = l
  BY <1>1 DEF Stage
<1>3. StageMatch(u, y, st1, n)
  BY <1>2 DEF StageMatch
<1>4. PICK c1 : c1 = <<Stage(k, l)>> \o Tail(c)
  OBVIOUS
<1>5. StageMatch(Stage(k, l), Head(td), st1, n)
  BY <1>1, <1>3
<1>6. Matches(<<Stage(k, l)>> \o Tail(c), sc, td, en, Lv, st1, n)
  BY <1>5, Restaged
<1>7. Matches(c1, sc, td, en, Lv, st1, n) /\ Point(b, i, c1, sc) \in P
  BY <1>4, <1>6
<1> QED
  BY <1>7, Arrives

LEMMA InitArrives ==
  ASSUME NEW c, NEW sc, NEW td, NEW en, NEW Lv, NEW st, NEW n, Matches(c, sc, td, en, Lv, st, n), c # <<>>,
         NEW r, r = Source(td, en), Head(c).k = "init", NEW l, l = Head(c).loop,
         NEW P, NEW b, NEW i, Point(b, i, <<Stage("round", l)>> \o Tail(c), sc) \in P,
         NEW x, x = Set(l.l + 1, 0), NEW st1, st1 = Done1(x, st, n)
  PROVE  Arrived(P, r, b, i, st1, n)
<1>1. PICK y : y = Head(td)
  OBVIOUS
<1>2. /\ LoopKind(l) /\ l.stmt.k = "list" /\ (y = l.stmt \/ IsRound(l.stmt, y))
      /\ l.l \in Nat /\ ListStage("init", l.l, y, st, n)
  BY <1>1, StageFacts DEF Micro
<1>3. PICK j : j = l.l + 1
  OBVIOUS
<1>4. AgreeBut(st, st1, {j}) /\ Holds(st1, j, 0)
  BY <1>3, PutSet
<1>5. j \in Keeps(l) /\ l.l \notin {j}
  BY <1>2, <1>3, KeepsFacts DEF ForKinds
<1>6. Holds(st, l.l, RoundEnd(y, n)) /\ RoundEnd(y, n) <= n /\ y.k = "list"
  BY <1>2 DEF ListStage
<1>7. Holds(st1, l.l, RoundEnd(y, n))
  BY <1>4, <1>5, <1>6 DEF AgreeBut
<1>8. RoundAt(y) = 0
  BY <1>6 DEF RoundAt
<1>9. ListStage("round", l.l, y, st1, n)
  BY <1>3, <1>4, <1>6, <1>7, <1>8 DEF ListStage
<1> QED
  BY <1>1, <1>2, <1>4, <1>5, <1>9, NextStage DEF Micro, ForKinds

LEMMA IncArrives ==
  ASSUME NEW c, NEW sc, NEW td, NEW en, NEW Lv, NEW st, NEW n, Matches(c, sc, td, en, Lv, st, n), c # <<>>,
         NEW r, r = Source(td, en), Head(c).k = "again", NEW l, l = Head(c), l.stmt.k = "list",
         NEW P, NEW b, NEW i, Point(b, i, <<Stage("round", l)>> \o Tail(c), sc) \in P,
         NEW x, x = [op |-> "inc", dst |-> l.l + 1], NEW st1, st1 = Done1(x, st, n)
  PROVE  Arrived(P, r, b, i, st1, n)
<1>1. PICK y : y = Head(td)
  OBVIOUS
<1>2. LoopMatch(l, y, st, n)
  <2>1. ItemMatch(Head(c), Head(td), st, n)
    BY HeadMatch
  <2> QED
    BY <1>1, <2>1, ItemTurn
<1>3. /\ LoopKind(l) /\ IsRound(l.stmt, y) /\ Holds(st, l.l, y.stmt.n) /\ y.stmt.n <= n
      /\ Holds(st, l.l + 1, y.stmt.at - 1)
  BY <1>2 DEF LoopMatch, ForKinds
<1>4. y.k = "again" /\ y.stmt.at \in Nat
  BY <1>3 DEF IsRound
<1>5. PICK j, a : j = l.l + 1 /\ a = y.stmt.at
  OBVIOUS
<1>6. ValIn(st, j) = a - 1
  BY <1>3, <1>5, HoldsVal
<1>7. st1 = PutIn(st, j, ValIn(st, j) + 1)
  BY <1>5 DEF Done1
<1>8. st1 = PutIn(st, j, a)
  <2>1. a - 1 + 1 = a
    BY <1>4, <1>5
  <2> QED
    BY <1>6, <1>7, <2>1
<1>9. AgreeBut(st, st1, {j}) /\ Holds(st1, j, a)
  BY <1>8, PutIs
<1>10. j \in Keeps(l) /\ l.l \notin {j}
  BY <1>3, <1>5, KeepsFacts DEF ForKinds
<1>11. Holds(st1, l.l, y.stmt.n)
  BY <1>3, <1>9, <1>10 DEF AgreeBut
<1>12. ListStage("round", l.l, y, st1, n)
  BY <1>3, <1>4, <1>5, <1>9, <1>11 DEF ListStage, RoundAt, RoundEnd
<1> QED
  BY <1>1, <1>3, <1>9, <1>10, <1>12, NextStage DEF Micro, ForKinds

LEMMA GetArrives ==
  ASSUME NEW c, NEW sc, NEW td, NEW en, NEW Lv, NEW st, NEW n \in Nat, Matches(c, sc, td, en, Lv, st, n), c # <<>>,
         NEW r, r = Source(td, en), Head(c).k = "get", NEW l, l = Head(c).loop,
         NEW P, NEW b, NEW i, Point(b, i, <<Stage("some", l)>> \o Tail(c), sc) \in P,
         NEW x, x = [op |-> "get", dst |-> l.l + 2, at |-> l.l + 1], NEW st1, st1 = Done1(x, st, n)
  PROVE  Arrived(P, r, b, i, st1, n)
<1>1. PICK y : y = Head(td)
  OBVIOUS
<1>2. /\ LoopKind(l) /\ l.stmt.k = "list" /\ (y = l.stmt \/ IsRound(l.stmt, y))
      /\ l.l \in Nat /\ RoundAt(y) \in Nat /\ ListStage("get", l.l, y, st, n)
  BY <1>1, StageFacts DEF Micro
<1>3. /\ Holds(st, l.l, RoundEnd(y, n)) /\ RoundEnd(y, n) <= n
      /\ Holds(st, l.l + 1, RoundAt(y)) /\ RoundAt(y) < RoundEnd(y, n)
  BY <1>2 DEF ListStage
<1>4. PICK j, a, e : j = l.l + 2 /\ a = RoundAt(y) /\ e = RoundEnd(y, n)
  OBVIOUS
<1>5. e \in Nat
  <2>1. CASE y = l.stmt
    BY <1>2, <1>4, <2>1 DEF RoundEnd
  <2>2. CASE IsRound(l.stmt, y)
    BY <1>4, <2>2 DEF RoundEnd, IsRound
  <2> QED
    BY <1>2, <2>1, <2>2
<1>6. a < n
  BY <1>2, <1>3, <1>4, <1>5
<1>7. ValIn(st, l.l + 1) = a
  BY <1>3, <1>4, HoldsVal
<1>8. x.op = "get" /\ x.dst = j /\ x.at = l.l + 1
  BY <1>4
<1>9. st1 = PutIn(st, j, ElemOf(ValIn(st, l.l + 1), n))
  BY <1>8 DEF Done1
<1>10. st1 = PutIn(st, j, a)
  BY <1>6, <1>7, <1>9 DEF ElemOf
<1>11. AgreeBut(st, st1, {j}) /\ Holds(st1, j, a)
  BY <1>10, PutIs
<1>12. j \in Keeps(l) /\ l.l \notin {j} /\ l.l + 1 \notin {j}
  BY <1>2, <1>4, KeepsFacts DEF ForKinds
<1>13. Holds(st1, l.l, e) /\ Holds(st1, l.l + 1, a)
  BY <1>3, <1>4, <1>11, <1>12 DEF AgreeBut
<1>14. ListStage("some", l.l, y, st1, n)
  BY <1>3, <1>4, <1>11, <1>13 DEF ListStage
<1>15. PICK D, k : D = {j} /\ k = "some"
  OBVIOUS
<1>16. /\ D \subseteq Keeps(l) /\ AgreeBut(st, st1, D) /\ k \in Micro /\ ListStage(k, l.l, y, st1, n)
       /\ l.stmt.k # "iter" /\ l.stmt.k \in ForKinds /\ Head(c).k \in Micro
       /\ Point(b, i, <<Stage(k, l)>> \o Tail(c), sc) \in P
  BY <1>2, <1>11, <1>12, <1>14, <1>15 DEF Micro, ForKinds
<1> QED
  BY <1>1, <1>2, <1>16, NextStage

LEMMA NextArrives ==
  ASSUME NEW c, NEW sc, NEW td, NEW en, NEW Lv, NEW st, NEW n, Matches(c, sc, td, en, Lv, st, n), c # <<>>,
         NEW r, r = Source(td, en), Head(c).k = "round", NEW l, l = Head(c).loop, l.stmt.k = "iter",
         NEW P, NEW b, NEW i, Point(b, i, <<Stage("test", l)>> \o Tail(c), sc) \in P,
         NEW x, x = [op |-> "next", dst |-> l.l + 1, it |-> l.l], NEW st1, st1 = Done1(x, st, n)
  PROVE  Arrived(P, r, b, i, st1, n)
<1>1. PICK y : y = Head(td)
  OBVIOUS
<1>2. /\ LoopKind(l) /\ (y = l.stmt \/ IsRound(l.stmt, y))
      /\ l.l \in Nat /\ RoundAt(y) \in Nat /\ IterStage("round", l.l, y, st, n)
  BY <1>1, StageFacts DEF Micro
<1>3. Holds(st, l.l, RoundAt(y))
  BY <1>2 DEF IterStage
<1>4. PICK h, j, a : h = l.l /\ j = l.l + 1 /\ a = RoundAt(y)
  OBVIOUS
<1>5. h # j /\ h \in Keeps(l) /\ j \in Keeps(l)
  BY <1>2, <1>4, KeepsFacts DEF ForKinds
<1>6. ValIn(st, h) = a
  BY <1>3, <1>4, HoldsVal
<1>7. x.op = "next" /\ x.dst = j /\ x.it = h
  BY <1>4
<1>8. PICK t : t = PutIn(st, j, ElemOf(a, n))
  OBVIOUS
<1>9. st1 = [t EXCEPT ![h] = @ + 1]
  BY <1>6, <1>7, <1>8 DEF Done1
<1>10. AgreeBut(st, t, {j}) /\ Holds(t, j, ElemOf(a, n))
  BY <1>8, PutIs
<1>11. Holds(t, h, a)
  BY <1>3, <1>4, <1>5, <1>10 DEF AgreeBut
<1>12. Holds(st1, h, a + 1) /\ \A d, v : Holds(t, d, v) /\ d # h => Holds(st1, d, v)
  BY <1>9, <1>11 DEF Holds
<1>13. AgreeBut(st, st1, {h, j})
  BY <1>10, <1>12 DEF AgreeBut
<1>14. Holds(st1, j, IF a < n THEN a ELSE Null)
  BY <1>5, <1>10, <1>12 DEF ElemOf
<1>15. IterStage("test", l.l, y, st1, n)
  BY <1>4, <1>12, <1>14 DEF IterStage
<1>16. {h, j} \subseteq Keeps(l)
  BY <1>5
<1> QED
  BY <1>1, <1>2, <1>13, <1>15, <1>16, NextStage DEF Micro, ForKinds
(* The loop has no further round. *)
LEMMA RoundOver ==
  ASSUME NEW c, NEW sc, NEW td, NEW en, NEW Lv, NEW st, NEW n, Matches(c, sc, td, en, Lv, st, n), c # <<>>,
         NEW r, r = Source(td, en), Head(c).k \in Micro, NEW l, l = Head(c).loop, NEW y, y = Head(td),
         ~ (RoundAt(y) < IF l.stmt.k = "iter" THEN n ELSE RoundEnd(y, n)),
         NEW P, ExitPoint(l) \in P
  PROVE  Moves(P, r, l.exit, 1, st, n)
<1>1. LoopKind(l) /\ l.stmt.k \in ForKinds /\ (y = l.stmt \/ IsRound(l.stmt, y))
  BY StageFacts
<1>2. PICK N, s, a : N = RoundsOf(y, n) /\ s = l.stmt /\ a = RoundAt(y)
  OBVIOUS
<1>3. r.todo = td /\ r.env = en /\ AnySeq(td) /\ td # <<>>
  <2>1. r.todo = td /\ r.env = en
    BY TurnIs
  <2>2. AnySeq(td) /\ td # <<>>
    BY HeadCode
  <2> QED
    BY <2>1, <2>2
<1>4. ~ Sees(r) /\ Goes(r, Rounds(r, s, a, N), n) /\ N = IF s.k = "iter" THEN n ELSE RoundEnd(y, n)
  <2>1. r.todo # <<>> /\ y = Head(r.todo) /\ s.k \in ForKinds /\ (y = s \/ IsRound(s, y))
    BY <1>1, <1>2, <1>3
  <2>2. /\ ~ Sees(r) /\ Goes(r, Rounds(r, s, RoundAt(y), RoundsOf(y, n)), n)
        /\ RoundsOf(y, n) = IF s.k = "iter" THEN n ELSE RoundEnd(y, n)
    BY <2>1, RoundGoes
  <2> QED
    BY <1>2, <2>2
<1>5. PICK c1, td1 : c1 = Tail(c) /\ td1 = Tail(td)
  OBVIOUS
<1>6. Rounds(r, s, a, N) = Source(td1, en)
  BY <1>2, <1>3, <1>4, <1>5 DEF Rounds
<1>7. Head(c).k \notin PopLike
  BY DEF Micro, PopLike
<1>8. Matches(c1, sc, td1, en, Lv, st, n)
  BY <1>5, <1>7, HeadGone
<1>9. StagePlace(c1, Head(c), sc, en)
  BY <1>5, HeadPlace
<1>10. l.rest = c1 /\ l.sc = sc
  BY <1>9 DEF StagePlace
<1>11. Point(l.exit, 1, c1, sc) \in P
  BY <1>10 DEF ExitPoint
<1>12. Goes(r, Source(td1, en), n)
  BY <1>4, <1>6
<1> QED
  BY <1>4, <1>8, <1>11, <1>12, MovesTo

LEMMA RoundReaches ==
  ASSUME NEW c, NEW sc, NEW td, NEW en, NEW Lv, NEW st, NEW n \in Nat, Matches(c, sc, td, en, Lv, st, n), c # <<>>,
         NEW r, r = Source(td, en), Head(c).k = "round", NEW l, l = Head(c).loop, l.stmt.k = "list",
         NEW P, NEW no, ExitPoint(l) \in P, Point(no, 1, <<Stage("get", l)>> \o Tail(c), sc) \in P
  PROVE  Reaches(P, r, IF ValIn(st, l.l + 1) >= ValIn(st, l.l) THEN l.exit ELSE no, 1, st, n)
<1>1. PICK y : y = Head(td)
  OBVIOUS
<1>2. /\ LoopKind(l) /\ (y = l.stmt \/ IsRound(l.stmt, y))
      /\ RoundAt(y) \in Nat /\ ListStage("round", l.l, y, st, n)
  BY <1>1, StageFacts DEF Micro
<1>3. /\ Holds(st, l.l, RoundEnd(y, n)) /\ RoundEnd(y, n) <= n /\ Holds(st, l.l + 1, RoundAt(y))
  BY <1>2 DEF ListStage
<1>4. PICK a, e : a = RoundAt(y) /\ e = RoundEnd(y, n)
  OBVIOUS
<1>5. e \in Nat /\ a \in Nat
  <2>1. CASE y = l.stmt
    BY <1>2, <1>4, <2>1 DEF RoundEnd
  <2>2. CASE IsRound(l.stmt, y)
    BY <1>2, <1>4, <2>2 DEF RoundEnd, IsRound
  <2> QED
    BY <1>2, <2>1, <2>2
<1>6. ValIn(st, l.l) = e /\ ValIn(st, l.l + 1) = a
  BY <1>3, <1>4, HoldsVal
<1>7. CASE a >= e
  <2>1. ~ (RoundAt(y) < IF l.stmt.k = "iter" THEN n ELSE RoundEnd(y, n))
    BY <1>4, <1>5, <1>7
  <2>2. Moves(P, r, l.exit, 1, st, n)
    BY <1>1, <2>1, RoundOver DEF Micro
  <2> QED
    BY <1>6, <1>7, <2>2 DEF Reaches
<1>8. CASE ~ (a >= e)
  <2>1. ListStage("get", l.l, y, st, n)
    BY <1>3, <1>4, <1>5, <1>8 DEF ListStage
  <2>2. PICK D : D = {}
    OBVIOUS
  <2>3. AgreeBut(st, st, D) /\ D \subseteq Keeps(l)
    BY <2>2 DEF AgreeBut
  <2>4. Arrived(P, r, no, 1, st, n)
    BY <1>1, <1>2, <2>1, <2>3, NextStage DEF Micro, ForKinds
  <2> QED
    BY <1>6, <1>8, <2>4 DEF Reaches
<1> QED
  BY <1>7, <1>8

LEMMA TestReaches ==
  ASSUME NEW c, NEW sc, NEW td, NEW en, NEW Lv, NEW st, NEW n \in Nat, Matches(c, sc, td, en, Lv, st, n), c # <<>>,
         NEW r, r = Source(td, en), Head(c).k = "test", NEW l, l = Head(c).loop,
         NEW P, NEW no, ExitPoint(l) \in P, Point(no, 1, <<Stage("some", l)>> \o Tail(c), sc) \in P
  PROVE  Reaches(P, r, IF ValIn(st, l.l + 1) = Null THEN l.exit ELSE no, 1, st, n)
<1>1. PICK y : y = Head(td)
  OBVIOUS
<1>2. /\ LoopKind(l) /\ l.stmt.k = "iter" /\ (y = l.stmt \/ IsRound(l.stmt, y))
      /\ RoundAt(y) \in Nat /\ IterStage("test", l.l, y, st, n)
  BY <1>1, StageFacts DEF Micro
<1>3. PICK a : a = RoundAt(y)
  OBVIOUS
<1>4. Holds(st, l.l, a + 1) /\ Holds(st, l.l + 1, IF a < n THEN a ELSE Null)
  BY <1>2, <1>3 DEF IterStage
<1>5. ValIn(st, l.l + 1) = IF a < n THEN a ELSE Null
  BY <1>4, HoldsVal
<1>6. a # Null
  BY <1>2, <1>3 DEF Null
<1>7. CASE ~ (a < n)
  <2>1. ~ (RoundAt(y) < IF l.stmt.k = "iter" THEN n ELSE RoundEnd(y, n))
    BY <1>2, <1>3, <1>7
  <2>2. Moves(P, r, l.exit, 1, st, n)
    BY <1>1, <2>1, RoundOver DEF Micro
  <2> QED
    BY <1>5, <1>7, <2>2 DEF Reaches
<1>8. CASE a < n
  <2>1. IterStage("some", l.l, y, st, n)
    BY <1>3, <1>4, <1>8 DEF IterStage
  <2>2. PICK D : D = {}
    OBVIOUS
  <2>3. AgreeBut(st, st, D) /\ D \subseteq Keeps(l)
    BY <2>2 DEF AgreeBut
  <2>4. Arrived(P, r, no, 1, st, n)
    BY <1>1, <1>2, <2>1, <2>3, NextStage DEF Micro, ForKinds
  <2> QED
    BY <1>5, <1>6, <1>8, <2>4 DEF Reaches
<1> QED
  BY <1>7, <1>8

LEMMA TripleCons ==
  ASSUME NEW a, NEW b, NEW d, NEW c, AnySeq(c)
  PROVE  <<a, b, d>> \o c = <<a>> \o (<<b>> \o (<<d>> \o c))
<1>1. PICK p : p = <<b, d>>
  OBVIOUS
<1>2. PICK E : c \in Seq(E)
  BY DEF AnySeq
<1>3. PICK X : X = E \cup {a, b, d}
  OBVIOUS
<1>4. c \in Seq(X) /\ p \in Seq(X) /\ <<a>> \in Seq(X)
  BY <1>1, <1>2, <1>3, SeqMonotonic
<1>5. <<a, b, d>> = <<a>> \o <<b, d>>
  OBVIOUS
<1>6. <<a, b, d>> \o c = <<a>> \o (p \o c)
  BY <1>1, <1>4, <1>5, ConcatAssociative
<1>7. p \o c = <<b>> \o (<<d>> \o c)
  BY <1>1, PairCons
<1> QED
  BY <1>6, <1>7

(* A round begins: the variable has the element. *)
LEMMA SomeMoves ==
  ASSUME NEW c, NEW sc, NEW td, NEW en, NEW Lv, NEW st, NEW n \in Nat, Matches(c, sc, td, en, Lv, st, n), c # <<>>,
         NEW r, r = Source(td, en), Head(c).k = "some", NEW l, l = Head(c).loop,
         NEW P, NEW b, NEW i, Point(b, i, Inside(l, Tail(c)), sc) \in P,
         NEW x, x = [op |-> "payload", dst |-> VarOf(l), src |-> VarOf(l) - 1],
         NEW st1, st1 = Done1(x, st, n)
  PROVE  Moves(P, r, b, i, st1, n)
<1>1. PICK y, s, a, v, z : y = Head(td) /\ s = l.stmt /\ a = RoundAt(y) /\ v = VarOf(l) /\ z = s.name
  OBVIOUS
<1>2. /\ LoopKind(l) /\ s.k \in ForKinds /\ (y = s \/ IsRound(s, y)) /\ l.l \in Nat /\ a \in Nat
      /\ s.k = "list" => ListStage("some", l.l, y, st, n)
      /\ s.k = "iter" => IterStage("some", l.l, y, st, n)
  BY <1>1, StageFacts DEF Micro
<1>3. PICK N : N = RoundsOf(y, n)
  OBVIOUS
<1>4. r.todo = td /\ r.env = en /\ AnySeq(td) /\ td # <<>>
  <2>1. r.todo = td /\ r.env = en
    BY TurnIs
  <2>2. AnySeq(td) /\ td # <<>>
    BY HeadCode
  <2> QED
    BY <2>1, <2>2
<1>5. ~ Sees(r) /\ Goes(r, Rounds(r, s, a, N), n) /\ N = IF s.k = "iter" THEN n ELSE RoundEnd(y, n)
  <2>1. r.todo # <<>> /\ y = Head(r.todo)
    BY <1>1, <1>4
  <2>3. s.k \in ForKinds /\ (y = s \/ IsRound(s, y))
    BY <1>2
  <2>4. ~ Sees(r)
    BY <2>1, <2>3, RoundGoes
  <2>5. Goes(r, Rounds(r, s, RoundAt(y), RoundsOf(y, n)), n)
    BY <2>1, <2>3, RoundGoes
  <2>6. N = IF s.k = "iter" THEN n ELSE RoundEnd(y, n)
    <3>1. CASE y = s
      BY <1>3, <2>3, <3>1 DEF RoundsOf, RoundEnd, ForKinds
    <3>2. CASE IsRound(s, y)
      BY <1>3, <2>3, <3>2 DEF RoundsOf, RoundEnd, IsRound, ForAgain, Again
    <3> QED
      BY <2>3, <3>1, <3>2
  <2> QED
    BY <1>1, <1>3, <2>4, <2>5, <2>6
<1>7. N \in Nat /\ a < N /\ N <= n /\ Holds(st, v - 1, a)
  <2>1. CASE s.k = "list"
    <3>1. ListStage("some", l.l, y, st, n) /\ N = RoundEnd(y, n) /\ v = l.l + 3
      BY <1>1, <1>2, <1>5, <2>1 DEF VarOf
    <3>2. RoundEnd(y, n) <= n /\ a < RoundEnd(y, n) /\ Holds(st, l.l + 2, a)
      BY <1>1, <3>1 DEF ListStage
    <3>3. RoundEnd(y, n) \in Nat
      <4>1. CASE y = s
        BY <1>2, <4>1 DEF RoundEnd, ForKinds
      <4>2. CASE IsRound(s, y)
        BY <4>2 DEF RoundEnd, IsRound
      <4> QED
        BY <1>2, <4>1, <4>2
    <3>4. v - 1 = l.l + 2
      BY <1>2, <3>1
    <3> QED
      BY <3>1, <3>2, <3>3, <3>4
  <2>2. CASE s.k = "iter"
    <3>1. IterStage("some", l.l, y, st, n) /\ N = n /\ v = l.l + 2
      BY <1>1, <1>2, <1>5, <2>2 DEF VarOf
    <3>2. a < n /\ Holds(st, l.l + 1, a)
      BY <1>1, <3>1 DEF IterStage
    <3>3. v - 1 = l.l + 1
      BY <1>2, <3>1
    <3> QED
      BY <3>1, <3>2, <3>3
  <2> QED
    BY <1>2, <2>1, <2>2 DEF ForKinds
<1>8. AgreeBut(st, st1, {v}) /\ Holds(st1, v, a)
  <2>1. ValIn(st, v - 1) = a
    BY <1>7, HoldsVal
  <2>2. a # Null
    BY <1>2 DEF Null
  <2>3. x.op = "payload" /\ x.dst = v /\ x.src = v - 1
    BY <1>1
  <2>4. st1 = PutIn(st, v, a)
    BY <2>1, <2>2, <2>3 DEF Done1
  <2> QED
    BY <2>4, PutIs
<1>9. PICK c1, td1, y1 : c1 = Tail(c) /\ td1 = Tail(td) /\ y1 = ForAgain(s, a + 1, N)
  OBVIOUS
<1>10. Head(c).k \notin PopLike /\ Reserves(Head(c)) = Keeps(l)
  BY DEF Micro, PopLike, Reserves
<1>11. Matches(c1, sc, td1, en, Lv, st, n) /\ Settled(c1) /\ Untouched(c1, sc, Keeps(l))
  BY <1>9, <1>10, HeadGone
<1>12. l.rest = c1 /\ l.sc = sc /\ ~ BoundIn(en, z)
  <2>1. StagePlace(c1, Head(c), sc, en)
    BY <1>9, HeadPlace DEF Micro
  <2> QED
    BY <1>1, <2>1 DEF StagePlace
<1>13. z \in DOMAIN sc[Len(sc)] /\ sc[Len(sc)][z] = v /\ l.k = "again" /\ s \in Stmt
  BY <1>1, <1>2, <1>12 DEF LoopKind
<1>14. /\ Levels(c1, sc, en, Lv) /\ Names(sc, en, Lv, st) /\ Apart(c1, sc) /\ AnySeq(c1) /\ AnySeq(td1)
       /\ AnySeq(en) /\ Len(sc) \in Nat \ {0}
  BY <1>11, MatchFacts
<1>15. Unseen(c1, sc, en, Lv, {v})
  <2>1. ASSUME NEW j \in 1 .. Len(en), NEW w \in DOMAIN en[j]
        PROVE  sc[Lv[j]][w] \notin {v}
    <3>1. Lv[j] \in 1 .. Len(sc)
      BY <1>14, LevelFacts
    <3>2. w \in DOMAIN sc[Lv[j]]
      BY <1>14 DEF Names
    <3>3. w # z
      <4>1. DOMAIN en = 1 .. Len(en)
        BY <1>14, AnyFacts
      <4> QED
        BY <1>12, <4>1 DEF BoundIn
    <3>4. Len(sc) \in 1 .. Len(sc)
      BY <1>14
    <3> QED
      BY <1>13, <1>14, <3>1, <3>2, <3>3, <3>4 DEF Apart
  <2>2. \A k \in 1 .. Len(c1) : Reserves(Back(c1, k)) \cap {v} = {}
    <3>1. Len(sc) \in 1 .. Len(sc)
      BY <1>14
    <3> QED
      BY <1>13, <1>14, <3>1 DEF Apart
  <2> QED
    BY <2>1, <2>2 DEF Unseen
<1>16. Matches(c1, sc, td1, en, Lv, st1, n)
  BY <1>8, <1>11, <1>15, StoreKept
<1>17. v \notin Keeps(l) /\ l.l \in Keeps(l) /\ l.l + 1 \in Keeps(l)
  BY <1>1, <1>2, KeepsFacts
<1>18. IsRound(s, y1) /\ y1.k = "again" /\ y1.stmt.at = a + 1 /\ y1.stmt.n = N
  BY <1>2, <1>7, <1>9 DEF IsRound, ForAgain, Again
<1>19. LoopMatch(l, y1, st1, n)
  <2>1. CASE s.k = "list"
    <3>1. Holds(st, l.l, N) /\ Holds(st, l.l + 1, a)
      BY <1>1, <1>2, <1>5, <2>1 DEF ListStage
    <3>2. Holds(st1, l.l, N) /\ Holds(st1, l.l + 1, a)
      BY <1>8, <1>17, <3>1 DEF AgreeBut
    <3>3. y1.stmt.at - 1 = a
      BY <1>2, <1>18
    <3> QED
      BY <1>1, <1>2, <1>7, <1>18, <2>1, <3>2, <3>3 DEF LoopMatch
  <2>2. CASE s.k = "iter"
    <3>1. Holds(st, l.l, a + 1)
      BY <1>1, <1>2, <2>2 DEF IterStage
    <3>2. Holds(st1, l.l, a + 1)
      BY <1>8, <1>17, <3>1 DEF AgreeBut
    <3> QED
      BY <1>1, <1>2, <1>18, <2>2, <3>2 DEF LoopMatch
  <2> QED
    BY <1>2, <2>1, <2>2 DEF ForKinds
<1>20. ItemMatch(l, y1, st1, n) /\ l.k \notin PopLike \cup Binders \cup Micro /\ Reserves(l) = Keeps(l)
  BY <1>13, <1>19 DEF ItemMatch, PopLike, Binders, Micro, Reserves
<1>21. Standing(l, c1, sc, en)
  BY <1>1, <1>12, <1>20 DEF Standing
<1>22. Matches(<<l>> \o c1, sc, <<y1>> \o td1, en, Lv, st1, n) /\ Settled(<<l>> \o c1)
  BY <1>11, <1>16, <1>20, <1>21, OneInFront
<1>23. PICK c2, td2, f, en1 : /\ c2 = <<l>> \o c1 /\ td2 = <<y1>> \o td1
                              /\ f = [w \in {z} |-> a] /\ en1 = Append(en, f)
  OBVIOUS
<1>24. z \in Name /\ a \in Int
  <2>1. IsCode(s)
    BY <1>13 DEF IsCode
  <2> QED
    BY <1>1, <1>2, <2>1, CodeFacts DEF ForKinds
<1>25. PICK Lv1 : /\ Matches(<<FPop>> \o c2, sc, <<Pop>> \o td2, en1, Lv1, st1, n) /\ Settled(<<FPop>> \o c2)
  <2>1. Matches(c2, sc, td2, en, Lv, st1, n) /\ Settled(c2) /\ Holds(st1, sc[Len(sc)][z], a)
    BY <1>8, <1>13, <1>22, <1>23
  <2>2. ~ BoundIn(en, z) /\ z \in DOMAIN sc[Len(sc)] /\ z \in Name /\ a \in Int
    BY <1>12, <1>13, <1>24
  <2>3. f = [w \in {z} |-> a] /\ en1 = Append(en, f)
    BY <1>23
  <2> QED
    BY <2>1, <2>2, <2>3, FPopInFront
<1>26. PICK c3, td3, e, g : c3 = <<FPop>> \o c2 /\ td3 = <<Pop>> \o td2 /\ e = Block(s.body) /\ g = <<e>>
  OBVIOUS
<1>27. AllCode(g) /\ ~ Binds(g)
  <2>1. s.body \in Seq(Stmt)
    <3>1. IsCode(s)
      BY <1>13 DEF IsCode
    <3> QED
      BY <1>2, <3>1, CodeFacts DEF ForKinds
  <2>2. IsCode(e) /\ e.k = "block"
    BY <1>26, <2>1, BlockIsCode
  <2>3. AnySeq(g) /\ Len(g) = 1 /\ g[1] = e
    BY <1>26, OneItem
  <2>4. \A k \in 1 .. Len(g) : Back(g, k) = e
    BY <2>3 DEF Back
  <2> QED
    BY <2>2, <2>3, <2>4 DEF AllCode, Binds, Binders
<1>28. Matches(g \o c3, sc, g \o td3, en1, Lv1, st1, n)
  <2>1. Matches(c3, sc, td3, en1, Lv1, st1, n) /\ Settled(c3)
    BY <1>25, <1>26
  <2> QED
    BY <1>27, <2>1, CodeInFront
<1>29. Rounds(r, s, a, N) = Source(g \o td3, en1)
  <2>1. Rounds(r, s, a, N) = Source(<<e, Pop, y1>> \o td1, en1)
    BY <1>1, <1>4, <1>7, <1>9, <1>23, <1>26 DEF Rounds
  <2>2. <<e, Pop, y1>> \o td1 = <<e>> \o (<<Pop>> \o (<<y1>> \o td1))
    BY <1>14, TripleCons
  <2> QED
    BY <1>23, <1>26, <2>1, <2>2
<1>30. Inside(l, c1) = g \o c3
  <2>1. Closing(l) = <<FPop, l>>
    BY <1>1, <1>2 DEF Closing, ForKinds
  <2>2. <<FPop, l>> \o c1 = <<FPop>> \o (<<l>> \o c1)
    BY <1>14, PairCons
  <2> QED
    BY <1>1, <1>23, <1>26, <2>1, <2>2 DEF Inside
<1>31. PICK c4, td4 : c4 = g \o c3 /\ td4 = g \o td3
  OBVIOUS
<1>32. Point(b, i, c4, sc) \in P /\ Matches(c4, sc, td4, en1, Lv1, st1, n) /\ Goes(r, Source(td4, en1), n)
  BY <1>5, <1>9, <1>28, <1>29, <1>30, <1>31
<1> QED
  BY <1>5, <1>32, MovesTo
-----------------------------------------------------------------------------
(***************************************************************************)
(* Rule by rule: what the blocks do at a point, the statements do.           *)
(***************************************************************************)
At1(p, r, Lv, st, n) == r \in States /\ Matches(p.cont, p.sc, r.todo, r.env, Lv, st, n)

LEMMA StateIs == ASSUME NEW r \in States PROVE r = Source(r.todo, r.env)
BY DEF States, Source

(* The point taken apart. *)
Apart1(p, r, c, sc, td, en) ==
  c = p.cont /\ sc = p.sc /\ td = r.todo /\ en = r.env /\ r = Source(td, en)

LEMMA TakenApart ==
  ASSUME NEW p, NEW r, NEW Lv, NEW st, NEW n, At1(p, r, Lv, st, n)
  PROVE  \E c, sc, td, en : Apart1(p, r, c, sc, td, en) /\ Matches(c, sc, td, en, Lv, st, n)
<1>1. PICK c, sc, td, en : c = p.cont /\ sc = p.sc /\ td = r.todo /\ en = r.env
  OBVIOUS
<1>2. r \in States /\ Matches(c, sc, td, en, Lv, st, n)
  BY <1>1 DEF At1
<1>3. r = Source(td, en)
  BY <1>1, <1>2, StateIs
<1>4. Apart1(p, r, c, sc, td, en)
  BY <1>1, <1>3 DEF Apart1
<1> QED
  BY <1>2, <1>4

LEMMA HereMoves ==
  ASSUME NEW p, NEW r, NEW Lv, NEW st, NEW n, At1(p, r, Lv, st, n), NEW P, Here(p, P)
  PROVE  Moves(P, r, p.b, p.i, st, n)
<1>1. PICK c, sc, td, en : Apart1(p, r, c, sc, td, en) /\ Matches(c, sc, td, en, Lv, st, n)
  BY TakenApart
<1>2. H(p) = Head(c) /\ R(p) = Tail(c) /\ p.cont = c /\ p.sc = sc /\ r = Source(td, en)
  BY <1>1 DEF Apart1, H, R
<1>3. PICK b, i : b = p.b /\ i = p.i
  OBVIOUS
<1>4. CASE HereBlock(p, P)
  <2>1. c # <<>> /\ Head(c).k = "block"
    BY <1>2, <1>4 DEF HereBlock, Is
  <2>2. Point(b, i, Head(c).body \o <<Pop>> \o Tail(c), Append(sc, [x \in {} |-> 0])) \in P
    BY <1>2, <1>3, <1>4 DEF HereBlock
  <2>3. Moves(P, r, b, i, st, n)
    BY <1>1, <1>2, <2>1, <2>2, BlockMoves
  <2> QED
    BY <1>3, <2>3
<1>5. CASE HerePop(p, P)
  <2>1. c # <<>> /\ Head(c).k = "pop"
    BY <1>2, <1>5 DEF HerePop, Is
  <2>2. Point(b, i, Tail(c), SubSeq(sc, 1, Len(sc) - 1)) \in P
    BY <1>2, <1>3, <1>5 DEF HerePop
  <2>3. Moves(P, r, b, i, st, n)
    BY <1>1, <1>2, <2>1, <2>2, PopMoves
  <2> QED
    BY <1>3, <2>3
<1>6. CASE HereAgain(p, P)
  <2>1. c # <<>> /\ Head(c).k = "again" /\ Head(c).stmt.k = "while"
    BY <1>2, <1>6 DEF HereAgain, Is
  <2>2. Point(b, i, <<Head(c).stmt>> \o Tail(c), sc) \in P
    BY <1>2, <1>3, <1>6 DEF HereAgain
  <2>3. Moves(P, r, b, i, st, n)
    BY <1>1, <1>2, <2>1, <2>2, AgainMoves
  <2> QED
    BY <1>3, <2>3
<1> QED
  BY <1>4, <1>5, <1>6 DEF Here

(* The fresh locals of a statement. *)
LEMMA FreshOnes ==
  ASSUME NEW p, NEW r, NEW Lv, NEW st, NEW n, At1(p, r, Lv, st, n), p.cont # <<>>, NEW D, \A l \in D : Fresh(p, l),
         NEW c, c = p.cont, NEW sc, sc = p.sc
  PROVE  Untouched(Tail(c), sc, D)
<1>1. AnySeq(p.cont) /\ AnySeq(p.sc)
  BY MatchFacts DEF At1
<1> QED
  BY <1>1, FreshUntouched

LEMMA BindReaches ==
  ASSUME NEW p, NEW r, NEW Lv, NEW st, NEW n \in Nat, At1(p, r, Lv, st, n), Regular(r), NEW P, NEW x,
         NEW st1, st1 = Done1(x, st, n),
         StepAssign(p, P, x) \/ StepVar(p, P, x) \/ StepList(p, P, x) \/ StepIter(p, P, x)
  PROVE  Reaches(P, r, p.b, p.i + 1, st1, n)
<1>1. PICK c, sc, td, en : Apart1(p, r, c, sc, td, en) /\ Matches(c, sc, td, en, Lv, st, n)
  BY TakenApart
<1>2. H(p) = Head(c) /\ R(p) = Tail(c) /\ p.cont = c /\ p.sc = sc /\ r = Source(td, en)
  BY <1>1 DEF Apart1, H, R
<1>3. PICK b, i : b = p.b /\ i = p.i + 1
  OBVIOUS
<1>4. CASE StepAssign(p, P, x)
  <2>1. c # <<>> /\ Head(c).k = "assign"
    BY <1>2, <1>4 DEF StepAssign, Is
  <2>2. Point(b, i, Tail(c), sc) \in P /\ x = Set(LookupIn(sc, Head(c).name), Head(c).val)
    BY <1>2, <1>3, <1>4 DEF StepAssign, On
  <2>3. Moves(P, r, b, i, st1, n)
    BY <1>1, <1>2, <2>1, <2>2, AssignMoves
  <2> QED
    BY <1>3, <2>3 DEF Reaches
<1>5. CASE StepVar(p, P, x)
  <2>1. c # <<>> /\ Head(c).k = "var"
    BY <1>2, <1>5 DEF StepVar, Is
  <2>2. PICK l : l = x.dst
    OBVIOUS
  <2>3. /\ Point(b, i, Tail(c), Bound(sc, Head(c).name, l)) \in P
        /\ x = Set(l, Head(c).val) /\ Fresh(p, l)
    BY <1>2, <1>3, <1>5, <2>2 DEF StepVar, On
  <2>4. PICK D : D = {l}
    OBVIOUS
  <2>5. \A d \in D : Fresh(p, d)
    BY <2>3, <2>4
  <2>6. Untouched(Tail(c), sc, D)
    BY <1>2, <2>1, <2>5, FreshOnes
  <2>7. Untouched(Tail(c), sc, {l})
    BY <2>4, <2>6
  <2>8. Moves(P, r, b, i, st1, n)
    BY <1>1, <1>2, <2>1, <2>3, <2>7, VarMoves
  <2> QED
    BY <1>3, <2>8 DEF Reaches
<1>6. CASE StepList(p, P, x)
  <2>1. c # <<>> /\ Head(c).k = "list"
    BY <1>2, <1>6 DEF StepList, Is
  <2>2. PICK l : Begins(p, l, x.dst) /\ On(p, <<Stage("init", l)>> \o R(p), l.sc) \in P
    BY <1>6 DEF StepList
  <2>3. /\ l = LoopRec(Head(c), l.cont, l.exit, l.l, Bound(sc, Head(c).name, VarOf(l)), Tail(c))
        /\ l.l = x.dst /\ l.l \in Nat /\ \A d \in l.l .. VarOf(l) : Fresh(p, d)
    BY <1>2, <2>2 DEF Begins
  <2>4. x = [op |-> "size", dst |-> l.l]
    BY <1>6, <2>3 DEF StepList
  <2>5. Point(b, i, <<Stage("init", l)>> \o Tail(c), l.sc) \in P
    BY <1>2, <1>3, <2>2 DEF On
  <2>6. Untouched(Tail(c), sc, l.l .. VarOf(l))
    BY <1>2, <2>1, <2>3, FreshOnes
  <2>7. Arrived(P, r, b, i, st1, n)
    BY <1>1, <1>2, <2>1, <2>3, <2>4, <2>5, <2>6, ListArrives
  <2> QED
    BY <1>3, <2>7 DEF Reaches
<1>7. CASE StepIter(p, P, x)
  <2>1. c # <<>> /\ Head(c).k = "iter"
    BY <1>2, <1>7 DEF StepIter, Is
  <2>2. PICK l : Begins(p, l, x.dst) /\ On(p, <<Stage("round", l)>> \o R(p), l.sc) \in P
    BY <1>7 DEF StepIter
  <2>3. /\ l = LoopRec(Head(c), l.cont, l.exit, l.l, Bound(sc, Head(c).name, VarOf(l)), Tail(c))
        /\ l.l = x.dst /\ l.l \in Nat /\ \A d \in l.l .. VarOf(l) : Fresh(p, d)
    BY <1>2, <2>2 DEF Begins
  <2>4. x = Set(l.l, 0)
    BY <1>7, <2>3 DEF StepIter
  <2>5. Point(b, i, <<Stage("round", l)>> \o Tail(c), l.sc) \in P
    BY <1>2, <1>3, <2>2 DEF On
  <2>6. Untouched(Tail(c), sc, l.l .. VarOf(l))
    BY <1>2, <2>1, <2>3, FreshOnes
  <2>7. Arrived(P, r, b, i, st1, n)
    BY <1>1, <1>2, <2>1, <2>3, <2>4, <2>5, <2>6, IterArrives
  <2> QED
    BY <1>3, <2>7 DEF Reaches
<1> QED
  BY <1>4, <1>5, <1>6, <1>7
LEMMA StageReaches ==
  ASSUME NEW p, NEW r, NEW Lv, NEW st, NEW n \in Nat, At1(p, r, Lv, st, n), NEW P, NEW x,
         NEW st1, st1 = Done1(x, st, n),
         \/ StepInit(p, P, x) \/ StepInc(p, P, x) \/ StepGet(p, P, x) \/ StepNext(p, P, x) \/ StepSome(p, P, x)
  PROVE  Reaches(P, r, p.b, p.i + 1, st1, n)
<1>1. PICK c, sc, td, en : Apart1(p, r, c, sc, td, en) /\ Matches(c, sc, td, en, Lv, st, n)
  BY TakenApart
<1>2. H(p) = Head(c) /\ R(p) = Tail(c) /\ p.cont = c /\ p.sc = sc /\ r = Source(td, en)
  BY <1>1 DEF Apart1, H, R
<1>3. PICK b, i : b = p.b /\ i = p.i + 1
  OBVIOUS
<1>4. CASE StepInit(p, P, x)
  <2>1. c # <<>> /\ Head(c).k = "init"
    BY <1>2, <1>4 DEF StepInit, Is
  <2>2. PICK l : l = Head(c).loop
    OBVIOUS
  <2>3. x = Set(l.l + 1, 0) /\ Point(b, i, <<Stage("round", l)>> \o Tail(c), sc) \in P
    BY <1>2, <1>3, <1>4, <2>2 DEF StepInit, On
  <2>4. Arrived(P, r, b, i, st1, n)
    BY <1>1, <1>2, <2>1, <2>2, <2>3, InitArrives
  <2> QED
    BY <1>3, <2>4 DEF Reaches
<1>5. CASE StepInc(p, P, x)
  <2>1. c # <<>> /\ Head(c).k = "again"
    BY <1>2, <1>5 DEF StepInc, Is
  <2>2. PICK l : l = Head(c)
    OBVIOUS
  <2>3. /\ x = [op |-> "inc", dst |-> l.l + 1] /\ Point(b, i, <<Stage("round", l)>> \o Tail(c), sc) \in P
        /\ l.stmt.k = "list"
    BY <1>2, <1>3, <1>5, <2>2 DEF StepInc, On
  <2>4. Arrived(P, r, b, i, st1, n)
    BY <1>1, <1>2, <2>1, <2>2, <2>3, IncArrives
  <2> QED
    BY <1>3, <2>4 DEF Reaches
<1>6. CASE StepGet(p, P, x)
  <2>1. c # <<>> /\ Head(c).k = "get"
    BY <1>2, <1>6 DEF StepGet, Is
  <2>2. PICK l : l = Head(c).loop
    OBVIOUS
  <2>3. /\ x = [op |-> "get", dst |-> l.l + 2, at |-> l.l + 1]
        /\ Point(b, i, <<Stage("some", l)>> \o Tail(c), sc) \in P
    BY <1>2, <1>3, <1>6, <2>2 DEF StepGet, On
  <2>4. Arrived(P, r, b, i, st1, n)
    BY <1>1, <1>2, <2>1, <2>2, <2>3, GetArrives
  <2> QED
    BY <1>3, <2>4 DEF Reaches
<1>7. CASE StepNext(p, P, x)
  <2>1. c # <<>> /\ Head(c).k = "round"
    BY <1>2, <1>7 DEF StepNext, Is
  <2>2. PICK l : l = Head(c).loop
    OBVIOUS
  <2>3. /\ x = [op |-> "next", dst |-> l.l + 1, it |-> l.l] /\ l.stmt.k = "iter"
        /\ Point(b, i, <<Stage("test", l)>> \o Tail(c), sc) \in P
    BY <1>2, <1>3, <1>7, <2>2 DEF StepNext, On
  <2>4. Arrived(P, r, b, i, st1, n)
    BY <1>1, <1>2, <2>1, <2>2, <2>3, NextArrives
  <2> QED
    BY <1>3, <2>4 DEF Reaches
<1>8. CASE StepSome(p, P, x)
  <2>1. c # <<>> /\ Head(c).k = "some"
    BY <1>2, <1>8 DEF StepSome, Is
  <2>2. PICK l : l = Head(c).loop
    OBVIOUS
  <2>3. /\ x = [op |-> "payload", dst |-> VarOf(l), src |-> VarOf(l) - 1]
        /\ Point(b, i, Inside(l, Tail(c)), sc) \in P
    BY <1>2, <1>3, <1>8, <2>2 DEF StepSome, On
  <2>4. Moves(P, r, b, i, st1, n)
    BY <1>1, <1>2, <2>1, <2>2, <2>3, SomeMoves
  <2> QED
    BY <1>3, <2>4 DEF Reaches
<1> QED
  BY <1>4, <1>5, <1>6, <1>7, <1>8

Shown == {"act", "use", "drop"}

LEMMA StepReaches ==
  ASSUME NEW p, NEW r, NEW Lv, NEW st, NEW n \in Nat, At1(p, r, Lv, st, n), Regular(r), NEW P, NEW x,
         NEW st1, st1 = Done1(x, st, n), Steps(p, P, x), x.op \notin Shown
  PROVE  Reaches(P, r, p.b, p.i + 1, st1, n)
<1>1. ~ StepAct(p, P, x)
  BY DEF StepAct, Shown
<1>2. ~ StepUse(p, P, x)
  BY DEF StepUse, Shown
<1>3. CASE StepAssign(p, P, x) \/ StepVar(p, P, x) \/ StepList(p, P, x) \/ StepIter(p, P, x)
  BY <1>3, BindReaches
<1>4. CASE \/ StepInit(p, P, x) \/ StepInc(p, P, x) \/ StepGet(p, P, x) \/ StepNext(p, P, x)
           \/ StepSome(p, P, x)
  BY <1>4, StageReaches
<1> QED
  BY <1>1, <1>2, <1>3, <1>4 DEF Steps

(* Where a jump goes. *)
TestIs(c, st) == IF c[1] = "ge" THEN ValIn(st, c[2]) >= ValIn(st, c[3]) ELSE ValIn(st, c[2]) = Null
Target(t, st) == IF t.t = "goto" THEN t.to ELSE IF TestIs(t.cond, st) THEN t.yes ELSE t.no

LEMMA JumpReaches ==
  ASSUME NEW p, NEW r, NEW Lv, NEW st, NEW n \in Nat, At1(p, r, Lv, st, n), NEW P, NEW t,
         EndBreak(p, P, t) \/ EndContinue(p, P, t) \/ EndBody(p, P, t) \/ EndJump(p, P, t)
  PROVE  t.t = "goto" /\ Reaches(P, r, t.to, 1, st, n)
<1>1. PICK c, sc, td, en : Apart1(p, r, c, sc, td, en) /\ Matches(c, sc, td, en, Lv, st, n)
  BY TakenApart
<1>2. H(p) = Head(c) /\ R(p) = Tail(c) /\ p.cont = c /\ p.sc = sc /\ r = Source(td, en)
  BY <1>1 DEF Apart1, H, R
<1>3. CASE EndBreak(p, P, t)
  <2>1. c # <<>> /\ Head(c).k = "break"
    BY <1>2, <1>3 DEF EndBreak, Is
  <2>2. PICK k : Nearest(c, k) /\ t = Goto(Back(c, k).exit) /\ ExitPoint(Back(c, k)) \in P
    BY <1>2, <1>3 DEF EndBreak
  <2>3. Moves(P, r, Back(c, k).exit, 1, st, n)
    BY <1>1, <1>2, <2>1, <2>2, BreakMoves
  <2> QED
    BY <2>2, <2>3 DEF Reaches, Goto
<1>4. CASE EndContinue(p, P, t)
  <2>1. c # <<>> /\ Head(c).k = "continue"
    BY <1>2, <1>4 DEF EndContinue, Is
  <2>2. PICK k : Nearest(c, k) /\ t = Goto(Back(c, k).cont) /\ ContPoint(Back(c, k)) \in P
    BY <1>2, <1>4 DEF EndContinue
  <2>3. Moves(P, r, Back(c, k).cont, 1, st, n)
    BY <1>1, <1>2, <2>1, <2>2, ContinueMoves
  <2> QED
    BY <2>2, <2>3 DEF Reaches, Goto
<1>5. CASE EndBody(p, P, t)
  <2>1. c # <<>> /\ Head(c).k = "fpop" /\ Tail(c) # <<>>
    BY <1>2, <1>5 DEF EndBody, Is
  <2>2. PICK l : l = Head(Tail(c))
    OBVIOUS
  <2>3. l.k = "again" /\ t = Goto(l.cont) /\ ContPoint(l) \in P
    BY <1>2, <1>5, <2>2 DEF EndBody
  <2>4. Moves(P, r, l.cont, 1, st, n)
    BY <1>1, <1>2, <2>1, <2>2, <2>3, BodyMoves
  <2> QED
    BY <2>3, <2>4 DEF Reaches, Goto
<1>6. CASE EndJump(p, P, t)
  <2>1. t.t = "goto" /\ Point(t.to, 1, c, sc) \in P
    BY <1>2, <1>6 DEF EndJump
  <2>2. PICK b : b = t.to
    OBVIOUS
  <2>3. Arrived(P, r, b, 1, st, n)
    BY <1>1, <1>2, <2>1, <2>2, Arrives
  <2> QED
    BY <2>1, <2>2, <2>3 DEF Reaches
<1> QED
  BY <1>3, <1>4, <1>5, <1>6

LEMMA CondReaches ==
  ASSUME NEW p, NEW r, NEW Lv, NEW st, NEW n \in Nat, At1(p, r, Lv, st, n), NEW P, NEW t,
         EndRound(p, P, t) \/ EndTest(p, P, t)
  PROVE  t.t = "cond" /\ Reaches(P, r, Target(t, st), 1, st, n)
<1>1. PICK c, sc, td, en : Apart1(p, r, c, sc, td, en) /\ Matches(c, sc, td, en, Lv, st, n)
  BY TakenApart
<1>2. H(p) = Head(c) /\ R(p) = Tail(c) /\ p.cont = c /\ p.sc = sc /\ r = Source(td, en)
  BY <1>1 DEF Apart1, H, R
<1>3. PICK l, no : l = Head(c).loop /\ no = t.no
  OBVIOUS
<1>4. CASE EndRound(p, P, t)
  <2>1. c # <<>> /\ Head(c).k = "round" /\ l.stmt.k = "list"
    BY <1>2, <1>3, <1>4 DEF EndRound, Is
  <2>2. /\ t = CondBr(<<"ge", l.l + 1, l.l>>, l.exit, no)
        /\ ExitPoint(l) \in P /\ Point(no, 1, <<Stage("get", l)>> \o Tail(c), sc) \in P
    BY <1>2, <1>3, <1>4 DEF EndRound
  <2>3. Reaches(P, r, IF ValIn(st, l.l + 1) >= ValIn(st, l.l) THEN l.exit ELSE no, 1, st, n)
    BY <1>1, <1>2, <1>3, <2>1, <2>2, RoundReaches
  <2>4. t.t = "cond" /\ t.yes = l.exit /\ t.no = no /\ t.cond = <<"ge", l.l + 1, l.l>>
    BY <2>2 DEF CondBr
  <2>5. TestIs(t.cond, st) <=> ValIn(st, l.l + 1) >= ValIn(st, l.l)
    BY <2>4 DEF TestIs
  <2>6. Target(t, st) = IF ValIn(st, l.l + 1) >= ValIn(st, l.l) THEN l.exit ELSE no
    BY <2>4, <2>5 DEF Target
  <2> QED
    BY <2>3, <2>4, <2>6
<1>5. CASE EndTest(p, P, t)
  <2>1. c # <<>> /\ Head(c).k = "test"
    BY <1>2, <1>5 DEF EndTest, Is
  <2>2. /\ t = CondBr(<<"null", l.l + 1>>, l.exit, no)
        /\ ExitPoint(l) \in P /\ Point(no, 1, <<Stage("some", l)>> \o Tail(c), sc) \in P
    BY <1>2, <1>3, <1>5 DEF EndTest
  <2>3. Reaches(P, r, IF ValIn(st, l.l + 1) = Null THEN l.exit ELSE no, 1, st, n)
    BY <1>1, <1>2, <1>3, <2>1, <2>2, TestReaches
  <2>4. t.t = "cond" /\ t.yes = l.exit /\ t.no = no /\ t.cond = <<"null", l.l + 1>>
    BY <2>2 DEF CondBr
  <2>5. TestIs(t.cond, st) <=> ValIn(st, l.l + 1) = Null
    BY <2>4 DEF TestIs
  <2>6. Target(t, st) = IF ValIn(st, l.l + 1) = Null THEN l.exit ELSE no
    BY <2>4, <2>5 DEF Target
  <2> QED
    BY <2>3, <2>4, <2>6
<1> QED
  BY <1>4, <1>5

(* The end of a block that shows nothing. *)
LEMMA CloseReaches ==
  ASSUME NEW p, NEW r, NEW Lv, NEW st, NEW n \in Nat, At1(p, r, Lv, st, n), NEW P, NEW t, Closes(p, P, t),
         t.t # "return", t.t = "cond" => t.cond[1] # "free"
  PROVE  Reaches(P, r, Target(t, st), 1, st, n)
<1>1. ~ EndReturn(p, P, t)
  BY DEF EndReturn, Return
<1>2. ~ EndIf(p, P, t)
  BY DEF EndIf, CondBr
<1>3. ~ EndWhile(p, P, t)
  BY DEF EndWhile, CondBr
<1>4. CASE EndBreak(p, P, t) \/ EndContinue(p, P, t) \/ EndBody(p, P, t) \/ EndJump(p, P, t)
  <2>1. t.t = "goto" /\ Reaches(P, r, t.to, 1, st, n)
    BY <1>4, JumpReaches
  <2> QED
    BY <2>1 DEF Target
<1>5. CASE EndRound(p, P, t) \/ EndTest(p, P, t)
  BY <1>5, CondReaches
<1> QED
  BY <1>1, <1>2, <1>3, <1>4, <1>5 DEF Closes
-----------------------------------------------------------------------------
(***************************************************************************)
(* What the blocks show, the statements show.                                *)
(***************************************************************************)
LEMMA ShownAct ==
  ASSUME NEW p, NEW r, NEW Lv, NEW st, NEW n, At1(p, r, Lv, st, n), NEW P, NEW x, StepAct(p, P, x), Regular(r)
  PROVE  /\ r.todo # <<>> /\ Turn(r).k = x.op /\ x.op \in {"act", "drop"} /\ (x.op = "act" => x.val = Turn(r).val)
         /\ \A m : (x.op = "act" => m = n) => Arrived(P, Source(Tail(r.todo), r.env), p.b, p.i + 1, st, m)
<1>1. PICK c, sc, td, en : Apart1(p, r, c, sc, td, en) /\ Matches(c, sc, td, en, Lv, st, n)
  BY TakenApart
<1>2. H(p) = Head(c) /\ R(p) = Tail(c) /\ p.cont = c /\ p.sc = sc /\ r = Source(td, en) /\ r.todo = td /\ r.env = en
  BY <1>1 DEF Apart1, H, R
<1>3. c # <<>> /\ Head(c).k \in {"act", "drop"}
  BY <1>2 DEF StepAct, Is
<1>4. /\ x = IF Head(c).k = "act" THEN [op |-> "act", val |-> Head(c).val] ELSE [op |-> "drop"]
      /\ Point(p.b, p.i + 1, Tail(c), sc) \in P
  BY <1>2 DEF StepAct, On
<1>5. x.op = Head(c).k /\ (Head(c).k = "act" => x.val = Head(c).val)
  BY <1>3, <1>4
<1>6. td # <<>>
  BY <1>1, <1>2, <1>3, HeadCode
<1>7. Turn(r) = Head(c)
  BY <1>1, <1>2, <1>3, HeadCode DEF PopLike, Micro
<1>8. Head(c).k \notin PopLike \cup Micro
  BY <1>3 DEF PopLike, Micro
<1>9. ASSUME NEW m, x.op = "act" => m = n
      PROVE  Arrived(P, Source(Tail(td), en), p.b, p.i + 1, st, m)
  <2>1. Matches(c, sc, td, en, Lv, st, m)
    <3>1. CASE x.op = "act"
      BY <1>1, <1>9, <3>1
    <3>2. CASE x.op = "drop"
      <4>1. \A k \in DOMAIN td : td[k].k = "again" => td[k].stmt.k # "list"
        BY <1>2, <1>5, <1>7, <3>2 DEF Regular
      <4>2. Settled(c)
        BY <1>1, <1>8, SettledBy
      <4>3. AnySeq(td) /\ Len(td) = Len(c)
        BY <1>1, MatchFacts
      <4>4. ASSUME NEW k \in 1 .. Len(c), Back(td, k).k = "again"
            PROVE  Back(td, k).stmt.k # "list"
        <5>1. Len(td) + 1 - k \in DOMAIN td
          BY <4>3, AnyFacts
        <5> QED
          BY <4>1, <4>4, <5>1 DEF Back
      <4> QED
        BY <1>1, <4>2, <4>4, LenKept
    <3> QED
      BY <1>3, <1>5, <3>1, <3>2
  <2>2. PICK c1, td1, i : c1 = Tail(c) /\ td1 = Tail(td) /\ i = p.i + 1
    OBVIOUS
  <2>3. Matches(c1, sc, td1, en, Lv, st, m)
    BY <1>3, <1>8, <2>1, <2>2, HeadGone
  <2>4. Point(p.b, i, c1, sc) \in P
    BY <1>4, <2>2
  <2>5. Arrived(P, Source(td1, en), p.b, i, st, m)
    BY <2>3, <2>4, Arrives
  <2> QED
    BY <2>2, <2>5
<1> QED
  BY <1>2, <1>3, <1>5, <1>6, <1>7, <1>9

LEMMA ShownUse ==
  ASSUME NEW p, NEW r, NEW Lv, NEW st, NEW n, At1(p, r, Lv, st, n), NEW P, NEW x, StepUse(p, P, x), Regular(r)
  PROVE  /\ r.todo # <<>> /\ Turn(r).k = "use" /\ x.op = "use"
         /\ ValIn(st, x.src) = r.env[Newest(r.env, Turn(r).name)][Turn(r).name]
         /\ Arrived(P, Source(Tail(r.todo), r.env), p.b, p.i + 1, st, n)
<1>1. PICK c, sc, td, en : Apart1(p, r, c, sc, td, en) /\ Matches(c, sc, td, en, Lv, st, n)
  BY TakenApart
<1>2. H(p) = Head(c) /\ R(p) = Tail(c) /\ p.cont = c /\ p.sc = sc /\ r = Source(td, en) /\ r.todo = td /\ r.env = en
  BY <1>1 DEF Apart1, H, R
<1>3. c # <<>> /\ Head(c).k = "use"
  BY <1>2 DEF StepUse, Is
<1>4. PICK z, k, i, c1, td1 : /\ z = Head(c).name /\ k = Newest(en, z) /\ i = p.i + 1
                              /\ c1 = Tail(c) /\ td1 = Tail(td)
  OBVIOUS
<1>5. x = [op |-> "use", src |-> LookupIn(sc, z)] /\ Point(p.b, i, c1, sc) \in P
  BY <1>2, <1>4 DEF StepUse, On
<1>6. td # <<>>
  BY <1>1, <1>2, <1>3, HeadCode
<1>7. Turn(r) = Head(c)
  BY <1>1, <1>2, <1>3, HeadCode DEF PopLike, Micro
<1>8. Head(c).k \notin PopLike
  BY <1>3 DEF PopLike
<1>9. BoundIn(en, z)
  BY <1>2, <1>3, <1>4, <1>7 DEF Regular
<1>10. AnySeq(c) /\ Levels(c, sc, en, Lv) /\ Names(sc, en, Lv, st)
  BY <1>1, MatchFacts
<1>11. Holds(st, LookupIn(sc, z), en[k][z])
  BY <1>4, <1>9, <1>10, LookupIs
<1>12. ValIn(st, x.src) = en[k][z]
  BY <1>5, <1>11, HoldsVal
<1>13. Matches(c1, sc, td1, en, Lv, st, n)
  BY <1>1, <1>3, <1>4, <1>8, HeadGone
<1>14. Arrived(P, Source(td1, en), p.b, i, st, n)
  BY <1>5, <1>13, Arrives
<1> QED
  BY <1>2, <1>3, <1>4, <1>5, <1>6, <1>7, <1>12, <1>14

LEMMA ShownReturn ==
  ASSUME NEW p, NEW r, NEW Lv, NEW st, NEW n, At1(p, r, Lv, st, n), NEW P, NEW t, EndReturn(p, P, t)
  PROVE  Turn(r).k = "return" /\ t.t = "return" /\ t.val = Turn(r).val
<1>1. PICK c, sc, td, en : Apart1(p, r, c, sc, td, en) /\ Matches(c, sc, td, en, Lv, st, n)
  BY TakenApart
<1>2. H(p) = Head(c) /\ p.cont = c /\ r = Source(td, en) /\ r.todo = td
  BY <1>1 DEF Apart1, H
<1>3. CASE c = <<>> /\ t = Return(0)
  <2>1. AnySeq(td) /\ AnySeq(c) /\ Len(td) = Len(c)
    BY <1>1, MatchFacts
  <2>2. Len(c) = 0
    BY <1>3
  <2>3. td = <<>>
    BY <2>1, <2>2, AnyFacts
  <2> QED
    BY <1>2, <1>3, <2>3 DEF Turn, Return
<1>4. CASE c # <<>> /\ Head(c).k = "return" /\ t = Return(Head(c).val)
  <2>1. Turn(r) = Head(c)
    BY <1>1, <1>2, <1>4, HeadCode DEF PopLike, Micro
  <2> QED
    BY <1>4, <2>1 DEF Return
<1> QED
  BY <1>2, <1>3, <1>4 DEF EndReturn, Is

(* What is left after a condition. *)
After(r, c) ==
  IF Turn(r).k = "if" THEN <<Block(IF c THEN Turn(r).body ELSE Turn(r).else)>> \o Tail(r.todo)
  ELSE IF c THEN <<Block(Turn(r).body), Again(Turn(r))>> \o Tail(r.todo) ELSE Tail(r.todo)

LEMMA BlockInFront ==
  ASSUME NEW c, NEW sc, NEW td, NEW en, NEW Lv, NEW st, NEW n, Matches(c, sc, td, en, Lv, st, n), Settled(c),
         NEW b \in Seq(Stmt)
  PROVE  Matches(<<Block(b)>> \o c, sc, <<Block(b)>> \o td, en, Lv, st, n)
<1>1. PICK e, g : e = Block(b) /\ g = <<e>>
  OBVIOUS
<1>2. IsCode(e) /\ e.k = "block"
  BY <1>1, BlockIsCode
<1>3. AnySeq(g) /\ Len(g) = 1 /\ g[1] = e
  BY <1>1, OneItem
<1>4. \A k \in 1 .. Len(g) : Back(g, k) = e
  BY <1>3 DEF Back
<1>5. AllCode(g) /\ ~ Binds(g)
  BY <1>2, <1>3, <1>4 DEF AllCode, Binds, Binders
<1>6. Matches(g \o c, sc, g \o td, en, Lv, st, n)
  BY <1>5, CodeInFront
<1> QED
  BY <1>1, <1>6

LEMMA ShownIf ==
  ASSUME NEW p, NEW r, NEW Lv, NEW st, NEW n, At1(p, r, Lv, st, n), NEW P, NEW t, EndIf(p, P, t)
  PROVE  /\ Turn(r).k = "if" /\ t.t = "cond" /\ t.cond[1] = "free"
         /\ \A d \in BOOLEAN : Arrived(P, Source(After(r, d), r.env), IF d THEN t.yes ELSE t.no, 1, st, n)
<1>1. PICK c, sc, td, en : Apart1(p, r, c, sc, td, en) /\ Matches(c, sc, td, en, Lv, st, n)
  BY TakenApart
<1>2. H(p) = Head(c) /\ R(p) = Tail(c) /\ p.cont = c /\ p.sc = sc /\ r = Source(td, en) /\ r.todo = td /\ r.env = en
  BY <1>1 DEF Apart1, H, R
<1>3. c # <<>> /\ Head(c).k = "if"
  BY <1>2 DEF EndIf, Is
<1>4. PICK c1, td1 : c1 = Tail(c) /\ td1 = Tail(td)
  OBVIOUS
<1>5. /\ t = CondBr(<<"free">>, t.yes, t.no)
      /\ Point(t.yes, 1, <<Block(Head(c).body)>> \o c1, sc) \in P
      /\ Point(t.no, 1, <<Block(Head(c).else)>> \o c1, sc) \in P
  BY <1>2, <1>4 DEF EndIf
<1>6. t.t = "cond" /\ t.cond[1] = "free"
  BY <1>5 DEF CondBr
<1>7. Turn(r) = Head(c) /\ IsCode(Head(c))
  BY <1>1, <1>2, <1>3, HeadCode DEF PopLike, Micro
<1>8. Head(c).k \notin PopLike
  BY <1>3 DEF PopLike
<1>9. Matches(c1, sc, td1, en, Lv, st, n) /\ Settled(c1)
  BY <1>1, <1>3, <1>4, <1>8, HeadGone
<1>10. Head(c).body \in Seq(Stmt) /\ Head(c).else \in Seq(Stmt)
  BY <1>3, <1>7, CodeFacts
<1>11. ASSUME NEW d \in BOOLEAN
       PROVE  Arrived(P, Source(After(r, d), en), IF d THEN t.yes ELSE t.no, 1, st, n)
  <2>1. PICK b, to : b = (IF d THEN Head(c).body ELSE Head(c).else) /\ to = (IF d THEN t.yes ELSE t.no)
    OBVIOUS
  <2>2. b \in Seq(Stmt) /\ Point(to, 1, <<Block(b)>> \o c1, sc) \in P
    BY <1>5, <1>10, <2>1
  <2>3. PICK c2, td2 : c2 = <<Block(b)>> \o c1 /\ td2 = <<Block(b)>> \o td1
    OBVIOUS
  <2>4. Matches(c2, sc, td2, en, Lv, st, n)
    BY <1>9, <2>2, <2>3, BlockInFront
  <2>5. Arrived(P, Source(td2, en), to, 1, st, n)
    BY <2>2, <2>3, <2>4, Arrives
  <2>6. After(r, d) = td2
    BY <1>2, <1>3, <1>4, <1>7, <2>1, <2>3 DEF After
  <2> QED
    BY <2>1, <2>5, <2>6
<1> QED
  BY <1>2, <1>3, <1>6, <1>7, <1>11

LEMMA ShownWhile ==
  ASSUME NEW p, NEW r, NEW Lv, NEW st, NEW n, At1(p, r, Lv, st, n), NEW P, NEW t, EndWhile(p, P, t)
  PROVE  /\ Turn(r).k = "while" /\ t.t = "cond" /\ t.cond[1] = "free"
         /\ \A d \in BOOLEAN : Arrived(P, Source(After(r, d), r.env), IF d THEN t.yes ELSE t.no, 1, st, n)
<1>1. PICK c, sc, td, en : Apart1(p, r, c, sc, td, en) /\ Matches(c, sc, td, en, Lv, st, n)
  BY TakenApart
<1>2. H(p) = Head(c) /\ R(p) = Tail(c) /\ p.cont = c /\ p.sc = sc /\ r = Source(td, en) /\ r.todo = td /\ r.env = en
  BY <1>1 DEF Apart1, H, R
<1>3. c # <<>> /\ Head(c).k = "while"
  BY <1>2 DEF EndWhile, Is
<1>4. PICK c1, td1, s : c1 = Tail(c) /\ td1 = Tail(td) /\ s = Head(c)
  OBVIOUS
<1>5. PICK l : /\ l = LoopRec(s, l.cont, l.exit, l.l, sc, c1)
               /\ t = CondBr(<<"free">>, t.yes, l.exit) /\ ExitPoint(l) \in P
               /\ Point(t.yes, 1, Inside(l, c1), sc) \in P
  BY <1>2, <1>4 DEF EndWhile
<1>6. t.t = "cond" /\ t.cond[1] = "free" /\ t.no = l.exit
  BY <1>5 DEF CondBr
<1>7. Turn(r) = s /\ IsCode(s)
  BY <1>1, <1>2, <1>3, <1>4, HeadCode DEF PopLike, Micro
<1>8. Head(c).k \notin PopLike
  BY <1>3 DEF PopLike
<1>9. Matches(c1, sc, td1, en, Lv, st, n) /\ Settled(c1)
  BY <1>1, <1>3, <1>4, <1>8, HeadGone
<1>10. s.body \in Seq(Stmt) /\ s \in Stmt
  BY <1>3, <1>4, <1>7, CodeFacts
<1>11. l.k = "again" /\ l.stmt = s /\ l.sc = sc /\ l.rest = c1
  BY <1>5 DEF LoopRec
<1>12. Arrived(P, Source(td1, en), l.exit, 1, st, n)
  <2>1. PICK to : to = l.exit
    OBVIOUS
  <2>2. Point(to, 1, c1, sc) \in P
    BY <1>5, <1>11, <2>1 DEF ExitPoint
  <2>3. Arrived(P, Source(td1, en), to, 1, st, n)
    BY <1>9, <2>2, Arrives
  <2> QED
    BY <2>1, <2>3
<1>13. Arrived(P, Source(<<Block(s.body), Again(s)>> \o td1, en), t.yes, 1, st, n)
  <2>1. PICK y, b, to : y = Again(s) /\ b = s.body /\ to = t.yes
    OBVIOUS
  <2>2. LoopKind(l)
    BY <1>3, <1>4, <1>10, <1>11 DEF LoopKind, ForKinds
  <2>3. LoopMatch(l, y, st, n)
    BY <1>3, <1>4, <1>11, <2>1, <2>2 DEF LoopMatch, ForKinds
  <2>4. ItemMatch(l, y, st, n)
    BY <1>11, <2>3 DEF ItemMatch
  <2>5. Reserves(l) = {} /\ l.k \notin PopLike \cup Binders /\ l.k \notin Micro
    BY <1>3, <1>4, <1>11 DEF Reserves, Keeps, ForKinds, PopLike, Binders, Micro
  <2>6. Untouched(c1, sc, Reserves(l))
    BY <2>5 DEF Untouched
  <2>7. Standing(l, c1, sc, en)
    BY <1>3, <1>4, <1>11, <2>5 DEF Standing, ForKinds
  <2>8. PICK c2, td2 : c2 = <<l>> \o c1 /\ td2 = <<y>> \o td1
    OBVIOUS
  <2>9. Matches(c2, sc, td2, en, Lv, st, n) /\ Settled(c2)
    BY <1>9, <2>4, <2>5, <2>6, <2>7, <2>8, OneInFront
  <2>10. PICK c3, td3 : c3 = <<Block(b)>> \o c2 /\ td3 = <<Block(b)>> \o td2
    OBVIOUS
  <2>11. Matches(c3, sc, td3, en, Lv, st, n)
    BY <1>10, <2>1, <2>9, <2>10, BlockInFront
  <2>12. Inside(l, c1) = c3
    BY <1>3, <1>4, <1>11, <2>1, <2>8, <2>10 DEF Inside, Closing
  <2>13. Point(to, 1, c3, sc) \in P
    BY <1>5, <2>1, <2>12
  <2>14. Arrived(P, Source(td3, en), to, 1, st, n)
    BY <2>11, <2>13, Arrives
  <2>15. AnySeq(td1)
    BY <1>9, MatchFacts
  <2>16. td3 = <<Block(b), y>> \o td1
    <3>1. PICK e : e = Block(b)
      OBVIOUS
    <3>2. <<e, y>> \o td1 = <<e>> \o (<<y>> \o td1)
      BY <2>15, PairCons
    <3> QED
      BY <2>8, <2>10, <3>1, <3>2
  <2> QED
    BY <2>1, <2>14, <2>16
<1>14. ASSUME NEW d \in BOOLEAN
       PROVE  Arrived(P, Source(After(r, d), en), IF d THEN t.yes ELSE t.no, 1, st, n)
  <2>1. s.k # "if"
    BY <1>3, <1>4
  <2>2. CASE d
    <3>1. After(r, d) = <<Block(s.body), Again(s)>> \o td1
      BY <1>2, <1>4, <1>7, <2>1, <2>2 DEF After
    <3> QED
      BY <1>13, <2>2, <3>1
  <2>3. CASE ~ d
    <3>1. After(r, d) = td1
      BY <1>2, <1>4, <1>7, <2>1, <2>3 DEF After
    <3> QED
      BY <1>6, <1>12, <2>3, <3>1
  <2> QED
    BY <2>2, <2>3
<1> QED
  BY <1>2, <1>3, <1>4, <1>6, <1>7, <1>14
SameShown(r, x, st) ==
  /\ r.todo # <<>> /\ Turn(r).k = x.op
  /\ x.op = "act" => x.val = Turn(r).val
  /\ x.op = "use" => ValIn(st, x.src) = r.env[Newest(r.env, Turn(r).name)][Turn(r).name]

LEMMA StepKinds ==
  ASSUME NEW p, NEW P, NEW x, Steps(p, P, x)
  PROVE  /\ x.op \in Shown \cup {"set", "size", "inc", "get", "payload", "next"}
         /\ x.op \in Shown => StepAct(p, P, x) \/ StepUse(p, P, x)
<1>1. StepAct(p, P, x) \/ StepUse(p, P, x) => x.op \in Shown
  BY DEF StepAct, StepUse, Shown
<1>2. StepAssign(p, P, x) => x.op = "set"
  BY DEF StepAssign, Set
<1>3. StepVar(p, P, x) => x.op = "set"
  BY DEF StepVar, Set
<1>4. StepList(p, P, x) => x.op = "size"
  BY DEF StepList
<1>5. StepIter(p, P, x) => x.op = "set"
  BY DEF StepIter, Set
<1>6. StepInit(p, P, x) => x.op = "set"
  BY DEF StepInit, Set
<1>7. StepInc(p, P, x) => x.op = "inc"
  BY DEF StepInc
<1>8. StepGet(p, P, x) => x.op = "get"
  BY DEF StepGet
<1>9. StepNext(p, P, x) => x.op = "next"
  BY DEF StepNext
<1>10. StepSome(p, P, x) => x.op = "payload"
  BY DEF StepSome
<1> QED
  BY <1>1, <1>2, <1>3, <1>4, <1>5, <1>6, <1>7, <1>8, <1>9, <1>10 DEF Steps, Shown

LEMMA StepShown ==
  ASSUME NEW p, NEW r, NEW Lv, NEW st, NEW n, At1(p, r, Lv, st, n), NEW P, NEW x, Steps(p, P, x), Regular(r),
         x.op \in Shown
  PROVE  /\ SameShown(r, x, st)
         /\ \A m : (x.op # "drop" => m = n) => Arrived(P, Source(Tail(r.todo), r.env), p.b, p.i + 1, st, m)
<1>1. CASE StepAct(p, P, x)
  <2>1. /\ r.todo # <<>> /\ Turn(r).k = x.op /\ x.op \in {"act", "drop"} /\ (x.op = "act" => x.val = Turn(r).val)
        /\ \A m : (x.op = "act" => m = n) => Arrived(P, Source(Tail(r.todo), r.env), p.b, p.i + 1, st, m)
    BY <1>1, ShownAct
  <2> QED
    BY <2>1 DEF SameShown
<1>2. CASE StepUse(p, P, x)
  <2>1. /\ r.todo # <<>> /\ Turn(r).k = "use" /\ x.op = "use"
        /\ ValIn(st, x.src) = r.env[Newest(r.env, Turn(r).name)][Turn(r).name]
        /\ Arrived(P, Source(Tail(r.todo), r.env), p.b, p.i + 1, st, n)
    BY <1>2, ShownUse
  <2> QED
    BY <2>1 DEF SameShown
<1> QED
  BY <1>1, <1>2, StepKinds

LEMMA CloseKinds ==
  ASSUME NEW p, NEW P, NEW t, Closes(p, P, t)
  PROVE  /\ t.t \in {"return", "goto", "cond"}
         /\ t.t = "return" => EndReturn(p, P, t)
         /\ (t.t = "cond" /\ t.cond[1] = "free") => EndIf(p, P, t) \/ EndWhile(p, P, t)
<1>1. EndReturn(p, P, t) => t.t = "return"
  BY DEF EndReturn, Return
<1>2. EndBreak(p, P, t) => t.t = "goto"
  BY DEF EndBreak, Goto
<1>3. EndContinue(p, P, t) => t.t = "goto"
  BY DEF EndContinue, Goto
<1>4. EndBody(p, P, t) => t.t = "goto"
  BY DEF EndBody, Goto
<1>5. EndIf(p, P, t) => t.t = "cond"
  BY DEF EndIf
<1>6. EndWhile(p, P, t) => t.t = "cond"
  BY DEF EndWhile
<1>7. EndRound(p, P, t) => t.t = "cond" /\ t.cond[1] = "ge"
  BY DEF EndRound, CondBr
<1>8. EndTest(p, P, t) => t.t = "cond" /\ t.cond[1] = "null"
  BY DEF EndTest, CondBr
<1>9. EndJump(p, P, t) => t.t = "goto"
  BY DEF EndJump
<1> QED
  BY <1>1, <1>2, <1>3, <1>4, <1>5, <1>6, <1>7, <1>8, <1>9 DEF Closes

LEMMA CloseShown ==
  ASSUME NEW p, NEW r, NEW Lv, NEW st, NEW n, At1(p, r, Lv, st, n), NEW P, NEW t, Closes(p, P, t),
         t.t = "cond" => t.cond[1] = "free"
  PROVE  /\ t.t = "return" => Turn(r).k = "return" /\ t.val = Turn(r).val
         /\ t.t = "cond" =>
              /\ Turn(r).k \in {"if", "while"}
              /\ \A d \in BOOLEAN : Arrived(P, Source(After(r, d), r.env), IF d THEN t.yes ELSE t.no, 1, st, n)
<1>1. CASE t.t = "return"
  <2>1. EndReturn(p, P, t)
    BY <1>1, CloseKinds
  <2> QED
    BY <1>1, <2>1, ShownReturn
<1>2. CASE t.t = "cond"
  <2>1. EndIf(p, P, t) \/ EndWhile(p, P, t)
    BY <1>2, CloseKinds
  <2>2. CASE EndIf(p, P, t)
    BY <1>2, <2>2, ShownIf
  <2>3. CASE EndWhile(p, P, t)
    BY <1>2, <2>3, ShownWhile
  <2> QED
    BY <2>1, <2>2, <2>3
<1> QED
  BY <1>1, <1>2

-----------------------------------------------------------------------------
(***************************************************************************)
(* The run: what the machine does is the code of a point.                    *)
(***************************************************************************)
(* The code of a point where the machine is. *)
CodeHere(p, P) ==
  \/ Here(p, P)
  \/ InBlock /\ Steps(p, P, Ins)
  \/ ~ InBlock /\ Closes(p, P, Term)

LEMMA PlaceCode ==
  ASSUME NEW P, NEW W, Lowering(P, W), Done, NEW p \in P, p.b = block, p.i = index
  PROVE  CodeHere(p, P)
<1>1. Coded(p, P, blocks) /\ block \in DOMAIN blocks
  BY DEF Lowering, Points
<1>2. AnySeq(blocks[block].stmts)
  BY <1>1 DEF Lowering, NothingYet
<1>3. Len(blocks[block].stmts) \in Nat
  BY <1>2, AnyFacts
<1>4. CASE Here(p, P)
  BY <1>4 DEF CodeHere
<1>5. CASE StepsAt(p, P, blocks)
  <2>1. index \in 1 .. Len(blocks[block].stmts) /\ Steps(p, P, blocks[block].stmts[index])
    BY <1>5 DEF StepsAt
  <2>2. InBlock
    BY <1>3, <2>1 DEF InBlock
  <2> QED
    BY <2>1, <2>2 DEF CodeHere, Ins
<1>6. CASE ClosesAt(p, P, blocks)
  <2>1. index = Len(blocks[block].stmts) + 1 /\ Closes(p, P, blocks[block].term)
    BY <1>6 DEF ClosesAt
  <2>2. ~ InBlock
    BY <1>3, <2>1 DEF InBlock
  <2> QED
    BY <2>1, <2>2 DEF CodeHere, Term
<1> QED
  BY <1>1, <1>4, <1>5, <1>6 DEF Coded

LEMMA Executes ==
  ASSUME Execute, NEW x, x = Ins, x.op \in {"set", "size", "inc", "get", "payload", "next"}
  PROVE  block' = block /\ index' = index + 1 /\ store' = Done1(x, store, len)
<1>1. block' = block /\ index' = index + 1
  BY DEF Execute
<1>2. CASE x.op = "set"
  BY <1>2 DEF Execute, Done1, Put, PutIn
<1>3. CASE x.op = "size"
  BY <1>3 DEF Execute, Done1, Put, PutIn
<1>4. CASE x.op = "inc"
  BY <1>4 DEF Execute, Done1, Put, PutIn, Val, ValIn
<1>5. CASE x.op = "get"
  BY <1>5 DEF Execute, Done1, Put, PutIn, Val, ValIn, Elem, ElemOf
<1>6. CASE x.op = "payload"
  BY <1>6 DEF Execute, Done1, Put, PutIn, Val, ValIn
<1>7. CASE x.op = "next"
  BY <1>7 DEF Execute, Done1, Put, PutIn, Val, ValIn, Elem, ElemOf
<1> QED
  BY <1>1, <1>2, <1>3, <1>4, <1>5, <1>6, <1>7

LEMMA Branches ==
  ASSUME Branch, NEW t, t = Term, t.t \in {"goto", "cond"}
  PROVE  block' = Target(t, store) /\ index' = 1 /\ store' = store
<1>1. index' = 1 /\ store' = store
  BY DEF Branch, JumpTo
<1>2. CASE t.t = "goto"
  BY <1>1, <1>2 DEF Branch, JumpTo, Target
<1>3. CASE t.t = "cond"
  <2>1. block' = Taken(IF t.cond[1] = "ge" THEN Val(t.cond[2]) >= Val(t.cond[3]) ELSE Val(t.cond[2]) = Null)
    BY <1>3 DEF Branch, JumpTo
  <2>2. TestIs(t.cond, store) <=> IF t.cond[1] = "ge" THEN Val(t.cond[2]) >= Val(t.cond[3]) ELSE Val(t.cond[2]) = Null
    BY DEF TestIs, Val, ValIn
  <2> QED
    BY <1>1, <1>3, <2>1, <2>2 DEF Taken, Target
<1>4. t.t = "goto" \/ t.t = "cond"
  OBVIOUS
<1> QED
  BY <1>2, <1>3, <1>4
-----------------------------------------------------------------------------
(***************************************************************************)
(* The simulation, step by step.                                             *)
(***************************************************************************)
StandsAt(P, Q, r, b, i, st, n) ==
  Regular(r) => \/ Arrived(P, r, b, i, st, n)
                \/ ~ Sees(r) /\ \E q \in Q : Goes(r, q, n)
StandAll(P, Q, b, i, st, n) == \A r \in Q : StandsAt(P, Q, r, b, i, st, n)

LEMMA SimIs ==
  ASSUME NEW P
  PROVE  Sim(P) <=> \E Q : Source(todo, env) \in Q /\ StandAll(P, Q, block, index, store, len)
BY DEF Sim, Stands, StandAll, StandsAt

LEMMA SimNext ==
  ASSUME NEW P, NEW Q, NEW r, r = Source(todo, env)', r \in Q,
         NEW b, NEW i, NEW st, NEW n, b = block', i = index', st = store', n = len', StandAll(P, Q, b, i, st, n)
  PROVE  Sim(P)'
<1>1. ASSUME NEW q \in Q
      PROVE  Stands(P, Q, q)'
  BY DEF Stands, StandAll, StandsAt
<1> QED
  BY <1>1 DEF Sim

(* More points, and places where nothing has been done. *)
LEMMA StandsMore ==
  ASSUME NEW P, NEW Q, NEW G, P \subseteq G, NEW b, NEW i, NEW st, NEW n, StandAll(P, Q, b, i, st, n)
  PROVE  StandAll(G, Q, b, i, st, n)
<1>1. \A r : Arrived(P, r, b, i, st, n) => Arrived(G, r, b, i, st, n)
  BY DEF Arrived
<1> QED
  BY <1>1 DEF StandAll, StandsAt

(* The statements alone are there. *)
LEMMA StandsThere ==
  ASSUME NEW P, NEW r, NEW b, NEW i, NEW st, NEW n, Arrived(P, r, b, i, st, n)
  PROVE  StandAll(P, {r}, b, i, st, n)
BY DEF StandAll, StandsAt

(* The machine moves in silence, and the statements keep up. *)
LEMMA StandsOn ==
  ASSUME NEW P, NEW Q, NEW b, NEW i, NEW st, NEW n, StandAll(P, Q, b, i, st, n), NEW c, NEW j, NEW t,
         \A r : Regular(r) /\ Arrived(P, r, b, i, st, n) => Moves(P, r, b, i, st, n) \/ Reaches(P, r, c, j, t, n)
  PROVE  \E G : Q \subseteq G /\ StandAll(P, G, c, j, t, n)
<1>1. PICK A, B, G : /\ A = {r \in States : Arrived(P, r, b, i, st, n)}
                     /\ B = {r \in States : Arrived(P, r, c, j, t, n)}
                     /\ G = Q \cup A \cup B
  OBVIOUS
<1>2. \A r : Arrived(P, r, b, i, st, n) <=> r \in A
  BY <1>1 DEF Arrived
<1>3. \A r : Arrived(P, r, c, j, t, n) <=> r \in B
  BY <1>1 DEF Arrived
<1>4. ASSUME NEW r \in G, Regular(r)
      PROVE  r \in B \/ (~ Sees(r) /\ \E q \in G : Goes(r, q, n))
  <2>1. CASE r \in B
    BY <2>1
  <2>2. CASE r \in A
    <3>1. Moves(P, r, b, i, st, n) \/ Reaches(P, r, c, j, t, n)
      BY <1>2, <1>4, <2>2
    <3>2. CASE Moves(P, r, b, i, st, n)
      <4>1. ~ Sees(r) /\ \E q : Goes(r, q, n) /\ Arrived(P, q, b, i, st, n)
        BY <3>2 DEF Moves
      <4> QED
        BY <1>1, <1>2, <4>1
    <3>3. CASE Arrived(P, r, c, j, t, n)
      BY <1>3, <3>3
    <3>4. CASE Moves(P, r, c, j, t, n)
      <4>1. ~ Sees(r) /\ \E q : Goes(r, q, n) /\ Arrived(P, q, c, j, t, n)
        BY <3>4 DEF Moves
      <4> QED
        BY <1>1, <1>3, <4>1
    <3> QED
      BY <3>1, <3>2, <3>3, <3>4 DEF Reaches
  <2>3. CASE r \in Q
    <3>1. Arrived(P, r, b, i, st, n) \/ (~ Sees(r) /\ \E q \in Q : Goes(r, q, n))
      BY <1>4, <2>3 DEF StandAll, StandsAt
    <3>2. CASE Arrived(P, r, b, i, st, n)
      BY <1>2, <2>2, <3>2
    <3>3. CASE ~ Sees(r) /\ \E q \in Q : Goes(r, q, n)
      BY <1>1, <3>3
    <3> QED
      BY <3>1, <3>2, <3>3
  <2> QED
    BY <1>1, <2>1, <2>2, <2>3
<1>5. StandAll(P, G, c, j, t, n)
  BY <1>3, <1>4 DEF StandAll, StandsAt
<1> QED
  BY <1>1, <1>5

-----------------------------------------------------------------------------
(* Where the statements are when the machine has something to show or is        *)
(* silent.                                                                   *)
SimAt(P, W) == CfgInv /\ len \in Nat /\ Lowering(P, W) /\ Sim(P)

LEMMA ArrivedAt ==
  ASSUME NEW P, NEW r, Arrived(P, r, block, index, store, len)
  PROVE  \E p, Lv : p \in P /\ p.b = block /\ p.i = index /\ At1(p, r, Lv, store, len)
BY DEF Arrived, At1

LEMMA MachineKeepsUp ==
  ASSUME NEW P, NEW W, Lowering(P, W), len \in Nat, MachineSilent, NEW r, Regular(r), Arrived(P, r, block, index, store, len),
         NEW b, b = block', NEW i, i = index', NEW st, st = store'
  PROVE  Moves(P, r, block, index, store, len) \/ Reaches(P, r, b, i, st, len)
<1>1. PICK p, Lv : p \in P /\ p.b = block /\ p.i = index /\ At1(p, r, Lv, store, len)
  BY ArrivedAt
<1>2. Done /\ ~ MachineSees /\ (Execute \/ Branch)
  BY DEF MachineSilent
<1>3. CodeHere(p, P)
  BY <1>1, <1>2, PlaceCode
<1>4. PICK s, n : s = store /\ n = len
  OBVIOUS
<1>5. At1(p, r, Lv, s, n) /\ n \in Nat
  BY <1>1, <1>4
<1>6. CASE Here(p, P)
  <2>1. Moves(P, r, p.b, p.i, s, n)
    BY <1>5, <1>6, HereMoves
  <2> QED
    BY <1>1, <1>4, <2>1
<1>7. CASE InBlock /\ Steps(p, P, Ins)
  <2>1. PICK x : x = Ins
    OBVIOUS
  <2>2. x.op \notin Shown
    BY <1>2, <1>7, <2>1 DEF MachineSees, Shown
  <2>3. Steps(p, P, x)
    BY <1>7, <2>1
  <2>4. x.op \in {"set", "size", "inc", "get", "payload", "next"}
    BY <2>2, <2>3, StepKinds
  <2>5. Execute
    BY <1>2, <1>7 DEF Branch
  <2>6. b = block /\ i = index + 1 /\ st = Done1(x, store, len)
    BY <2>1, <2>4, <2>5, Executes
  <2>7. st = Done1(x, s, n)
    BY <1>4, <2>6
  <2>8. Reaches(P, r, p.b, p.i + 1, st, n)
    BY <1>5, <2>2, <2>3, <2>7, StepReaches
  <2> QED
    BY <1>1, <1>4, <2>6, <2>8
<1>8. CASE ~ InBlock /\ Closes(p, P, Term)
  <2>1. PICK t : t = Term
    OBVIOUS
  <2>2. t.t # "return" /\ (t.t = "cond" => t.cond[1] # "free")
    BY <1>2, <1>8, <2>1 DEF MachineSees
  <2>3. Closes(p, P, t)
    BY <1>8, <2>1
  <2>4. t.t \in {"goto", "cond"}
    BY <2>2, <2>3, CloseKinds
  <2>5. Branch
    BY <1>2, <1>8 DEF Execute
  <2>6. b = Target(t, store) /\ i = 1 /\ st = store
    BY <2>1, <2>4, <2>5, Branches
  <2>7. Reaches(P, r, Target(t, s), 1, s, n)
    BY <1>5, <2>2, <2>3, CloseReaches
  <2> QED
    BY <1>4, <2>6, <2>7
<1> QED
  BY <1>3, <1>6, <1>7, <1>8 DEF CodeHere

(* When both have something to show, the statements are there. *)
LEMMA SourceThere ==
  ASSUME NEW P, NEW W, SimAt(P, W), Disciplined, NEW r, r = Source(todo, env), Sees(r)
  PROVE  Arrived(P, r, block, index, store, len)
<1>1. PICK Q : r \in Q /\ StandAll(P, Q, block, index, store, len)
  BY SimIs DEF SimAt
<1>2. Regular(r)
  BY DEF Disciplined
<1> QED
  BY <1>1, <1>2 DEF StandAll, StandsAt
LEMMA SilentKeeps ==
  ASSUME NEW P, NEW W, SimAt(P, W), MachineSilent
  PROVE  Sim(P)'
<1>1. PICK r, Q : r = Source(todo, env) /\ r \in Q /\ StandAll(P, Q, block, index, store, len)
  BY SimIs DEF SimAt
<1>2. PICK b, i, st, n : b = block' /\ i = index' /\ st = store' /\ n = len
  OBVIOUS
<1>3. n = len' /\ r = Source(todo, env)'
  BY <1>1, <1>2 DEF MachineSilent, Source
<1>4. PICK b0, i0, s0 : b0 = block /\ i0 = index /\ s0 = store
  OBVIOUS
<1>5. \A q : Regular(q) /\ Arrived(P, q, b0, i0, s0, n) => Moves(P, q, b0, i0, s0, n) \/ Reaches(P, q, b, i, st, n)
  BY <1>2, <1>4, MachineKeepsUp DEF SimAt
<1>6. StandAll(P, Q, b0, i0, s0, n)
  BY <1>1, <1>2, <1>4
<1>7. PICK G : Q \subseteq G /\ StandAll(P, G, b, i, st, n)
  BY <1>5, <1>6, StandsOn
<1> QED
  BY <1>1, <1>2, <1>3, <1>7, SimNext

(* A point where the machine has something to show, or is silent on. *)
LEMMA SeenCode ==
  ASSUME NEW P, NEW W, Lowering(P, W), Done, MachineSees, NEW r, Arrived(P, r, block, index, store, len)
  PROVE  \E p, Lv : /\ p \in P /\ p.b = block /\ p.i = index /\ At1(p, r, Lv, store, len)
                    /\ \/ Here(p, P)
                       \/ InBlock /\ Steps(p, P, Ins) /\ Ins.op \in Shown
                       \/ /\ ~ InBlock /\ Closes(p, P, Term) /\ Term.t \in {"return", "cond"}
                          /\ Term.t = "cond" => Term.cond[1] = "free"
<1>1. PICK p, Lv : p \in P /\ p.b = block /\ p.i = index /\ At1(p, r, Lv, store, len)
  BY ArrivedAt
<1>2. CodeHere(p, P)
  BY <1>1, PlaceCode
<1>3. CASE InBlock /\ Steps(p, P, Ins)
  <2>1. Ins.op \in Shown
    BY <1>3 DEF MachineSees, Shown
  <2> QED
    BY <1>1, <1>3, <2>1
<1>4. CASE ~ InBlock /\ Closes(p, P, Term)
  <2>1. PICK t : t = Term
    OBVIOUS
  <2>2. t.t \in {"return", "goto", "cond"}
    BY <1>4, <2>1, CloseKinds
  <2>3. t.t \in {"return", "unreachable"} \/ (t.t = "cond" /\ t.cond[1] = "free")
    BY <1>4, <2>1 DEF MachineSees
  <2>4. t.t \in {"return", "cond"} /\ (t.t = "cond" => t.cond[1] = "free")
    BY <2>2, <2>3
  <2> QED
    BY <1>1, <1>4, <2>1, <2>4
<1> QED
  BY <1>1, <1>2, <1>3, <1>4 DEF CodeHere

LEMMA SourceKeeps ==
  ASSUME NEW P, NEW W, SimAt(P, W), Disciplined, SourceSilent
  PROVE  Sim(P)'
<1>1. PICK r, Q : r = Source(todo, env) /\ r \in Q /\ StandAll(P, Q, block, index, store, len)
  BY SimIs DEF SimAt
<1>2. PICK b, i, st, n : b = block /\ i = index /\ st = store /\ n = len
  OBVIOUS
<1>3. b = block' /\ i = index' /\ st = store' /\ n = len'
  BY <1>2 DEF SourceSilent
<1>4. PICK q : q = Source(todo, env)'
  OBVIOUS
<1>5. Goes(r, q, n)
  BY <1>1, <1>2, <1>4, RunGoes
<1>6. ~ Sees(r)
  BY <1>1, RunTurn DEF SourceSilent
<1>7. StandAll(P, Q, b, i, st, n)
  BY <1>1, <1>2
<1>8. Regular(r)
  BY <1>1 DEF Disciplined
<1>9. CASE Arrived(P, r, block, index, store, len)
  <2>1. PICK p, Lv : /\ p \in P /\ p.b = block /\ p.i = index /\ At1(p, r, Lv, store, len)
                     /\ \/ Here(p, P)
                        \/ InBlock /\ Steps(p, P, Ins) /\ Ins.op \in Shown
                        \/ /\ ~ InBlock /\ Closes(p, P, Term) /\ Term.t \in {"return", "cond"}
                           /\ Term.t = "cond" => Term.cond[1] = "free"
    BY <1>9, SeenCode DEF SimAt, SourceSilent
  <2>2. At1(p, r, Lv, st, n)
    BY <1>2, <2>1
  <2>3. CASE Here(p, P)
    <3>1. Moves(P, r, p.b, p.i, st, n)
      BY <2>2, <2>3, HereMoves
    <3>2. PICK g : Goes(r, g, n) /\ Arrived(P, g, b, i, st, n)
      BY <1>2, <2>1, <3>1 DEF Moves
    <3>3. g = q
      BY <1>5, <3>2, GoesOnce
    <3>4. PICK G : G = {q}
      OBVIOUS
    <3>5. StandAll(P, G, b, i, st, n)
      BY <3>2, <3>3, <3>4, StandsThere
    <3>6. q \in G
      BY <3>4
    <3> QED
      BY <1>3, <1>4, <3>5, <3>6, SimNext
  <2>4. CASE Steps(p, P, Ins) /\ Ins.op \in Shown
    <3>1. PICK x : x = Ins
      OBVIOUS
    <3>2. SameShown(r, x, st)
      BY <1>8, <2>2, <2>4, <3>1, StepShown
    <3>3. Sees(r)
      BY <2>4, <3>1, <3>2 DEF SameShown, Sees, Shown
    <3> QED
      BY <1>6, <3>3
  <2>5. CASE Closes(p, P, Term) /\ Term.t \in {"return", "cond"} /\ (Term.t = "cond" => Term.cond[1] = "free")
    <3>1. PICK t : t = Term
      OBVIOUS
    <3>2. Turn(r).k \in {"return", "if", "while"}
      BY <2>2, <2>5, <3>1, CloseShown
    <3>3. Sees(r)
      BY <3>2 DEF Sees
    <3> QED
      BY <1>6, <3>3
  <2> QED
    BY <2>1, <2>3, <2>4, <2>5
<1>10. CASE ~ Sees(r) /\ \E g \in Q : Goes(r, g, n)
  <2>1. PICK g \in Q : Goes(r, g, n)
    BY <1>10
  <2>2. g = q
    BY <1>5, <2>1, GoesOnce
  <2> QED
    BY <1>3, <1>4, <1>7, <2>1, <2>2, SimNext
<1>11. Arrived(P, r, b, i, st, n) \/ (~ Sees(r) /\ \E g \in Q : Goes(r, g, n))
  BY <1>1, <1>7, <1>8 DEF StandAll, StandsAt
<1> QED
  BY <1>2, <1>9, <1>10, <1>11

(* Where both have something to show. *)
BothShow(p, P) ==
  \/ InBlock /\ Steps(p, P, Ins) /\ Ins.op \in Shown
  \/ /\ ~ InBlock /\ Closes(p, P, Term) /\ Term.t \in {"return", "cond"}
     /\ Term.t = "cond" => Term.cond[1] = "free"

LEMMA MeetAt ==
  ASSUME NEW P, NEW W, SimAt(P, W), Disciplined, Meet, NEW r, r = Source(todo, env)
  PROVE  /\ \E p, Lv : p \in P /\ p.b = block /\ p.i = index /\ At1(p, r, Lv, store, len) /\ BothShow(p, P)
         /\ Regular(r) /\ r.todo = todo /\ r.env = env /\ Turn(r) = T
<1>1. r.todo = todo /\ r.env = env /\ Turn(r) = T /\ Sees(r)
  BY RunTurn DEF Meet
<1>2. Arrived(P, r, block, index, store, len)
  BY <1>1, SourceThere
<1>3. PICK p, Lv : /\ p \in P /\ p.b = block /\ p.i = index /\ At1(p, r, Lv, store, len)
                   /\ \/ Here(p, P)
                      \/ InBlock /\ Steps(p, P, Ins) /\ Ins.op \in Shown
                      \/ /\ ~ InBlock /\ Closes(p, P, Term) /\ Term.t \in {"return", "cond"}
                         /\ Term.t = "cond" => Term.cond[1] = "free"
  BY <1>2, SeenCode DEF SimAt, Meet
<1>4. ~ Here(p, P)
  <2>1. PICK st, n : st = store /\ n = len
    OBVIOUS
  <2>2. Here(p, P) => Moves(P, r, p.b, p.i, st, n)
    BY <1>3, <2>1, HereMoves
  <2> QED
    BY <1>1, <2>2 DEF Moves
<1>5. BothShow(p, P)
  BY <1>3, <1>4 DEF BothShow
<1> QED
  BY <1>1, <1>3, <1>5 DEF Disciplined

LEMMA SameEvents ==
  ASSUME NEW P, NEW W, SimAt(P, W), Disciplined
  PROVE  SameBehaviour
<1> SUFFICES ASSUME Meet
             PROVE  MachineEvent = SourceEvent
  BY DEF SameBehaviour
<1>1. PICK r : r = Source(todo, env)
  OBVIOUS
<1>2. PICK p, Lv : p \in P /\ p.b = block /\ p.i = index /\ At1(p, r, Lv, store, len) /\ BothShow(p, P)
  BY <1>1, MeetAt
<1>3. Regular(r) /\ r.todo = todo /\ r.env = env /\ Turn(r) = T
  BY <1>1, MeetAt
<1>4. PICK st, n : st = store /\ n = len
  OBVIOUS
<1>5. At1(p, r, Lv, st, n)
  BY <1>2, <1>4
<1>6. CASE InBlock /\ Steps(p, P, Ins) /\ Ins.op \in Shown
  <2>1. PICK x : x = Ins
    OBVIOUS
  <2>2. SameShown(r, x, st)
    BY <1>3, <1>5, <1>6, <2>1, StepShown
  <2>3. /\ T.k = x.op /\ (x.op = "act" => x.val = T.val)
        /\ x.op = "use" => Val(x.src) = env[Innermost(T.name)][T.name]
    BY <1>3, <1>4, <2>2 DEF SameShown, Val, ValIn, Innermost, Newest
  <2>4. CASE x.op = "act"
    BY <1>6, <2>1, <2>3, <2>4 DEF MachineEvent, SourceEvent
  <2>5. CASE x.op = "use"
    BY <1>6, <2>1, <2>3, <2>5 DEF MachineEvent, SourceEvent
  <2>6. CASE x.op = "drop"
    BY <1>6, <2>1, <2>3, <2>6 DEF MachineEvent, SourceEvent
  <2> QED
    BY <1>6, <2>1, <2>4, <2>5, <2>6 DEF Shown
<1>7. CASE /\ ~ InBlock /\ Closes(p, P, Term) /\ Term.t \in {"return", "cond"}
           /\ Term.t = "cond" => Term.cond[1] = "free"
  <2>1. PICK t : t = Term
    OBVIOUS
  <2>2. t.t = "return" => Turn(r).k = "return" /\ t.val = Turn(r).val
    BY <1>5, <1>7, <2>1, CloseShown
  <2>3. t.t = "cond" => Turn(r).k \in {"if", "while"}
    BY <1>5, <1>7, <2>1, CloseShown
  <2>4. CASE t.t = "return"
    BY <1>3, <1>7, <2>1, <2>2, <2>4 DEF MachineEvent, SourceEvent
  <2>5. CASE t.t = "cond"
    BY <1>3, <1>7, <2>1, <2>3, <2>5 DEF MachineEvent, SourceEvent
  <2> QED
    BY <1>7, <2>1, <2>4, <2>5
<1> QED
  BY <1>2, <1>6, <1>7 DEF BothShow
LEMMA ShowKeeps ==
  ASSUME NEW P, NEW W, SimAt(P, W), Disciplined, Show
  PROVE  Sim(P)' /\ len' \in Nat
<1>1. Meet /\ MachineEvent[1] \in {"act", "use", "drop"}
  BY DEF Show, Same
<1>2. PICK r : r = Source(todo, env)
  OBVIOUS
<1>3. PICK p, Lv : p \in P /\ p.b = block /\ p.i = index /\ At1(p, r, Lv, store, len) /\ BothShow(p, P)
  BY <1>1, <1>2, MeetAt
<1>4. Regular(r) /\ r.todo = todo /\ r.env = env
  BY <1>1, <1>2, MeetAt
<1>5. PICK b, i, st, n, m, q : /\ b = block /\ i = index' /\ st = store /\ n = len /\ m = len'
                               /\ q = Source(Tail(todo), env)
  OBVIOUS
<1>6. b = block' /\ st = store' /\ i = index + 1 /\ q = Source(todo, env)'
  BY <1>5 DEF Show, Source
<1>7. At1(p, r, Lv, st, n)
  BY <1>3, <1>5
<1>8. InBlock /\ Steps(p, P, Ins) /\ Ins.op \in Shown
  <2>1. ASSUME ~ InBlock, Term.t \in {"return", "cond"}
        PROVE  MachineEvent[1] \notin {"act", "use", "drop"}
    <3>1. CASE Term.t = "return"
      <4>1. MachineEvent = <<"return", Term.val>>
        BY <2>1, <3>1 DEF MachineEvent
      <4> QED
        BY <4>1
    <3>2. CASE Term.t = "cond"
      <4>1. MachineEvent = <<"cond">>
        BY <2>1, <3>2 DEF MachineEvent
      <4> QED
        BY <4>1
    <3> QED
      BY <2>1, <3>1, <3>2
  <2> QED
    BY <1>1, <1>3, <2>1 DEF BothShow
<1>9. PICK x : x = Ins
  OBVIOUS
<1>10. MachineEvent[1] = x.op
  <2>1. CASE x.op = "act"
    <3>1. MachineEvent = <<"act", Ins.val>>
      BY <1>8, <1>9, <2>1 DEF MachineEvent
    <3> QED
      BY <2>1, <3>1
  <2>2. CASE x.op = "use"
    <3>1. MachineEvent = <<"use", Val(Ins.src)>>
      BY <1>8, <1>9, <2>2 DEF MachineEvent
    <3> QED
      BY <2>2, <3>1
  <2>3. CASE x.op = "drop"
    <3>1. MachineEvent = <<"drop">>
      BY <1>8, <1>9, <2>3 DEF MachineEvent
    <3> QED
      BY <2>3, <3>1
  <2> QED
    BY <1>8, <1>9, <2>1, <2>2, <2>3 DEF Shown
<1>11. m = IF x.op = "drop" /\ n > 0 THEN n - 1 ELSE n
  BY <1>5, <1>10 DEF Show
<1>12. m \in Nat /\ (x.op # "drop" => m = n)
  BY <1>5, <1>11 DEF SimAt
<1>13. Arrived(P, Source(Tail(r.todo), r.env), p.b, p.i + 1, st, m)
  BY <1>4, <1>7, <1>8, <1>9, <1>12, StepShown
<1>14. Arrived(P, q, b, i, st, m)
  BY <1>3, <1>4, <1>5, <1>6, <1>13
<1>15. PICK G : G = {q}
  OBVIOUS
<1>16. StandAll(P, G, b, i, st, m) /\ q \in G
  BY <1>14, <1>15, StandsThere
<1>17. Sim(P)'
  BY <1>5, <1>6, <1>16, SimNext
<1> QED
  BY <1>5, <1>12, <1>17

LEMMA DecideKeeps ==
  ASSUME NEW P, NEW W, SimAt(P, W), Disciplined, NEW c \in BOOLEAN, Decide(c)
  PROVE  Sim(P)'
<1>1. Meet /\ MachineEvent[1] = "cond"
  BY DEF Decide, Same
<1>2. PICK r : r = Source(todo, env)
  OBVIOUS
<1>3. PICK p, Lv : p \in P /\ p.b = block /\ p.i = index /\ At1(p, r, Lv, store, len) /\ BothShow(p, P)
  BY <1>1, <1>2, MeetAt
<1>4. r.todo = todo /\ r.env = env /\ Turn(r) = T
  BY <1>1, <1>2, MeetAt
<1>5. PICK b, i, st, n, q : b = block' /\ i = 1 /\ st = store /\ n = len /\ q = Source(todo', env')
  OBVIOUS
<1>6. i = index' /\ st = store' /\ n = len' /\ q = Source(todo, env)'
  BY <1>5 DEF Decide, JumpTo, Source
<1>7. At1(p, r, Lv, st, n)
  BY <1>3, <1>5
<1>8. /\ ~ InBlock /\ Closes(p, P, Term) /\ Term.t = "cond" /\ Term.cond[1] = "free"
  <2>1. ASSUME InBlock, Ins.op \in Shown
        PROVE  MachineEvent[1] # "cond"
    <3>1. CASE Ins.op = "act"
      <4>1. MachineEvent = <<"act", Ins.val>>
        BY <2>1, <3>1 DEF MachineEvent
      <4> QED
        BY <4>1
    <3>2. CASE Ins.op = "use"
      <4>1. MachineEvent = <<"use", Val(Ins.src)>>
        BY <2>1, <3>2 DEF MachineEvent
      <4> QED
        BY <4>1
    <3>3. CASE Ins.op = "drop"
      <4>1. MachineEvent = <<"drop">>
        BY <2>1, <3>3 DEF MachineEvent
      <4> QED
        BY <4>1
    <3> QED
      BY <2>1, <3>1, <3>2, <3>3 DEF Shown
  <2>2. ASSUME ~ InBlock, Term.t = "return"
        PROVE  MachineEvent[1] # "cond"
    <3>1. MachineEvent = <<"return", Term.val>>
      BY <2>2 DEF MachineEvent
    <3> QED
      BY <3>1
  <2> QED
    BY <1>1, <1>3, <2>1, <2>2 DEF BothShow
<1>9. PICK t : t = Term
  OBVIOUS
<1>10. b = IF c THEN t.yes ELSE t.no
  BY <1>5, <1>9 DEF Decide, JumpTo, Taken
<1>11. \A d \in BOOLEAN : Arrived(P, Source(After(r, d), r.env), IF d THEN t.yes ELSE t.no, 1, st, n)
  BY <1>7, <1>8, <1>9, CloseShown
<1>12. Arrived(P, Source(After(r, c), r.env), b, i, st, n)
  BY <1>5, <1>10, <1>11
<1>13. todo' = After(r, c) /\ env' = r.env
  BY <1>4 DEF Decide, After
<1>14. Arrived(P, q, b, i, st, n)
  BY <1>5, <1>12, <1>13
<1>15. PICK G : G = {q}
  OBVIOUS
<1>16. StandAll(P, G, b, i, st, n) /\ q \in G
  BY <1>14, <1>15, StandsThere
<1> QED
  BY <1>5, <1>6, <1>16, SimNext

(* Nothing moves. *)
LEMMA StillThere ==
  ASSUME NEW P, Sim(P), UNCHANGED <<block, index, store, todo, env, len>>
  PROVE  Sim(P)'
<1>1. PICK r, Q : r = Source(todo, env) /\ r \in Q /\ StandAll(P, Q, block, index, store, len)
  BY SimIs
<1>2. PICK b, i, st, n : b = block /\ i = index /\ st = store /\ n = len
  OBVIOUS
<1>3. b = block' /\ i = index' /\ st = store' /\ n = len' /\ r = Source(todo, env)'
  BY <1>1, <1>2 DEF Source
<1>4. StandAll(P, Q, b, i, st, n)
  BY <1>1, <1>2
<1> QED
  BY <1>1, <1>3, <1>4, SimNext

LEMMA SimMore ==
  ASSUME NEW P, NEW Q, P \subseteq Q, Sim(P)'
  PROVE  Sim(Q)'
<1>1. \A r, b, i, st, n : Arrived(P, r, b, i, st, n) => Arrived(Q, r, b, i, st, n)
  BY DEF Arrived
<1>2. PICK G : Source(todo, env)' \in G /\ \A r \in G : Stands(P, G, r)'
  BY DEF Sim
<1>3. ASSUME NEW r \in G
      PROVE  Stands(Q, G, r)'
  BY <1>1, <1>2, <1>3 DEF Stands
<1> QED
  BY <1>2, <1>3 DEF Sim
LEMMA RunKeeps ==
  ASSUME NEW P, NEW W, SimAt(P, W), Disciplined, [RunNext]_both
  PROVE  Sim(P)' /\ len' \in Nat /\ [Next]_vars
<1>1. CfgInv /\ len \in Nat /\ Sim(P)
  BY DEF SimAt
<1>2. CASE Lower \/ Halt \/ UNCHANGED both
  <2>1. UNCHANGED <<block, index, store, todo, env, len>> /\ [Next]_vars
    BY <1>2 DEF Lower, Halt, both, run
  <2>2. Sim(P)'
    BY <1>1, <2>1, StillThere
  <2> QED
    BY <1>1, <2>1, <2>2
<1>3. CASE MachineSilent
  <2>1. len' = len /\ UNCHANGED vars
    BY <1>3 DEF MachineSilent
  <2> QED
    BY <1>1, <1>3, <2>1, SilentKeeps
<1>4. CASE SourceSilent
  <2>1. len' = len /\ UNCHANGED vars
    BY <1>4 DEF SourceSilent
  <2> QED
    BY <1>1, <1>4, <2>1, SourceKeeps
<1>5. CASE Show
  <2>1. UNCHANGED vars
    BY <1>5 DEF Show
  <2> QED
    BY <1>5, <2>1, ShowKeeps
<1>6. CASE \E c \in BOOLEAN : Decide(c)
  <2>1. len' = len /\ UNCHANGED vars
    BY <1>6 DEF Decide
  <2>2. Sim(P)'
    BY <1>6, DecideKeeps
  <2> QED
    BY <1>1, <2>1, <2>2
<1> QED
  BY <1>2, <1>3, <1>4, <1>5, <1>6 DEF RunNext

(* The inductive invariant: the blocks have the code of some points, and the    *)
(* statements are where the machine is.                                     *)
SimInv == CfgInv /\ len \in Nat /\ \E P, W : Lowering(P, W) /\ Sim(P)

LEMMA SimStep ==
  ASSUME SimInv, Disciplined, [RunNext]_both
  PROVE  SimInv'
<1>1. PICK P, W : Lowering(P, W) /\ Sim(P)
  BY DEF SimInv
<1>2. SimAt(P, W)
  BY <1>1 DEF SimInv, SimAt
<1>3. Sim(P)' /\ len' \in Nat /\ [Next]_vars
  BY <1>2, RunKeeps
<1>4. CfgInv'
  <2>1. CASE Next
    BY <2>1, NextCfg DEF SimInv
  <2>2. CASE UNCHANGED vars
    BY <2>2, StutterCfg DEF SimInv
  <2> QED
    BY <1>3, <2>1, <2>2
<1>5. PICK Q, V : P \subseteq Q /\ Lowering(Q, V)'
  BY <1>1, <1>3, NextLowers DEF SimInv
<1>6. Sim(Q)'
  BY <1>3, <1>5, SimMore
<1> QED
  BY <1>3, <1>4, <1>5, <1>6 DEF SimInv

LEMMA NothingMatches ==
  ASSUME NEW sc, NEW en, NEW st, NEW n, AnySeq(sc), AnySeq(en), Len(sc) = 1, Len(en) = 1,
         DOMAIN sc[1] = {Param}, DOMAIN en[1] = {Param}, IsFrame(en[1]), Holds(st, sc[1][Param], en[1][Param]),
         NEW Lv, Lv = << 1 >>
  PROVE  Matches(<<>>, sc, <<>>, en, Lv, st, n)
<1>1. PICK c, L : c = <<>> /\ L = Len(c)
  OBVIOUS
<1>2. AnySeq(c) /\ L = 0
  BY <1>1 DEF AnySeq
<1>3. ItemsMatch(c, c, st, n)
  BY <1>1, <1>2 DEF ItemsMatch
<1>4. Depth(c, L) = 1
  BY <1>2, DepthStep
<1>5. AnySeq(Lv) /\ Len(Lv) = 1 /\ Lv[1] = 1
  BY OneItem
<1>6. Levels(c, sc, en, Lv)
  BY <1>1, <1>4, <1>5 DEF Levels
<1>7. Steep(c, Lv)
  BY <1>1, <1>2 DEF Steep
<1>8. Names(sc, en, Lv, st)
  BY <1>5 DEF Names
<1>9. Apart(c, sc)
  BY <1>1, <1>2 DEF Apart
<1>10. Places(c, sc, en, Lv)
  BY <1>1, <1>2 DEF Places
<1>11. Matches(c, sc, c, en, Lv, st, n)
  BY <1>3, <1>6, <1>7, <1>8, <1>9, <1>10, MatchesBy
<1> QED
  BY <1>1, <1>11

LEMMA SimFirst ==
  ASSUME InitRun
  PROVE  SimInv
<1>1. /\ Init /\ block = 1 /\ index = 1 /\ store = [l \in {0} |-> 5] /\ todo = agenda
      /\ env = <<[x \in {Param} |-> 5]>> /\ len = Size
  BY DEF InitRun
<1>2. CfgInv /\ len \in Nat
  BY <1>1, InitCfg, SizeAssumption
<1>3. PICK P, W : P = {Point(1, 1, agenda, scope)} /\ Lowering(P, W)
  BY <1>1, FirstLowers
<1>4. PICK body \in Seq(Stmt) : agenda = <<Block(body)>>
  BY <1>1, BodiesAssumption DEF Init, Block
<1>5. PICK sc, en, st, n, td, r : /\ sc = scope /\ en = env /\ st = store /\ n = len /\ td = agenda
                                  /\ r = Source(td, en)
  OBVIOUS
<1>6. PICK f, g : f = [x \in {Param} |-> 0] /\ g = [x \in {Param} |-> 5]
  OBVIOUS
<1>7. sc = <<f>> /\ en = <<g>>
  BY <1>1, <1>5, <1>6 DEF Init
<1>8. AnySeq(sc) /\ AnySeq(en) /\ Len(sc) = 1 /\ Len(en) = 1 /\ sc[1] = f /\ en[1] = g
  BY <1>7, OneItem
<1>9. DOMAIN f = {Param} /\ DOMAIN g = {Param} /\ f[Param] = 0 /\ g[Param] = 5
  BY <1>6
<1>10. IsFrame(g)
  BY <1>6, BodiesAssumption DEF IsFrame
<1>11. Holds(st, 0, 5)
  BY <1>1, <1>5 DEF Holds
<1>12. PICK Lv : Lv = << 1 >>
  OBVIOUS
<1>13. Matches(<<>>, sc, <<>>, en, Lv, st, n)
  BY <1>8, <1>9, <1>10, <1>11, <1>12, NothingMatches
<1>14. PICK c : c = <<>>
  OBVIOUS
<1>15. Matches(c, sc, c, en, Lv, st, n) /\ Settled(c)
  BY <1>13, <1>14 DEF Settled
<1>16. Matches(<<Block(body)>> \o c, sc, <<Block(body)>> \o c, en, Lv, st, n)
  BY <1>15, BlockInFront
<1>17. <<Block(body)>> \o c = td
  BY <1>4, <1>5, <1>14
<1>18. Matches(td, sc, td, en, Lv, st, n)
  BY <1>16, <1>17
<1>19. Point(1, 1, td, sc) \in P
  BY <1>3, <1>5
<1>20. Arrived(P, r, 1, 1, st, n)
  BY <1>5, <1>18, <1>19, Arrives
<1>21. StandAll(P, {r}, 1, 1, st, n)
  BY <1>20, StandsThere
<1>22. PICK G : G = {r}
  OBVIOUS
<1>23. Source(todo, env) \in G /\ StandAll(P, G, block, index, store, len)
  BY <1>1, <1>5, <1>21, <1>22
<1>24. Sim(P)
  BY <1>23, SimIs
<1> QED
  BY <1>2, <1>3, <1>24 DEF SimInv

(* The blocks do what the statements say: whatever the body, the loops, the     *)
(* jumps and the outcomes of the conditions, the machine that runs the blocks   *)
(* shows the same events in the same order as the statements do, as long as     *)
(* those keep to what is asked of them.                                     *)
THEOREM LoweringPreservesBehaviour == RunSpec /\ []Disciplined => []SameBehaviour
<1>1. SimInv /\ Disciplined /\ [RunNext]_both => SimInv'
  BY SimStep
<1>2. SimInv /\ Disciplined => SameBehaviour
  <2> SUFFICES ASSUME SimInv, Disciplined
               PROVE  SameBehaviour
    OBVIOUS
  <2>1. PICK P, W : Lowering(P, W) /\ Sim(P)
    BY DEF SimInv
  <2>2. SimAt(P, W)
    BY <2>1 DEF SimInv, SimAt
  <2> QED
    BY <2>2, SameEvents
<1>3. InitRun => SimInv
  BY SimFirst
<1> QED
  BY <1>1, <1>2, <1>3, PTL DEF RunSpec
=============================================================================
