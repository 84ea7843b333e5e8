---------------------------- MODULE SeqSiftProofs -----------------------------
(***************************************************************************)
(* What Picked returns, for every sequence and set of positions.             *)
(***************************************************************************)
EXTENDS SeqSift, SequencesExt, SequenceTheorems, FiniteSetTheorems, TLAPS

LEMMA RankOrder ==
  ASSUME NEW n \in Nat, NEW I \in SUBSET (1 .. n)
  PROVE  /\ IsFiniteSet(I) /\ Cardinality(I) \in Nat
         /\ \A k \in I : Rank(I, k) \in 1 .. Cardinality(I)
         /\ \A j, k \in I : Rank(I, j) = Rank(I, k) => j = k
<1>1. IsFiniteSet(1 .. n)
  BY FS_Interval
<1>2. IsFiniteSet(I)
  BY <1>1, FS_Subset
<1>3. Cardinality(I) \in Nat
  BY <1>2, FS_CardinalityType
<1>4. \A k : IsFiniteSet({j \in I : j <= k}) /\ Rank(I, k) <= Cardinality(I)
  BY <1>2, FS_Subset DEF Rank
<1>5. \A k : Rank(I, k) \in Nat
  BY <1>4, FS_CardinalityType DEF Rank
<1>6. ASSUME NEW k \in I
      PROVE  Rank(I, k) # 0
  <2>1. k \in {j \in I : j <= k}
    OBVIOUS
  <2> QED
    BY <1>4, <2>1, FS_EmptySet DEF Rank
<1>7. ASSUME NEW j \in I, NEW k \in I, j < k
      PROVE  Rank(I, j) # Rank(I, k)
  <2>1. /\ I \subseteq Nat /\ j \in Nat /\ k \in Nat
        /\ \A i \in I : i <= j => i <= k
        /\ k <= k /\ ~ (k <= j)
    BY <1>7
  <2>2. {i \in I : i <= j} \subseteq {i \in I : i <= k}
    BY <2>1
  <2>3. k \in {i \in I : i <= k} /\ k \notin {i \in I : i <= j}
    BY <2>1
  <2> QED
    BY <1>4, <2>2, <2>3, FS_Subset DEF Rank
<1>8. \A j, k \in I : j < k \/ k < j \/ j = k
  OBVIOUS
<1>9. ASSUME NEW k \in I
      PROVE  Rank(I, k) \in 1 .. Cardinality(I)
  <2>1. Rank(I, k) <= Cardinality(I)
    BY <1>4
  <2> QED
    BY <1>3, <1>5, <1>6, <2>1
<1> QED
  BY <1>2, <1>3, <1>7, <1>8, <1>9

(* Every position of I has its place, and no two places the same position. *)
LEMMA Positions ==
  ASSUME NEW n \in Nat, NEW I \in SUBSET (1 .. n)
  PROVE  /\ \A p \in 1 .. Cardinality(I) : Position(I, p) \in I /\ Rank(I, Position(I, p)) = p
         /\ \A k \in I : Rank(I, k) \in 1 .. Cardinality(I) /\ Position(I, Rank(I, k)) = k
<1> DEFINE r == [k \in I |-> Rank(I, k)]
           T == 1 .. Cardinality(I)
<1>1. /\ IsFiniteSet(I) /\ Cardinality(I) \in Nat
      /\ \A k \in I : Rank(I, k) \in T
      /\ \A j, k \in I : Rank(I, j) = Rank(I, k) => j = k
  BY RankOrder
<1>2. r \in Injection(I, T)
  BY <1>1 DEF Injection, IsInjective
<1>3. IsFiniteSet(T) /\ Cardinality(T) = Cardinality(I)
  BY <1>1, FS_Interval
<1>4. r \in Surjection(I, T)
  BY <1>2, <1>3, FS_Injection
<1>5. \A p \in T : \E k \in I : Rank(I, k) = p
  BY <1>4 DEF Surjection
<1> QED
  BY <1>1, <1>5 DEF Position

(***************************************************************************)
(* Picked has one element for each position it was given, and that element.  *)
(***************************************************************************)
LEMMA PickedShape ==
  ASSUME NEW T, NEW s \in Seq(T), NEW I \in SUBSET DOMAIN s
  PROVE  /\ Picked(s, I) \in Seq(T)
         /\ \A p \in DOMAIN Picked(s, I) :
              Position(I, p) \in I /\ Picked(s, I)[p] = s[Position(I, p)]
         /\ \A p, q \in DOMAIN Picked(s, I) : Position(I, p) = Position(I, q) => p = q
         /\ \A k \in I : \E p \in DOMAIN Picked(s, I) : Position(I, p) = k
<1>1. Len(s) \in Nat /\ DOMAIN s = 1 .. Len(s) /\ \A k \in DOMAIN s : s[k] \in T
  BY LenProperties, ElementOfSeq
<1>2. Cardinality(I) \in Nat
  BY <1>1, RankOrder
<1>3. DOMAIN Picked(s, I) = 1 .. Cardinality(I)
  BY DEF Picked
<1>4. /\ \A p \in 1 .. Cardinality(I) : Position(I, p) \in I /\ Rank(I, Position(I, p)) = p
      /\ \A k \in I : Rank(I, k) \in 1 .. Cardinality(I) /\ Position(I, Rank(I, k)) = k
  BY <1>1, Positions
<1>5. \A p \in 1 .. Cardinality(I) : Picked(s, I)[p] = s[Position(I, p)]
  BY DEF Picked
<1>6. Picked(s, I) \in [1 .. Cardinality(I) -> T]
  BY <1>1, <1>4 DEF Picked
<1>7. Picked(s, I) \in Seq(T)
  BY <1>2, <1>6, SeqDef
<1> QED
  BY <1>3, <1>4, <1>5, <1>7

-----------------------------------------------------------------------------
(***************************************************************************)
(* t consists of the elements of s at the positions I, each of them once: all *)
(* that the proofs need of a list from which a loop has taken elements.       *)
(***************************************************************************)
PicksOut(t, s, I) ==
  \E f \in [DOMAIN t -> I] :
    /\ \A p \in DOMAIN t : t[p] = s[f[p]]
    /\ \A p, q \in DOMAIN t : f[p] = f[q] => p = q
    /\ \A k \in I : \E p \in DOMAIN t : f[p] = k

LEMMA PickedPicksOut ==
  ASSUME NEW T, NEW s \in Seq(T), NEW I \in SUBSET DOMAIN s
  PROVE  Picked(s, I) \in Seq(T) /\ PicksOut(Picked(s, I), s, I)
<1> DEFINE t == Picked(s, I)
           f == [p \in DOMAIN t |-> Position(I, p)]
<1>1. /\ t \in Seq(T)
      /\ \A p \in DOMAIN t : Position(I, p) \in I /\ t[p] = s[Position(I, p)]
      /\ \A p, q \in DOMAIN t : Position(I, p) = Position(I, q) => p = q
      /\ \A k \in I : \E p \in DOMAIN t : Position(I, p) = k
  BY PickedShape
<1> HIDE DEF t
<1>2. f \in [DOMAIN t -> I] /\ \A p \in DOMAIN t : f[p] = Position(I, p)
  BY <1>1
<1> HIDE DEF f
<1>3. PicksOut(t, s, I)
  BY <1>1, <1>2, SMTT(30) DEF PicksOut
<1> QED
  BY <1>1, <1>3 DEF t

LEMMA TailPicksOut ==
  ASSUME NEW T, NEW s \in Seq(T), s # <<>>
  PROVE  Tail(s) \in Seq(T) /\ PicksOut(Tail(s), s, DOMAIN s \ {1})
<1> DEFINE t == Tail(s)
           f == [p \in DOMAIN t |-> p + 1]
<1>1. /\ t \in Seq(T) /\ Len(s) \in Nat \ {0} /\ DOMAIN s = 1 .. Len(s)
      /\ DOMAIN t = 1 .. Len(s) - 1 /\ \A p \in DOMAIN t : t[p] = s[p + 1]
  BY HeadTailProperties, LenProperties, EmptySeq
<1> HIDE DEF t
<1>2. \A p \in DOMAIN t : p + 1 \in DOMAIN s \ {1}
  BY <1>1
<1>3. f \in [DOMAIN t -> DOMAIN s \ {1}] /\ \A p \in DOMAIN t : f[p] = p + 1
  BY <1>2
<1> HIDE DEF f
<1>4. \A p, q \in DOMAIN t : f[p] = f[q] => p = q
  BY <1>1, <1>3
<1>5. \A k \in DOMAIN s \ {1} : k - 1 \in DOMAIN t /\ f[k - 1] = k
  BY <1>1, <1>3
<1>6. PicksOut(t, s, DOMAIN s \ {1})
  <2>1. \A p \in DOMAIN t : t[p] = s[f[p]]
    BY <1>1, <1>3
  <2>2. \A k \in DOMAIN s \ {1} : \E p \in DOMAIN t : f[p] = k
    BY <1>5
  <2>3. f \in [DOMAIN t -> DOMAIN s \ {1}]
    BY <1>3
  <2> QED
    BY ONLY <1>4, <2>1, <2>2, <2>3 DEF PicksOut
<1> QED
  BY <1>1, <1>6 DEF t

LEMMA RemoveAtPicksOut ==
  ASSUME NEW T, NEW s \in Seq(T), NEW i \in DOMAIN s
  PROVE  RemoveAt(s, i) \in Seq(T) /\ PicksOut(RemoveAt(s, i), s, DOMAIN s \ {i})
<1> DEFINE n == Len(s)
           a == SubSeq(s, 1, i - 1)
           b == SubSeq(s, i + 1, n)
           t == RemoveAt(s, i)
           f == [p \in DOMAIN t |-> IF p < i THEN p ELSE p + 1]
<1>1. /\ n \in Nat /\ DOMAIN s = 1 .. n /\ i \in 1 .. n
      /\ \A k \in 1 .. n : s[k] \in T
  BY LenProperties, ElementOfSeq
<1> HIDE DEF n
<1>2. /\ a \in Seq(T) /\ Len(a) = i - 1 /\ \A p \in 1 .. i - 1 : a[p] = s[p]
  <2>1. \A k \in 1 .. i - 1 : s[k] \in T
    BY <1>1
  <2>2. i - 1 \in Int
    BY <1>1
  <2>3. /\ a \in Seq(T) /\ Len(a) = (IF 1 <= i - 1 THEN i - 1 - 1 + 1 ELSE 0)
        /\ \A p \in 1 .. i - 1 - 1 + 1 : a[p] = s[1 + p - 1]
    BY <2>1, <2>2, SubSeqProperties
  <2> QED
    BY <1>1, <2>3
<1>3. /\ b \in Seq(T) /\ Len(b) = n - i /\ \A p \in 1 .. n - i : b[p] = s[i + p]
  <2>1. \A k \in i + 1 .. n : s[k] \in T
    BY <1>1
  <2>2. i + 1 \in Int /\ n \in Int
    BY <1>1
  <2>3. /\ b \in Seq(T) /\ Len(b) = (IF i + 1 <= n THEN n - (i + 1) + 1 ELSE 0)
        /\ \A p \in 1 .. n - (i + 1) + 1 : b[p] = s[i + 1 + p - 1]
    BY <2>1, <2>2, SubSeqProperties
  <2> QED
    BY <1>1, <2>3
<1>4. t = a \o b
  BY DEF RemoveAt, n
<1> HIDE DEF a, b, t
<1>5. /\ t \in Seq(T) /\ Len(t) = n - 1
      /\ \A p \in 1 .. i - 1 : t[p] = a[p]
      /\ \A p \in 1 .. n - i : t[i - 1 + p] = b[p]
  <2>1. /\ a \o b \in Seq(T) /\ Len(a \o b) = Len(a) + Len(b)
        /\ \A p \in 1 .. Len(a) : (a \o b)[p] = a[p]
        /\ \A p \in 1 .. Len(b) : (a \o b)[Len(a) + p] = b[p]
    <3>1. a \in Seq(T) /\ b \in Seq(T)
      BY <1>2, <1>3
    <3> QED
      BY <3>1, ConcatProperties
  <2> QED
    BY <1>1, <1>2, <1>3, <1>4, <2>1, SMTT(30)
<1>6. DOMAIN t = 1 .. n - 1
  BY <1>1, <1>5, LenProperties
<1>7. ASSUME NEW p \in 1 .. n - 1
      PROVE  t[p] = s[IF p < i THEN p ELSE p + 1]
  <2>1. CASE p < i
    <3>1. p \in 1 .. i - 1
      BY <1>1, <2>1
    <3>2. t[p] = s[p]
      BY <1>2, <1>5, <3>1
    <3> QED
      BY <2>1, <3>2
  <2>2. CASE ~ (p < i)
    <3>1. p - i + 1 \in 1 .. n - i /\ i - 1 + (p - i + 1) = p /\ i + (p - i + 1) = p + 1
      BY <1>1, <2>2
    <3>2. t[i - 1 + (p - i + 1)] = s[i + (p - i + 1)]
      BY <1>3, <1>5, <3>1
    <3> QED
      BY <2>2, <3>1, <3>2
  <2> QED
    BY <2>1, <2>2
<1>8. \A p \in 1 .. n - 1 : (IF p < i THEN p ELSE p + 1) \in DOMAIN s \ {i}
  BY <1>1
<1>9. /\ f \in [DOMAIN t -> DOMAIN s \ {i}]
      /\ \A p \in 1 .. n - 1 : f[p] = IF p < i THEN p ELSE p + 1
  BY <1>6, <1>8
<1> HIDE DEF f
<1>10. \A p, q \in 1 .. n - 1 : f[p] = f[q] => p = q
  BY <1>1, <1>9
<1>11. ASSUME NEW k \in DOMAIN s \ {i}
       PROVE  \E p \in DOMAIN t : f[p] = k
  <2>1. CASE k < i
    BY <1>1, <1>6, <1>9, <2>1
  <2>2. CASE k > i
    <3>1. k - 1 \in DOMAIN t /\ f[k - 1] = k
      BY <1>1, <1>6, <1>9, <2>2
    <3> QED
      BY <3>1
  <2> QED
    BY <1>1, <2>1, <2>2
<1>12. PicksOut(t, s, DOMAIN s \ {i})
  <2>1. \A p \in DOMAIN t : t[p] = s[f[p]]
    BY <1>6, <1>7, <1>9
  <2>2. \A p, q \in DOMAIN t : f[p] = f[q] => p = q
    BY <1>6, <1>10
  <2> QED
    BY <1>9, <1>11, <2>1, <2>2 DEF PicksOut
<1> QED
  BY <1>5, <1>12 DEF t
=============================================================================
