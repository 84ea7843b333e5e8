----------------------------- MODULE CfgPointsProofs -----------------------------
(***************************************************************************)
(* The lowering writes, at each point, the code that its continuation asks     *)
(* for.  Lowering(P, W) holds of the first state and is kept by every step,    *)
(* with more points: the step codes the current point, and makes points of the  *)
(* places that this code leads to.                                          *)
(***************************************************************************)
EXTENDS CfgPoints, CfgProofs

(***************************************************************************)
(* Sequences, counted from the end.                                          *)
(***************************************************************************)
LEMMA AnyFacts ==
  ASSUME NEW s, AnySeq(s)
  PROVE  /\ Len(s) \in Nat /\ DOMAIN s = 1 .. Len(s) /\ (s = <<>> <=> Len(s) = 0)
         /\ \A i \in 1 .. Len(s) : s[i] = Back(s, Len(s) + 1 - i) /\ Len(s) + 1 - i \in 1 .. Len(s)
<1>1. PICK E : s \in Seq(E)
  BY DEF AnySeq
<1>2. Len(s) \in Nat /\ DOMAIN s = 1 .. Len(s) /\ (s = <<>> <=> Len(s) = 0)
  BY <1>1, LenProperties, EmptySeq
<1>3. ASSUME NEW i \in 1 .. Len(s)
      PROVE  s[i] = Back(s, Len(s) + 1 - i) /\ Len(s) + 1 - i \in 1 .. Len(s)
  <2>1. Len(s) + 1 - (Len(s) + 1 - i) = i /\ Len(s) + 1 - i \in 1 .. Len(s)
    BY <1>2
  <2> QED
    BY <2>1 DEF Back
<1> QED
  BY <1>2, <1>3

LEMMA SameItems ==
  ASSUME NEW s, NEW t, AnySeq(s), AnySeq(t), Len(s) = Len(t),
         \A i \in 1 .. Len(s) : s[i] = t[i]
  PROVE  s = t
<1>1. PICK E : s \in Seq(E)
  BY DEF AnySeq
<1>2. PICK F : t \in Seq(F)
  BY DEF AnySeq
<1>3. s \in Seq(E \cup F) /\ t \in Seq(E \cup F)
  BY <1>1, <1>2, SeqMonotonic
<1> QED
  BY <1>3, SeqEqual

LEMMA AnyEqual ==
  ASSUME NEW s, NEW t, AnySeq(s), AnySeq(t), Len(s) = Len(t),
         \A k \in 1 .. Len(s) : Back(s, k) = Back(t, k)
  PROVE  s = t
<1>1. ASSUME NEW i \in 1 .. Len(s)
      PROVE  s[i] = t[i]
  BY AnyFacts
<1> QED
  BY <1>1, SameItems

LEMMA AnyEmpty == AnySeq(<<>>) /\ Len(<<>>) = 0
BY EmptySeq DEF AnySeq

LEMMA CatFacts ==
  ASSUME NEW s, NEW t, AnySeq(s), AnySeq(t)
  PROVE  /\ AnySeq(s \o t) /\ Len(s \o t) = Len(s) + Len(t)
         /\ \A k \in 1 .. Len(t) : Back(s \o t, k) = Back(t, k)
         /\ \A k \in 1 .. Len(s) : Back(s \o t, Len(t) + k) = Back(s, k)
<1>1. PICK E : s \in Seq(E)
  BY DEF AnySeq
<1>2. PICK F : t \in Seq(F)
  BY DEF AnySeq
<1> DEFINE u == s \o t
<1>3. s \in Seq(E \cup F) /\ t \in Seq(E \cup F)
  BY <1>1, <1>2, SeqMonotonic
<1>4. Len(s) \in Nat /\ Len(t) \in Nat
  BY <1>1, <1>2, LenProperties
<1>5. /\ u \in Seq(E \cup F) /\ Len(u) = Len(s) + Len(t)
      /\ \A i \in 1 .. Len(s) + Len(t) : u[i] = IF i <= Len(s) THEN s[i] ELSE t[i - Len(s)]
  BY <1>3, ConcatProperties
<1> HIDE DEF u
<1>6. ASSUME NEW k \in 1 .. Len(t)
      PROVE  Back(u, k) = Back(t, k)
  <2>1. /\ Len(u) + 1 - k \in 1 .. Len(s) + Len(t) /\ ~ (Len(u) + 1 - k <= Len(s))
        /\ Len(u) + 1 - k - Len(s) = Len(t) + 1 - k
    BY <1>4, <1>5
  <2> QED
    BY <1>5, <2>1 DEF Back
<1>7. ASSUME NEW k \in 1 .. Len(s)
      PROVE  Back(u, Len(t) + k) = Back(s, k)
  <2>1. /\ Len(u) + 1 - (Len(t) + k) \in 1 .. Len(s) + Len(t) /\ Len(u) + 1 - (Len(t) + k) <= Len(s)
        /\ Len(u) + 1 - (Len(t) + k) = Len(s) + 1 - k
    BY <1>4, <1>5
  <2> QED
    BY <1>5, <2>1 DEF Back
<1>8. AnySeq(u)
  BY <1>5 DEF AnySeq
<1> QED
  BY <1>5, <1>6, <1>7, <1>8 DEF u

LEMMA ConsFacts ==
  ASSUME NEW s, AnySeq(s), NEW a
  PROVE  LET t == <<a>> \o s
         IN  /\ AnySeq(t) /\ Len(t) = Len(s) + 1 /\ t # <<>>
             /\ Head(t) = a /\ Tail(t) = s /\ Back(t, Len(s) + 1) = a
             /\ \A k \in 1 .. Len(s) : Back(t, k) = Back(s, k)
<1> DEFINE o == <<a>>
           t == o \o s
<1>1. o \in Seq({a}) /\ Len(o) = 1 /\ Back(o, 1) = a
  BY DEF Back
<1>2. AnySeq(o)
  BY <1>1 DEF AnySeq
<1>3. Len(s) \in Nat
  BY AnyFacts
<1> HIDE DEF o
<1>4. /\ AnySeq(t) /\ Len(t) = Len(s) + 1
      /\ \A k \in 1 .. Len(s) : Back(t, k) = Back(s, k)
      /\ Back(t, Len(s) + 1) = a
  <2>1. /\ AnySeq(t) /\ Len(t) = Len(o) + Len(s)
        /\ \A k \in 1 .. Len(s) : Back(t, k) = Back(s, k)
        /\ \A k \in 1 .. Len(o) : Back(t, Len(s) + k) = Back(o, k)
    BY <1>2, CatFacts
  <2> HIDE DEF t
  <2>2. 1 \in 1 .. Len(o)
    BY <1>1
  <2>3. Back(t, Len(s) + 1) = a
    BY <1>1, <2>1, <2>2
  <2> QED
    BY <1>1, <1>3, <2>1, <2>3
<1> HIDE DEF t
<1>5. t # <<>>
  BY <1>3, <1>4, AnyFacts
<1>6. PICK E : t \in Seq(E)
  BY <1>4 DEF AnySeq
<1>7. Head(t) = t[1] /\ Tail(t) \in Seq(E) /\ Len(Tail(t)) = Len(s)
      /\ \A i \in 1 .. Len(Tail(t)) : Tail(t)[i] = t[i + 1]
  BY <1>3, <1>4, <1>5, <1>6, HeadTailProperties
<1>8. Head(t) = a
  <2>1. Len(t) + 1 - (Len(s) + 1) = 1
    BY <1>3, <1>4
  <2> QED
    BY <1>4, <1>7, <2>1 DEF Back
<1>9. Tail(t) = s
  <2> DEFINE u == Tail(t)
  <2> HIDE DEF u
  <2>1. AnySeq(u)
    BY <1>7 DEF AnySeq, u
  <2>2. ASSUME NEW k \in 1 .. Len(u)
        PROVE  Back(u, k) = Back(s, k)
    <3>1. /\ Len(u) + 1 - k \in 1 .. Len(u) /\ (Len(u) + 1 - k) + 1 = Len(t) + 1 - k
          /\ k \in 1 .. Len(s)
      BY <1>3, <1>4, <1>7 DEF u
    <3>2. u[Len(u) + 1 - k] = t[(Len(u) + 1 - k) + 1]
      BY <1>7, <3>1 DEF u
    <3>3. Back(u, k) = Back(t, k)
      BY <3>1, <3>2 DEF Back
    <3> QED
      BY <1>4, <3>1, <3>3
  <2>3. Len(u) = Len(s)
    BY <1>7 DEF u
  <2>4. u = s
    BY <2>1, <2>2, <2>3, AnyEqual
  <2> QED
    BY <2>4 DEF u
<1> QED
  BY <1>4, <1>5, <1>8, <1>9 DEF t, o

LEMMA TailFacts ==
  ASSUME NEW s, AnySeq(s), s # <<>>
  PROVE  /\ AnySeq(Tail(s)) /\ Len(Tail(s)) = Len(s) - 1 /\ s = <<Head(s)>> \o Tail(s)
         /\ Head(s) = Back(s, Len(s)) /\ Len(s) \in Nat \ {0}
         /\ \A k \in 1 .. Len(s) - 1 : Back(Tail(s), k) = Back(s, k)
<1>1. PICK E : s \in Seq(E)
  BY DEF AnySeq
<1>2. Len(s) \in Nat \ {0}
  BY AnyFacts
<1>3. /\ Tail(s) \in Seq(E) /\ Len(Tail(s)) = Len(s) - 1 /\ Head(s) = s[1]
      /\ \A i \in 1 .. Len(Tail(s)) : Tail(s)[i] = s[i + 1]
  BY <1>1, HeadTailProperties
<1> DEFINE u == Tail(s)
           h == Head(s)
<1>4. AnySeq(u)
  BY <1>3 DEF AnySeq
<1>5. Len(u) = Len(s) - 1 /\ \A i \in 1 .. Len(u) : u[i] = s[i + 1]
  BY <1>3
<1>6. h = Back(s, Len(s))
  <2>1. Len(s) + 1 - Len(s) = 1
    BY <1>2
  <2> QED
    BY <1>3, <2>1 DEF Back
<1> HIDE DEF u, h
<1>7. ASSUME NEW k \in 1 .. Len(s) - 1
      PROVE  Back(u, k) = Back(s, k)
  <2>1. Len(u) + 1 - k \in 1 .. Len(u) /\ (Len(u) + 1 - k) + 1 = Len(s) + 1 - k
    BY <1>2, <1>5
  <2>2. u[Len(u) + 1 - k] = s[(Len(u) + 1 - k) + 1]
    BY <1>5, <2>1
  <2> QED
    BY <2>1, <2>2 DEF Back
<1>8. <<h>> \o u = s
  <2> DEFINE t == <<h>> \o u
  <2>1. /\ AnySeq(t) /\ Len(t) = Len(u) + 1 /\ Back(t, Len(u) + 1) = h
        /\ \A k \in 1 .. Len(u) : Back(t, k) = Back(u, k)
    BY <1>4, ConsFacts
  <2> HIDE DEF t
  <2>2. Len(t) = Len(s)
    BY <1>2, <1>5, <2>1
  <2>3. ASSUME NEW k \in 1 .. Len(t)
        PROVE  Back(t, k) = Back(s, k)
    <3>1. CASE k = Len(u) + 1
      BY <1>2, <1>5, <1>6, <2>1, <3>1
    <3>2. CASE k # Len(u) + 1
      <4>1. k \in 1 .. Len(u) /\ k \in 1 .. Len(s) - 1
        BY <1>2, <1>5, <2>1, <3>2
      <4> QED
        BY <1>7, <2>1, <4>1
    <3> QED
      BY <3>1, <3>2
  <2>4. t = s
    BY <2>1, <2>2, <2>3, AnyEqual
  <2> QED
    BY <2>4 DEF t
<1> QED
  BY <1>2, <1>4, <1>5, <1>6, <1>7, <1>8 DEF u, h

(* What is left when all but m are gone. *)
LEMMA LastFacts ==
  ASSUME NEW s, AnySeq(s), NEW m \in 0 .. Len(s)
  PROVE  /\ AnySeq(Last(s, m)) /\ Len(Last(s, m)) = m
         /\ \A k \in 1 .. m : Back(Last(s, m), k) = Back(s, k)
<1>1. PICK E : s \in Seq(E)
  BY DEF AnySeq
<1>2. Len(s) \in Nat
  BY AnyFacts
<1> DEFINE a == Len(s) - m + 1
           u == SubSeq(s, a, Len(s))
<1>3. a \in Int /\ Len(s) \in Int /\ \A i \in a .. Len(s) : s[i] \in E
  BY <1>1, <1>2, ElementOfSeq
<1>4. /\ u \in Seq(E) /\ Len(u) = (IF a <= Len(s) THEN Len(s) - a + 1 ELSE 0)
      /\ \A i \in 1 .. Len(s) - a + 1 : u[i] = s[a + i - 1]
  <2> HIDE DEF a
  <2> QED
    BY <1>3, SubSeqProperties
<1>5. Len(u) = m
  BY <1>2, <1>4
<1> HIDE DEF u
<1>6. ASSUME NEW k \in 1 .. m
      PROVE  Back(u, k) = Back(s, k)
  <2>1. m + 1 - k \in 1 .. Len(s) - a + 1 /\ a + (m + 1 - k) - 1 = Len(s) + 1 - k
    BY <1>2
  <2>2. u[m + 1 - k] = s[a + (m + 1 - k) - 1]
    BY <1>4, <2>1
  <2> QED
    BY <1>5, <2>1, <2>2 DEF Back
<1> QED
  BY <1>4, <1>5, <1>6 DEF u, Last, AnySeq

LEMMA LastOf ==
  ASSUME NEW s, AnySeq(s)
  PROVE  /\ \A m \in 0 .. Len(s) : \A k \in 0 .. m : Last(Last(s, m), k) = Last(s, k)
         /\ Last(s, Len(s)) = s /\ Last(s, 0) = <<>>
         /\ s # <<>> => Last(s, Len(s) - 1) = Tail(s)
         /\ \A m \in 1 .. Len(s) : Last(s, m) = <<Back(s, m)>> \o Last(s, m - 1)
<1>1. Len(s) \in Nat
  BY AnyFacts
<1>2. ASSUME NEW m \in 0 .. Len(s), NEW k \in 0 .. m
      PROVE  Last(Last(s, m), k) = Last(s, k)
  <2>1. /\ AnySeq(Last(s, m)) /\ Len(Last(s, m)) = m
        /\ \A i \in 1 .. m : Back(Last(s, m), i) = Back(s, i)
    BY LastFacts
  <2>2. /\ AnySeq(Last(Last(s, m), k)) /\ Len(Last(Last(s, m), k)) = k
        /\ \A i \in 1 .. k : Back(Last(Last(s, m), k), i) = Back(Last(s, m), i)
    BY <2>1, LastFacts
  <2>3. k \in 0 .. Len(s) /\ 1 .. k \subseteq 1 .. m
    BY <1>1
  <2>4. /\ AnySeq(Last(s, k)) /\ Len(Last(s, k)) = k
        /\ \A i \in 1 .. k : Back(Last(s, k), i) = Back(s, i)
    BY <2>3, LastFacts
  <2> QED
    BY <2>1, <2>2, <2>3, <2>4, AnyEqual
<1>3. Last(s, Len(s)) = s
  <2>1. Len(s) \in 0 .. Len(s)
    BY <1>1
  <2> QED
    BY <2>1, LastFacts, AnyEqual
<1>4. Last(s, 0) = <<>>
  <2>1. 0 \in 0 .. Len(s)
    BY <1>1
  <2> QED
    BY <2>1, LastFacts, AnyFacts
<1>5. ASSUME s # <<>>
      PROVE  Last(s, Len(s) - 1) = Tail(s)
  <2>1. Len(s) - 1 \in 0 .. Len(s)
    BY <1>1, <1>5, AnyFacts
  <2>2. /\ AnySeq(Last(s, Len(s) - 1)) /\ Len(Last(s, Len(s) - 1)) = Len(s) - 1
        /\ \A i \in 1 .. Len(s) - 1 : Back(Last(s, Len(s) - 1), i) = Back(s, i)
    BY <2>1, LastFacts
  <2>3. /\ AnySeq(Tail(s)) /\ Len(Tail(s)) = Len(s) - 1
        /\ \A i \in 1 .. Len(s) - 1 : Back(Tail(s), i) = Back(s, i)
    BY <1>5, TailFacts
  <2> QED
    BY <2>2, <2>3, AnyEqual
<1>6. ASSUME NEW m \in 1 .. Len(s)
      PROVE  Last(s, m) = <<Back(s, m)>> \o Last(s, m - 1)
  <2> DEFINE t == Last(s, m)
  <2>1. m \in 0 .. Len(s) /\ m - 1 \in 0 .. m
    BY <1>1
  <2>2. AnySeq(t) /\ Len(t) = m /\ \A k \in 1 .. m : Back(t, k) = Back(s, k)
    BY <2>1, LastFacts
  <2>3. Last(t, m - 1) = Last(s, m - 1)
    BY <1>2, <2>1
  <2> HIDE DEF t
  <2>4. t # <<>>
    BY <2>2, AnyFacts
  <2>5. t = <<Head(t)>> \o Tail(t) /\ Head(t) = Back(t, m)
    BY <2>2, <2>4, TailFacts
  <2>6. Last(t, m - 1) = Tail(t)
    <3>1. AnySeq(Last(t, m - 1)) /\ Len(Last(t, m - 1)) = m - 1
          /\ \A k \in 1 .. m - 1 : Back(Last(t, m - 1), k) = Back(t, k)
      BY <2>1, <2>2, LastFacts
    <3>2. AnySeq(Tail(t)) /\ Len(Tail(t)) = m - 1
          /\ \A k \in 1 .. m - 1 : Back(Tail(t), k) = Back(t, k)
      BY <2>2, <2>4, TailFacts
    <3> QED
      BY <3>1, <3>2, AnyEqual
  <2>7. m \in 1 .. m
    BY <1>1
  <2> QED
    BY <2>2, <2>3, <2>5, <2>6, <2>7 DEF t
<1> QED
  BY <1>2, <1>3, <1>4, <1>5, <1>6

(* The first m of a sequence. *)
LEMMA FirstFacts ==
  ASSUME NEW s, AnySeq(s), NEW m \in 0 .. Len(s)
  PROVE  /\ AnySeq(SubSeq(s, 1, m)) /\ Len(SubSeq(s, 1, m)) = m
         /\ \A i \in 1 .. m : SubSeq(s, 1, m)[i] = s[i]
         /\ SubSeq(s, 1, Len(s)) = s
         /\ \A k \in 0 .. m : SubSeq(SubSeq(s, 1, m), 1, k) = SubSeq(s, 1, k)
<1>1. PICK E : s \in Seq(E)
  BY DEF AnySeq
<1>2. Len(s) \in Nat
  BY AnyFacts
<1>3. ASSUME NEW k \in 0 .. Len(s)
      PROVE  /\ SubSeq(s, 1, k) \in Seq(E) /\ Len(SubSeq(s, 1, k)) = k
             /\ \A i \in 1 .. k : SubSeq(s, 1, k)[i] = s[i]
  <2>1. 1 \in Int /\ k \in Int /\ \A i \in 1 .. k : s[i] \in E
    BY <1>1, <1>2, ElementOfSeq
  <2>2. /\ SubSeq(s, 1, k) \in Seq(E) /\ Len(SubSeq(s, 1, k)) = (IF 1 <= k THEN k - 1 + 1 ELSE 0)
        /\ \A i \in 1 .. k - 1 + 1 : SubSeq(s, 1, k)[i] = s[1 + i - 1]
    BY <2>1, SubSeqProperties
  <2> QED
    BY <1>2, <2>2
<1>4. ASSUME NEW k \in 0 .. m
      PROVE  SubSeq(SubSeq(s, 1, m), 1, k) = SubSeq(s, 1, k)
  <2> DEFINE u == SubSeq(s, 1, m)
  <2>1. u \in Seq(E) /\ Len(u) = m /\ \A i \in 1 .. m : u[i] = s[i]
    BY <1>3
  <2> HIDE DEF u
  <2>2. 1 \in Int /\ k \in Int /\ \A i \in 1 .. k : u[i] \in E
    BY <1>2, <2>1, ElementOfSeq
  <2>3. /\ SubSeq(u, 1, k) \in Seq(E) /\ Len(SubSeq(u, 1, k)) = (IF 1 <= k THEN k - 1 + 1 ELSE 0)
        /\ \A i \in 1 .. k - 1 + 1 : SubSeq(u, 1, k)[i] = u[1 + i - 1]
    BY <2>2, SubSeqProperties
  <2>4. Len(SubSeq(u, 1, k)) = k /\ \A i \in 1 .. k : SubSeq(u, 1, k)[i] = u[i]
    BY <2>3
  <2>5. k \in 0 .. Len(s) /\ 1 .. k \subseteq 1 .. m
    BY <1>2
  <2>6. SubSeq(u, 1, k) = SubSeq(s, 1, k)
    BY <1>3, <2>1, <2>3, <2>4, <2>5, SeqEqual
  <2> QED
    BY <2>6 DEF u
<1> QED
  BY <1>1, <1>3, <1>4, SubSeqFull DEF AnySeq

LEMMA PushedFacts ==
  ASSUME NEW s, AnySeq(s), NEW a
  PROVE  LET t == Append(s, a)
         IN  /\ AnySeq(t) /\ Len(t) = Len(s) + 1 /\ t[Len(s) + 1] = a
             /\ \A i \in 1 .. Len(s) : t[i] = s[i]
             /\ \A k \in 0 .. Len(s) : SubSeq(t, 1, k) = SubSeq(s, 1, k)
<1>1. PICK E : s \in Seq(E)
  BY DEF AnySeq
<1> DEFINE t == Append(s, a)
           D == E \cup {a}
<1>2. s \in Seq(D) /\ a \in D
  BY <1>1, SeqMonotonic
<1>3. /\ t \in Seq(D) /\ Len(t) = Len(s) + 1 /\ t[Len(s) + 1] = a
      /\ \A i \in 1 .. Len(s) : t[i] = s[i]
  BY <1>2, AppendProperties
<1> HIDE DEF t
<1>4. AnySeq(t) /\ Len(s) \in Nat
  BY <1>3, AnyFacts DEF AnySeq
<1>5. ASSUME NEW k \in 0 .. Len(s)
      PROVE  SubSeq(t, 1, k) = SubSeq(s, 1, k)
  <2>1. k \in 0 .. Len(t) /\ 1 .. k \subseteq 1 .. Len(s)
    BY <1>3, <1>4
  <2>2. AnySeq(SubSeq(t, 1, k)) /\ Len(SubSeq(t, 1, k)) = k
        /\ \A i \in 1 .. k : SubSeq(t, 1, k)[i] = t[i]
    BY <1>4, <2>1, FirstFacts
  <2>3. AnySeq(SubSeq(s, 1, k)) /\ Len(SubSeq(s, 1, k)) = k
        /\ \A i \in 1 .. k : SubSeq(s, 1, k)[i] = s[i]
    BY FirstFacts
  <2> QED
    BY <1>3, <2>1, <2>2, <2>3, SameItems
<1> QED
  BY <1>3, <1>4, <1>5 DEF t

-----------------------------------------------------------------------------
(***************************************************************************)
(* Code that is there stays there.                                          *)
(***************************************************************************)
Listed(bs) == AnyBlocks(bs) /\ \A b \in DOMAIN bs : AnySeq(bs[b].stmts)

HasIns(bs, b, i, x)  == i \in 1 .. Len(bs[b].stmts) /\ bs[b].stmts[i] = x
HasTerm(bs, b, i, x) == i = Len(bs[b].stmts) + 1 /\ bs[b].term = x /\ x # Unreachable

Extended(bs, cs) ==
  /\ DOMAIN bs \subseteq DOMAIN cs
  /\ \A b \in DOMAIN bs :
       /\ bs[b].term # Unreachable => cs[b] = bs[b]
       /\ \A i \in 1 .. Len(bs[b].stmts) :
            i \in 1 .. Len(cs[b].stmts) /\ cs[b].stmts[i] = bs[b].stmts[i]

LEMMA ExtendedMore ==
  ASSUME NEW bs, NEW cs, NEW ds, Extended(bs, cs), Extended(cs, ds)
  PROVE  Extended(bs, ds)
BY DEF Extended

LEMMA CodeStays ==
  ASSUME NEW bs, NEW cs, Extended(bs, cs), NEW b \in DOMAIN bs, NEW i, NEW x
  PROVE  /\ HasIns(bs, b, i, x) => HasIns(cs, b, i, x)
         /\ HasTerm(bs, b, i, x) => HasTerm(cs, b, i, x)
BY DEF Extended, HasIns, HasTerm

(* The blocks cs are bs with s emitted in b, with b closed by x, with n more. *)
Emits(bs, cs, b, s) ==
  /\ Listed(cs) /\ Extended(bs, cs) /\ DOMAIN cs = DOMAIN bs /\ IsOpen(cs, b)
  /\ \A c \in DOMAIN bs : c # b => cs[c] = bs[c]
  /\ Len(cs[b].stmts) = Len(bs[b].stmts) + Len(s)
  /\ \A i \in 1 .. Len(s) : HasIns(cs, b, Len(bs[b].stmts) + i, s[i])
Seals(bs, cs, b, x) ==
  /\ Listed(cs) /\ Extended(bs, cs) /\ DOMAIN cs = DOMAIN bs
  /\ HasTerm(cs, b, Len(bs[b].stmts) + 1, x)
  /\ \A c \in DOMAIN bs : c # b => cs[c] = bs[c]
Adds(bs, cs, n) ==
  /\ Listed(cs) /\ Extended(bs, cs) /\ DOMAIN cs = 1 .. Len(bs) + n
  /\ Len(bs) \in Nat /\ DOMAIN bs = 1 .. Len(bs)
  /\ \A c \in DOMAIN bs : cs[c] = bs[c]
  /\ \A c \in Len(bs) + 1 .. Len(bs) + n : cs[c].stmts = <<>> /\ IsOpen(cs, c)

LEMMA Emitted ==
  ASSUME NEW bs, Listed(bs), NEW b \in DOMAIN bs, IsOpen(bs, b), NEW s, AnySeq(s)
  PROVE  Emits(bs, Emit(bs, b, s), b, s)
<1> DEFINE cs == Emit(bs, b, s)
           old == bs[b].stmts
           u == old \o s
<1>1. AnySeq(old) /\ Len(old) \in Nat /\ Len(s) \in Nat
  BY AnyFacts DEF Listed
<1>2. /\ AnyBlocks(cs) /\ DOMAIN cs = DOMAIN bs
      /\ \A c \in DOMAIN bs : cs[c].term = bs[c].term
      /\ \A c \in DOMAIN bs : c # b => cs[c] = bs[c]
  BY EmitFacts DEF Listed
<1>3. cs[b].stmts = u
  <2>1. PICK X, Y : bs \in Seq([stmts : X, term : Y])
    BY DEF Listed, AnyBlocks
  <2>2. Len(bs) \in Nat /\ DOMAIN bs = 1 .. Len(bs)
    BY BlockList DEF Listed
  <2>3. bs[b] \in [stmts : X, term : Y]
    BY <2>1, <2>2, ElementOfSeq
  <2>4. cs[b] = [bs[b] EXCEPT !.stmts = u]
    BY DEF Emit
  <2> QED
    BY <2>3, <2>4
<1> HIDE DEF cs
<1>4. /\ AnySeq(u) /\ Len(u) = Len(old) + Len(s)
      /\ \A i \in 1 .. Len(old) : u[i] = old[i]
      /\ \A i \in 1 .. Len(s) : u[Len(old) + i] = s[i]
  <2>1. PICK X : old \in Seq(X)
    BY <1>1 DEF AnySeq
  <2>2. PICK Y : s \in Seq(Y)
    BY DEF AnySeq
  <2>3. old \in Seq(X \cup Y) /\ s \in Seq(X \cup Y)
    BY <2>1, <2>2, SeqMonotonic
  <2>4. /\ u \in Seq(X \cup Y) /\ Len(u) = Len(old) + Len(s)
        /\ \A i \in 1 .. Len(old) + Len(s) : u[i] = IF i <= Len(old) THEN old[i] ELSE s[i - Len(old)]
    BY <2>3, ConcatProperties
  <2> HIDE DEF u, old
  <2>5. ASSUME NEW i \in 1 .. Len(s)
        PROVE  u[Len(old) + i] = s[i]
    <3>1. /\ Len(old) + i \in 1 .. Len(old) + Len(s) /\ ~ (Len(old) + i <= Len(old))
          /\ (Len(old) + i) - Len(old) = i
      BY <1>1
    <3> QED
      BY <2>4, <3>1
  <2>6. ASSUME NEW i \in 1 .. Len(old)
        PROVE  u[i] = old[i]
    BY <1>1, <2>4
  <2> QED
    BY <2>4, <2>5, <2>6 DEF AnySeq
<1>5. Listed(cs)
  BY <1>2, <1>3, <1>4 DEF Listed
<1>6. Extended(bs, cs)
  <2> HIDE DEF u
  <2>1. \A i \in 1 .. Len(old) : i \in 1 .. Len(u)
    BY <1>1, <1>4
  <2>2. bs[b].term = Unreachable
    BY DEF IsOpen
  <2> QED
    BY <1>2, <1>3, <1>4, <2>1, <2>2 DEF Extended
<1>7. ASSUME NEW i \in 1 .. Len(s)
      PROVE  HasIns(cs, b, Len(old) + i, s[i])
  <2> HIDE DEF u, old
  <2>1. Len(old) + i \in 1 .. Len(u)
    BY <1>1, <1>4
  <2> QED
    BY <1>3, <1>4, <2>1 DEF HasIns
<1> QED
  BY <1>2, <1>3, <1>4, <1>5, <1>6, <1>7 DEF cs, IsOpen, Emits

LEMMA Terminated ==
  ASSUME NEW bs, Listed(bs), NEW b \in DOMAIN bs, IsOpen(bs, b), NEW x, x # Unreachable
  PROVE  Seals(bs, Terminate(bs, b, x), b, x)
<1> DEFINE cs == Terminate(bs, b, x)
<1>1. /\ AnyBlocks(cs) /\ DOMAIN cs = DOMAIN bs /\ cs[b].term = x
      /\ \A c \in DOMAIN bs : c # b => cs[c] = bs[c]
  BY TerminateFacts DEF Listed
<1>2. cs[b].stmts = bs[b].stmts
  <2>1. PICK X, Y : bs \in Seq([stmts : X, term : Y])
    BY DEF Listed, AnyBlocks
  <2>2. Len(bs) \in Nat /\ DOMAIN bs = 1 .. Len(bs)
    BY BlockList DEF Listed
  <2>3. bs[b] \in [stmts : X, term : Y]
    BY <2>1, <2>2, ElementOfSeq
  <2>4. cs[b] = [bs[b] EXCEPT !.term = x]
    BY DEF Terminate
  <2> QED
    BY <2>3, <2>4
<1> HIDE DEF cs
<1> QED
  BY <1>1, <1>2 DEF cs, Listed, Extended, HasTerm, IsOpen, Seals

LEMMA BlocksAdded ==
  ASSUME NEW bs, Listed(bs), NEW n \in Nat
  PROVE  Adds(bs, NewBlocks(bs, n), n)
<1> DEFINE cs == NewBlocks(bs, n)
           new == [k \in 1 .. n |-> Open]
<1>1. /\ AnyBlocks(cs) /\ DOMAIN cs = 1 .. Len(bs) + n
      /\ \A c \in DOMAIN bs : cs[c] = bs[c]
      /\ \A c \in Len(bs) + 1 .. Len(bs) + n : cs[c].term = Unreachable
  BY NewBlocksFacts DEF Listed
<1>2. Len(bs) \in Nat /\ DOMAIN bs = 1 .. Len(bs)
  BY BlockList DEF Listed
<1>3. ASSUME NEW c \in Len(bs) + 1 .. Len(bs) + n
      PROVE  cs[c].stmts = <<>>
  <2>1. PICK X, Y : bs \in Seq([stmts : X, term : Y])
    BY DEF Listed, AnyBlocks
  <2> DEFINE D == [stmts : X, term : Y] \cup {Open}
  <2>2. bs \in Seq(D) /\ new \in Seq(D) /\ Len(new) = n
    <3>1. \A i \in 1 .. n : new[i] \in D
      OBVIOUS
    <3> HIDE DEF D
    <3>2. bs \in Seq(D)
      BY <2>1, SeqMonotonic DEF D
    <3> QED
      BY <3>1, <3>2, SeqDef
  <2> HIDE DEF D
  <2>3. c \in 1 .. Len(bs) + Len(new) /\ ~ (c <= Len(bs)) /\ c - Len(bs) \in 1 .. n
    BY <1>2, <2>2
  <2>4. (bs \o new)[c] = new[c - Len(bs)]
    BY <2>2, <2>3, ConcatProperties
  <2>5. new[c - Len(bs)] = Open
    BY <2>3
  <2>6. cs[c] = Open
    BY <2>4, <2>5 DEF NewBlocks
  <2> QED
    BY <2>6 DEF Open
<1> HIDE DEF cs
<1>4. Extended(bs, cs)
  <2>1. DOMAIN bs \subseteq DOMAIN cs
    BY <1>1, <1>2
  <2> QED
    BY <1>1, <2>1 DEF Extended
<1>5. Listed(cs)
  <2>1. ASSUME NEW c \in DOMAIN cs
        PROVE  AnySeq(cs[c].stmts)
    <3>1. CASE c \in DOMAIN bs
      BY <1>1, <3>1 DEF Listed
    <3>2. CASE c \notin DOMAIN bs
      <4>1. c \in Len(bs) + 1 .. Len(bs) + n
        BY <1>1, <1>2, <3>2
      <4> QED
        BY <1>3, <4>1, AnyEmpty DEF cs
    <3> QED
      BY <3>1, <3>2
  <2> QED
    BY <1>1, <2>1 DEF Listed
<1> QED
  BY <1>1, <1>2, <1>3, <1>4, <1>5 DEF cs, IsOpen, Adds

(* What code a point has does not change, however many points there are. *)
LEMMA StepsStay ==
  ASSUME NEW P, NEW Q, P \subseteq Q, NEW p, NEW x, Steps(p, P, x)
  PROVE  Steps(p, Q, x)
<1>1. CASE StepAct(p, P, x)
  BY <1>1 DEF StepAct, Steps
<1>2. CASE StepUse(p, P, x)
  BY <1>2 DEF StepUse, Steps
<1>3. CASE StepAssign(p, P, x)
  BY <1>3 DEF StepAssign, Steps
<1>4. CASE StepVar(p, P, x)
  BY <1>4 DEF StepVar, Steps
<1>5. CASE StepList(p, P, x)
  BY <1>5 DEF StepList, Steps
<1>6. CASE StepIter(p, P, x)
  BY <1>6 DEF StepIter, Steps
<1>7. CASE StepInit(p, P, x)
  BY <1>7 DEF StepInit, Steps
<1>8. CASE StepInc(p, P, x)
  BY <1>8 DEF StepInc, Steps
<1>9. CASE StepGet(p, P, x)
  BY <1>9 DEF StepGet, Steps
<1>10. CASE StepNext(p, P, x)
  BY <1>10 DEF StepNext, Steps
<1>11. CASE StepSome(p, P, x)
  BY <1>11 DEF StepSome, Steps
<1> QED
  BY <1>1, <1>2, <1>3, <1>4, <1>5, <1>6, <1>7, <1>8, <1>9, <1>10, <1>11 DEF Steps

LEMMA ClosesStay ==
  ASSUME NEW P, NEW Q, P \subseteq Q, NEW p, NEW x, Closes(p, P, x)
  PROVE  Closes(p, Q, x)
<1>1. CASE EndReturn(p, P, x)
  BY <1>1 DEF EndReturn, Closes
<1>2. CASE EndBreak(p, P, x)
  BY <1>2 DEF EndBreak, Closes
<1>3. CASE EndContinue(p, P, x)
  BY <1>3 DEF EndContinue, Closes
<1>4. CASE EndBody(p, P, x)
  BY <1>4 DEF EndBody, Closes
<1>5. CASE EndIf(p, P, x)
  BY <1>5 DEF EndIf, Closes
<1>6. CASE EndWhile(p, P, x)
  BY <1>6 DEF EndWhile, Closes
<1>7. CASE EndRound(p, P, x)
  BY <1>7 DEF EndRound, Closes
<1>8. CASE EndTest(p, P, x)
  BY <1>8 DEF EndTest, Closes
<1>9. CASE EndJump(p, P, x)
  BY <1>9 DEF EndJump, Closes
<1> QED
  BY <1>1, <1>2, <1>3, <1>4, <1>5, <1>6, <1>7, <1>8, <1>9 DEF Closes

LEMMA CodedStays ==
  ASSUME NEW P, NEW Q, P \subseteq Q, NEW bs, NEW cs, Extended(bs, cs),
         NEW p, p.b \in DOMAIN bs, Coded(p, P, bs)
  PROVE  Coded(p, Q, cs)
<1>1. CASE Here(p, P)
  BY <1>1 DEF Here, HereBlock, HerePop, HereAgain, Coded
<1>2. CASE StepsAt(p, P, bs)
  <2> DEFINE x == bs[p.b].stmts[p.i]
  <2>1. HasIns(bs, p.b, p.i, x) /\ Steps(p, P, x)
    BY <1>2 DEF StepsAt, HasIns
  <2>2. HasIns(cs, p.b, p.i, x)
    BY <2>1, CodeStays
  <2>3. Steps(p, Q, x)
    BY <2>1, StepsStay
  <2> HIDE DEF x
  <2> QED
    BY <2>2, <2>3 DEF HasIns, StepsAt, Coded
<1>3. CASE ClosesAt(p, P, bs)
  <2> DEFINE x == bs[p.b].term
  <2>1. HasTerm(bs, p.b, p.i, x) /\ Closes(p, P, x)
    BY <1>3 DEF ClosesAt, HasTerm
  <2>2. HasTerm(cs, p.b, p.i, x)
    BY <2>1, CodeStays
  <2>3. Closes(p, Q, x)
    BY <2>1, ClosesStay
  <2> HIDE DEF x
  <2> QED
    BY <2>2, <2>3 DEF HasTerm, ClosesAt, Coded
<1> QED
  BY <1>1, <1>2, <1>3 DEF Coded

LEMMA CodedBy ==
  ASSUME NEW p, NEW P, NEW bs
  PROVE  /\ \A x : HasIns(bs, p.b, p.i, x) /\ Steps(p, P, x) => Coded(p, P, bs)
         /\ \A x : HasTerm(bs, p.b, p.i, x) /\ Closes(p, P, x) => Coded(p, P, bs)
BY DEF HasIns, HasTerm, StepsAt, ClosesAt, Coded

-----------------------------------------------------------------------------
(***************************************************************************)
(* A step replaces the head of the agenda by A, and with it the last entry of  *)
(* W; V and Q are the entries and the points after the step.                  *)
(***************************************************************************)
Plain == {"block"} \cup JumpKinds

(* A scope that a jump behind the head uses is not touched. *)
ScopesBehind(W) ==
  \A d \in Nat : d <= W[Len(agenda) - 1].sd /\ (S.k \notin Plain => d < Len(scope))
    => SubSeq(scope', 1, d) = SubSeq(scope, 1, d)

NewEntries(W, V, Q, A) ==
  /\ agenda # <<>> /\ AnySeq(A) /\ agenda' = A \o Rest
  /\ DOMAIN V = 0 .. Len(agenda) - 1 + Len(A)
  /\ \A k \in 0 .. Len(agenda) - 1 : V[k] = W[k]
  /\ \A k \in 1 .. Len(A) :
       /\ EntryOK(Q, V[Len(agenda) - 1 + k], loops', nextLocal')
       /\ ItemOK(Q, Back(A, k), V[Len(agenda) - 1 + k], V[Len(agenda) - 2 + k], scope')
  /\ V[Len(agenda) - 1 + Len(A)].sd = Len(scope') /\ V[Len(agenda) - 1 + Len(A)].ld = Len(loops')
  /\ nextLocal <= nextLocal'
  /\ \A i \in 1 .. W[Len(agenda) - 1].ld : loops'[i] = loops[i]
  /\ ScopesBehind(W)

NewNesting(W, V, A) ==
  /\ \A k \in 1 .. Len(A) :
       /\ W[Len(agenda) - 1].sd <= V[Len(agenda) - 1 + k].sd
       /\ W[Len(agenda) - 1].ld <= V[Len(agenda) - 1 + k].ld
       /\ \A j \in k .. Len(A) : /\ V[Len(agenda) - 1 + k].sd <= V[Len(agenda) - 1 + j].sd
                                 /\ V[Len(agenda) - 1 + k].ld <= V[Len(agenda) - 1 + j].ld
  /\ \/ \A k \in 1 .. Len(A) : Back(A, k).k \in Plain
     \/ \A k \in 1 .. Len(A) :
          Back(A, k).k \notin JumpKinds /\ W[Len(agenda)].sd < V[Len(agenda) - 1 + k].sd

NewBlocksEmpty(A) ==
  /\ \A b \in DOMAIN blocks' : AnySeq(blocks'[b].stmts)
  /\ \A k \in 1 .. Len(A) : \A b \in Waiting(Back(A, k)) : blocks'[b].stmts = <<>>

CodedNext(p, Q, V) == Coded(p, Q, blocks') \/ Opened(p, V)'

NewPoints(W, V, P, Q) ==
  /\ P \subseteq Q /\ Extended(blocks, blocks')
  /\ Current(V[Len(agenda)])' \in Q
  /\ \A q \in Q \ P : q.b \in DOMAIN blocks' /\ q.i \in Nat \ {0} /\ CodedNext(q, Q, V)
  /\ CodedNext(Current(W[Len(agenda)]), Q, V)
  /\ \A p \in P : Awaited(p, S, W[Len(agenda)], W[Len(agenda) - 1], scope) => CodedNext(p, Q, V)

(* The places of the new agenda. *)
LEMMA NewPlaces ==
  ASSUME NEW a, AnySeq(a), a # <<>>, NEW A, AnySeq(A)
  PROVE  LET u == A \o Tail(a)
         IN  /\ AnySeq(u) /\ Len(u) = Len(a) - 1 + Len(A)
             /\ \A k \in 1 .. Len(a) - 1 : Back(u, k) = Back(a, k)
             /\ \A k \in 1 .. Len(A) : Back(u, Len(a) - 1 + k) = Back(A, k)
<1> DEFINE r == Tail(a)
           u == A \o r
<1>1. /\ AnySeq(r) /\ Len(r) = Len(a) - 1 /\ Len(a) \in Nat \ {0} /\ Len(A) \in Nat
      /\ \A k \in 1 .. Len(a) - 1 : Back(r, k) = Back(a, k)
  BY TailFacts, AnyFacts
<1> HIDE DEF r
<1>2. /\ AnySeq(u) /\ Len(u) = Len(A) + Len(r)
      /\ \A k \in 1 .. Len(r) : Back(u, k) = Back(r, k)
      /\ \A k \in 1 .. Len(A) : Back(u, Len(r) + k) = Back(A, k)
  BY <1>1, CatFacts
<1> HIDE DEF u
<1> QED
  BY <1>1, <1>2 DEF u, r

LEMMA AgendaPlaces ==
  ASSUME AnySeq(agenda), agenda # <<>>, NEW A, AnySeq(A), agenda' = A \o Rest
  PROVE  /\ Len(agenda) \in Nat \ {0} /\ Len(A) \in Nat /\ AnySeq(agenda')
         /\ Len(agenda') = Len(agenda) - 1 + Len(A) /\ Back(agenda, Len(agenda)) = S
         /\ \A k \in 1 .. Len(agenda) - 1 : Back(agenda', k) = Back(agenda, k)
         /\ \A k \in 1 .. Len(A) : Back(agenda', Len(agenda) - 1 + k) = Back(A, k)
<1> DEFINE u == A \o Tail(agenda)
<1>1. /\ AnySeq(u) /\ Len(u) = Len(agenda) - 1 + Len(A)
      /\ \A k \in 1 .. Len(agenda) - 1 : Back(u, k) = Back(agenda, k)
      /\ \A k \in 1 .. Len(A) : Back(u, Len(agenda) - 1 + k) = Back(A, k)
  BY NewPlaces
<1>2. agenda' = u
  BY DEF Rest
<1> HIDE DEF u
<1>3. Len(agenda) \in Nat \ {0} /\ Len(A) \in Nat /\ Back(agenda, Len(agenda)) = S
  BY TailFacts, AnyFacts DEF S
<1> QED
  BY <1>1, <1>2, <1>3

(* What holds of an entry and of an item does not depend on what is added. *)
LEMMA LoopStays ==
  ASSUME NEW P, NEW Q, P \subseteq Q, NEW w, NEW f, LoopOK(P, w, f)
  PROVE  LoopOK(Q, w, f)
BY DEF LoopOK

LEMMA EntryStays ==
  ASSUME NEW P, NEW Q, P \subseteq Q, NEW w, NEW ls, NEW lt, NEW n, NEW m, n <= m, n \in Nat, m \in Nat,
         w.ld > 0 => lt[w.ld] = ls[w.ld], EntryOK(P, w, ls, n)
  PROVE  EntryOK(Q, w, lt, m)
<1>1. 0 .. n - 1 \subseteq 0 .. m - 1
  OBVIOUS
<1>2. w.ld > 0 => LoopOK(Q, w, lt[w.ld])
  BY LoopStays DEF EntryOK
<1> QED
  BY <1>1, <1>2 DEF EntryOK

LEMMA ItemStays ==
  ASSUME NEW P, NEW Q, P \subseteq Q, NEW a, NEW w, NEW v, NEW sc, NEW tc,
         a.k \in JumpKinds => SubSeq(tc, 1, w.sd) = SubSeq(sc, 1, w.sd), ItemOK(P, a, w, v, sc)
  PROVE  ItemOK(Q, a, w, v, tc)
<1>1. CASE a.k = "pop"
  BY <1>1 DEF ItemOK, PopOK
<1>2. CASE a.k = "arm"
  BY <1>2 DEF ItemOK, ArmOK, JumpKinds
<1>3. CASE a.k \in {"end", "endlist"}
  BY <1>3 DEF ItemOK, EndOK, JumpKinds
<1>4. CASE a.k \notin {"pop", "arm", "end", "endlist"}
  BY <1>4 DEF ItemOK, StmtOK
<1> QED
  BY <1>1, <1>2, <1>3, <1>4

LEMMA AwaitedStays ==
  ASSUME NEW p, NEW a, NEW w, NEW v, NEW sc, NEW tc,
         a.k \in JumpKinds => SubSeq(tc, 1, w.sd) = SubSeq(sc, 1, w.sd), Awaited(p, a, w, v, sc)
  PROVE  Awaited(p, a, w, v, tc)
BY DEF Awaited, JumpKinds

LEMMA AgendaIsAny == CfgInv => AnySeq(agenda) /\ AnySeq(scope) /\ AnySeq(loops)
BY DEF CfgInv, BlocksInv, Typed, AnySeq

LEMMA ScopesStay ==
  ASSUME CfgInv, NEW P, NEW W, Lowering(P, W), agenda # <<>>, ScopesBehind(W),
         NEW k \in 1 .. Len(agenda) - 1, Back(agenda, k).k \in JumpKinds
  PROVE  SubSeq(scope', 1, W[k].sd) = SubSeq(scope, 1, W[k].sd)
<1>1. Len(agenda) \in Nat \ {0} /\ Back(agenda, Len(agenda)) = S
  BY AgendaIsAny, TailFacts DEF S
<1> DEFINE L == Len(agenda)
<1>2. /\ k \in 0 .. L /\ k \in 1 .. L /\ L - 1 \in k .. L /\ L \in k + 1 .. L
  BY <1>1
<1>3. W[k].sd \in Nat /\ W[k].sd <= W[L - 1].sd /\ W[L].sd = Len(scope)
  BY <1>2 DEF Lowering, Entries, Nesting, EntryOK
<1>4. S.k \notin Plain => W[k].sd < W[L].sd
  BY <1>1, <1>2 DEF Lowering, Nesting, Plain
<1> QED
  BY <1>3, <1>4 DEF ScopesBehind

LEMMA EntriesKept ==
  ASSUME CfgInv, CfgInv', NEW P, NEW W, Lowering(P, W),
         NEW V, NEW Q, P \subseteq Q, NEW A, NewEntries(W, V, Q, A)
  PROVE  Entries(Q, V)'
<1> DEFINE L == Len(agenda)
           M == Len(A)
<1>1. /\ agenda # <<>> /\ AnySeq(A) /\ agenda' = A \o Rest
      /\ DOMAIN V = 0 .. L - 1 + M /\ \A k \in 0 .. L - 1 : V[k] = W[k]
      /\ \A k \in 1 .. M : /\ EntryOK(Q, V[L - 1 + k], loops', nextLocal')
                           /\ ItemOK(Q, Back(A, k), V[L - 1 + k], V[L - 2 + k], scope')
      /\ V[L - 1 + M].sd = Len(scope') /\ V[L - 1 + M].ld = Len(loops')
      /\ nextLocal <= nextLocal' /\ \A i \in 1 .. W[L - 1].ld : loops'[i] = loops[i]
      /\ ScopesBehind(W)
  BY DEF NewEntries
<1>2. /\ L \in Nat \ {0} /\ M \in Nat /\ Len(agenda') = L - 1 + M
      /\ \A k \in 1 .. L - 1 : Back(agenda', k) = Back(agenda, k)
      /\ \A k \in 1 .. M : Back(agenda', L - 1 + k) = Back(A, k)
  BY <1>1, AgendaIsAny, AgendaPlaces
<1>3. /\ W[0].cont = <<>> /\ \A k \in 0 .. L : EntryOK(P, W[k], loops, nextLocal)
      /\ \A k \in 1 .. L : ItemOK(P, Back(agenda, k), W[k], W[k - 1], scope)
      /\ \A k \in 0 .. L : \A j \in k .. L : W[k].ld <= W[j].ld
  BY DEF Lowering, Entries, Nesting
<1>4. nextLocal \in Nat /\ nextLocal' \in Nat
  BY DEF CfgInv, BlocksInv, Typed
<1> HIDE DEF L, M
<1>5. ASSUME NEW k \in 0 .. L - 1 + M
      PROVE  EntryOK(Q, V[k], loops', nextLocal')
  <2>1. CASE k <= L - 1
    <3>1. k \in 0 .. L - 1 /\ k \in 0 .. L /\ L - 1 \in k .. L /\ L - 1 \in 0 .. L
      BY <1>2, <2>1
    <3>2. EntryOK(P, W[k], loops, nextLocal) /\ W[k].ld <= W[L - 1].ld
      BY <1>3, <3>1
    <3>3. W[k].ld \in Nat /\ W[L - 1].ld \in Nat
      BY <1>3, <3>1 DEF EntryOK
    <3>4. W[k].ld > 0 => loops'[W[k].ld] = loops[W[k].ld]
      BY <1>1, <3>2, <3>3
    <3>5. EntryOK(Q, W[k], loops', nextLocal')
      BY <1>1, <1>4, <3>2, <3>4, EntryStays
    <3> QED
      BY <1>1, <3>1, <3>5
  <2>2. CASE ~ (k <= L - 1)
    <3>1. k - (L - 1) \in 1 .. M /\ L - 1 + (k - (L - 1)) = k
      BY <1>2, <2>2
    <3> QED
      BY <1>1, <3>1
  <2> QED
    BY <2>1, <2>2
<1>6. ASSUME NEW k \in 1 .. L - 1 + M
      PROVE  ItemOK(Q, Back(agenda', k), V[k], V[k - 1], scope')
  <2>1. CASE k <= L - 1
    <3>1. k \in 0 .. L - 1 /\ k \in 1 .. L /\ k - 1 \in 0 .. L - 1 /\ k \in 1 .. L - 1
      BY <1>2, <2>1
    <3>2. ItemOK(P, Back(agenda, k), W[k], W[k - 1], scope)
      BY <1>3, <3>1
    <3>3. Back(agenda, k).k \in JumpKinds => SubSeq(scope', 1, W[k].sd) = SubSeq(scope, 1, W[k].sd)
      BY <1>1, <3>1, ScopesStay DEF L
    <3>4. ItemOK(Q, Back(agenda, k), W[k], W[k - 1], scope')
      BY <3>2, <3>3, ItemStays
    <3> QED
      BY <1>1, <1>2, <3>1, <3>4
  <2>2. CASE ~ (k <= L - 1)
    <3> DEFINE i == k - (L - 1)
    <3>1. i \in 1 .. M /\ L - 1 + i = k /\ L - 2 + i = k - 1
      BY <1>2, <2>2
    <3> HIDE DEF i
    <3> QED
      BY <1>1, <1>2, <3>1
  <2> QED
    BY <2>1, <2>2
<1>7. V[0].cont = <<>>
  <2>1. 0 \in 0 .. L - 1
    BY <1>2
  <2> QED
    BY <1>1, <1>3, <2>1
<1> QED
  BY <1>1, <1>2, <1>5, <1>6, <1>7 DEF Entries

LEMMA NestingKept ==
  ASSUME CfgInv, CfgInv', NEW P, NEW W, Lowering(P, W),
         NEW V, NEW Q, NEW A, NewEntries(W, V, Q, A), NewNesting(W, V, A)
  PROVE  Nesting(V)'
<1> DEFINE L == Len(agenda)
           M == Len(A)
<1>1. /\ agenda # <<>> /\ AnySeq(A) /\ agenda' = A \o Rest
      /\ \A k \in 0 .. L - 1 : V[k] = W[k]
      /\ \A k \in 1 .. M : EntryOK(Q, V[L - 1 + k], loops', nextLocal')
  BY DEF NewEntries
<1>2. /\ \A k \in 1 .. M :
           /\ W[L - 1].sd <= V[L - 1 + k].sd /\ W[L - 1].ld <= V[L - 1 + k].ld
           /\ \A j \in k .. M : V[L - 1 + k].sd <= V[L - 1 + j].sd /\ V[L - 1 + k].ld <= V[L - 1 + j].ld
      /\ \/ \A k \in 1 .. M : Back(A, k).k \in Plain
         \/ \A k \in 1 .. M : Back(A, k).k \notin JumpKinds /\ W[L].sd < V[L - 1 + k].sd
  BY DEF NewNesting
<1>3. /\ L \in Nat \ {0} /\ M \in Nat /\ Len(agenda') = L - 1 + M
      /\ \A k \in 1 .. L - 1 : Back(agenda', k) = Back(agenda, k)
      /\ \A k \in 1 .. M : Back(agenda', L - 1 + k) = Back(A, k)
  BY <1>1, AgendaIsAny, AgendaPlaces
<1>4. /\ \A k \in 0 .. L : W[k].sd \in Nat /\ W[k].ld \in Nat
      /\ \A k \in 0 .. L : \A j \in k .. L : W[k].sd <= W[j].sd /\ W[k].ld <= W[j].ld
      /\ \A k \in 1 .. L : Back(agenda, k).k \in JumpKinds =>
           \A j \in k + 1 .. L : Back(agenda, j).k \notin Plain => W[k].sd < W[j].sd
  BY DEF Lowering, Entries, Nesting, EntryOK, Plain
<1>5. \A k \in 1 .. M : V[L - 1 + k].sd \in Nat /\ V[L - 1 + k].ld \in Nat
  BY <1>1 DEF EntryOK
<1> HIDE DEF L, M
<1>6. ASSUME NEW k \in 0 .. L - 1 + M, NEW j \in k .. L - 1 + M
      PROVE  V[k].sd <= V[j].sd /\ V[k].ld <= V[j].ld
  <2>1. CASE j <= L - 1
    <3>1. k \in 0 .. L - 1 /\ j \in 0 .. L - 1 /\ k \in 0 .. L /\ j \in k .. L
      BY <1>3, <2>1
    <3> QED
      BY <1>1, <1>4, <3>1
  <2>2. CASE k <= L - 1 /\ ~ (j <= L - 1)
    <3> DEFINE i == j - (L - 1)
    <3>1. i \in 1 .. M /\ L - 1 + i = j /\ k \in 0 .. L - 1 /\ k \in 0 .. L /\ L - 1 \in k .. L /\ L - 1 \in 0 .. L
      BY <1>3, <2>2
    <3> HIDE DEF i
    <3>2. V[k] = W[k] /\ W[k].sd <= W[L - 1].sd /\ W[k].ld <= W[L - 1].ld
      BY <1>1, <1>4, <3>1
    <3>3. W[L - 1].sd <= V[j].sd /\ W[L - 1].ld <= V[j].ld /\ V[j].sd \in Nat /\ V[j].ld \in Nat
      BY <1>2, <1>5, <3>1
    <3>4. W[k].sd \in Nat /\ W[k].ld \in Nat /\ W[L - 1].sd \in Nat /\ W[L - 1].ld \in Nat
      BY <1>4, <3>1
    <3> QED
      BY <3>2, <3>3, <3>4
  <2>3. CASE ~ (k <= L - 1)
    <3> DEFINE i == k - (L - 1)
               h == j - (L - 1)
    <3>1. i \in 1 .. M /\ L - 1 + i = k /\ h \in i .. M /\ L - 1 + h = j
      BY <1>3, <2>3
    <3> HIDE DEF i, h
    <3> QED
      BY <1>2, <3>1
  <2> QED
    BY <2>1, <2>2, <2>3
<1>7. ASSUME NEW k \in 1 .. L - 1 + M, Back(agenda', k).k \in JumpKinds,
             NEW j \in k + 1 .. L - 1 + M, Back(agenda', j).k \notin Plain
      PROVE  V[k].sd < V[j].sd
  <2>1. CASE j <= L - 1
    <3>1. /\ k \in 0 .. L - 1 /\ j \in 0 .. L - 1 /\ k \in 1 .. L - 1 /\ j \in 1 .. L - 1
          /\ k \in 1 .. L /\ j \in k + 1 .. L
      BY <1>3, <2>1
    <3> QED
      BY <1>1, <1>3, <1>4, <1>7, <3>1
  <2>2. CASE k <= L - 1 /\ ~ (j <= L - 1)
    <3> DEFINE i == j - (L - 1)
    <3>1. i \in 1 .. M /\ L - 1 + i = j /\ k \in 0 .. L - 1 /\ k \in 0 .. L /\ L \in k .. L /\ L \in 0 .. L
      BY <1>3, <2>2
    <3> HIDE DEF i
    <3>2. Back(A, i).k \notin Plain
      BY <1>3, <1>7, <3>1
    <3>3. W[L].sd < V[j].sd /\ V[j].sd \in Nat
      BY <1>2, <1>5, <3>1, <3>2
    <3>4. V[k] = W[k] /\ W[k].sd <= W[L].sd /\ W[k].sd \in Nat /\ W[L].sd \in Nat
      BY <1>1, <1>4, <3>1
    <3> QED
      BY <3>3, <3>4
  <2>3. CASE ~ (k <= L - 1)
    <3> DEFINE i == k - (L - 1)
               h == j - (L - 1)
    <3>1. i \in 1 .. M /\ L - 1 + i = k /\ h \in 1 .. M /\ L - 1 + h = j
      BY <1>3, <2>3
    <3> HIDE DEF i, h
    <3>2. Back(A, i).k \in JumpKinds /\ Back(A, h).k \notin Plain
      BY <1>3, <1>7, <3>1
    <3> QED
      BY <1>2, <3>1, <3>2
  <2> QED
    BY <2>1, <2>2, <2>3
<1> QED
  BY <1>3, <1>6, <1>7 DEF Nesting, Plain

LEMMA EmptyKept ==
  ASSUME CfgInv, NEW P, NEW W, Lowering(P, W), agenda # <<>>, NEW A, AnySeq(A), agenda' = A \o Rest,
         \A b \in DOMAIN blocks \ ({cur} \cup Waits(S)) : blocks'[b] = blocks[b], NewBlocksEmpty(A)
  PROVE  NothingYet'
<1> DEFINE L == Len(agenda)
           M == Len(A)
<1>1. /\ L \in Nat \ {0} /\ M \in Nat /\ Len(agenda') = L - 1 + M /\ Back(agenda, L) = S
      /\ \A k \in 1 .. L - 1 : Back(agenda', k) = Back(agenda, k)
      /\ \A k \in 1 .. M : Back(agenda', L - 1 + k) = Back(A, k)
  BY AgendaIsAny, AgendaPlaces
<1>2. ASSUME NEW k \in 1 .. L - 1, NEW b \in Waiting(Back(agenda, k))
      PROVE  blocks'[b].stmts = <<>>
  <2>1. /\ DOMAIN agenda = 1 .. L /\ L + 1 - k \in DOMAIN agenda /\ 1 \in DOMAIN agenda /\ L + 1 - k # 1
        /\ Back(agenda, k) = agenda[L + 1 - k] /\ L + 1 - L = 1
    BY <1>1, AgendaIsAny, AnyFacts DEF Back
  <2>2. b \in Waits(agenda[L + 1 - k]) /\ S = agenda[1]
    BY <1>1, <2>1 DEF Waits, Waiting, Back
  <2>3. Waits(agenda[1]) \cap Waits(agenda[L + 1 - k]) = {} /\ b # cur /\ b \in DOMAIN blocks
    BY <2>1, <2>2 DEF CfgInv, BlocksInv, Pending, AgendaIds
  <2>4. blocks'[b] = blocks[b]
    BY <2>2, <2>3
  <2>5. k \in 1 .. L
    BY <1>1
  <2> QED
    BY <2>4, <2>5 DEF Lowering, NothingYet
<1>3. ASSUME NEW k \in 1 .. L - 1 + M, NEW b \in Waiting(Back(agenda', k))
      PROVE  blocks'[b].stmts = <<>>
  <2>1. CASE k <= L - 1
    <3>1. k \in 1 .. L - 1
      BY <1>1, <2>1
    <3> QED
      BY <1>1, <1>2, <1>3, <3>1
  <2>2. CASE ~ (k <= L - 1)
    <3> DEFINE i == k - (L - 1)
    <3>1. i \in 1 .. M /\ L - 1 + i = k
      BY <1>1, <2>2
    <3> HIDE DEF i
    <3> QED
      BY <1>1, <1>3, <3>1 DEF NewBlocksEmpty
  <2> QED
    BY <2>1, <2>2
<1> QED
  BY <1>1, <1>3 DEF NothingYet, NewBlocksEmpty

LEMMA PointsKept ==
  ASSUME CfgInv, NEW P, NEW W, Lowering(P, W), IsOpen(blocks', cur'),
         NEW V, NEW Q, NEW A, NewEntries(W, V, Q, A), NewPoints(W, V, P, Q)
  PROVE  Points(Q, V)'
<1> DEFINE L == Len(agenda)
           M == Len(A)
<1>1. /\ agenda # <<>> /\ AnySeq(A) /\ agenda' = A \o Rest
      /\ \A k \in 0 .. L - 1 : V[k] = W[k]
      /\ ScopesBehind(W)
  BY DEF NewEntries
<1>2. /\ P \subseteq Q /\ Extended(blocks, blocks') /\ Current(V[Len(agenda)])' \in Q
      /\ \A q \in Q \ P : q.b \in DOMAIN blocks' /\ q.i \in Nat \ {0} /\ CodedNext(q, Q, V)
      /\ CodedNext(Current(W[L]), Q, V)
      /\ \A p \in P : Awaited(p, S, W[L], W[L - 1], scope) => CodedNext(p, Q, V)
  BY DEF NewPoints
<1>3. /\ L \in Nat \ {0} /\ M \in Nat /\ Len(agenda') = L - 1 + M /\ Back(agenda, L) = S
      /\ \A k \in 1 .. L - 1 : Back(agenda', k) = Back(agenda, k)
  BY <1>1, AgendaIsAny, AgendaPlaces
<1>4. ~ Done /\ ~ Done'
  BY <1>1 DEF Done
<1>5. ASSUME NEW p \in P
      PROVE  CodedNext(p, Q, V)
  <2>1. p.b \in DOMAIN blocks /\ (Coded(p, P, blocks) \/ Opened(p, W))
    BY DEF Lowering, Points
  <2>2. CASE Coded(p, P, blocks)
    BY <1>2, <2>1, <2>2, CodedStays DEF CodedNext
  <2>3. CASE p = Current(W[L])
    BY <1>2, <2>3
  <2>4. ASSUME NEW k \in 1 .. L, Awaited(p, Back(agenda, k), W[k], W[k - 1], scope)
        PROVE  CodedNext(p, Q, V)
    <3>1. CASE k = L
      BY <1>2, <1>3, <2>4, <3>1
    <3>2. CASE k # L
      <4>1. k \in 1 .. L - 1 /\ k \in 0 .. L - 1 /\ k - 1 \in 0 .. L - 1 /\ k \in 1 .. L - 1 + M
        BY <1>3, <3>2
      <4>2. Back(agenda, k).k \in JumpKinds => SubSeq(scope', 1, W[k].sd) = SubSeq(scope, 1, W[k].sd)
        BY <1>1, <4>1, ScopesStay
      <4>3. Awaited(p, Back(agenda, k), W[k], W[k - 1], scope')
        BY <2>4, <4>2, AwaitedStays
      <4>4. Awaited(p, Back(agenda', k), V[k], V[k - 1], scope')
        BY <1>1, <1>3, <4>1, <4>3
      <4> QED
        BY <1>3, <4>1, <4>4 DEF CodedNext, Opened
    <3> QED
      BY <3>1, <3>2
  <2> QED
    BY <2>1, <2>2, <2>3, <2>4 DEF Opened
<1>6. \A p \in Q : CodedNext(p, Q, V)
  BY <1>2, <1>5
<1>7. \A p \in Q : p.b \in DOMAIN blocks' /\ p.i \in Nat \ {0}
  BY <1>2 DEF Lowering, Points, Extended
<1> QED
  BY <1>2, <1>4, <1>6, <1>7 DEF Points, CodedNext

Splices(P, W, Q, V) ==
  \E A : /\ NewEntries(W, V, Q, A) /\ NewNesting(W, V, A) /\ NewBlocksEmpty(A)
         /\ NewPoints(W, V, P, Q)

LEMMA Spliced2 ==
  ASSUME CfgInv, LowerStmt, NEW P, NEW W, Lowering(P, W), NEW Q, NEW V, Splices(P, W, Q, V)
  PROVE  P \subseteq Q /\ Lowering(Q, V)'
<1>1. CfgInv' /\ \E X : Shape(X)
  BY LowerKeeps
<1>2. PICK A : /\ NewEntries(W, V, Q, A) /\ NewNesting(W, V, A) /\ NewBlocksEmpty(A)
               /\ NewPoints(W, V, P, Q)
  BY DEF Splices
<1>3. P \subseteq Q
  BY <1>2 DEF NewPoints
<1>4. Entries(Q, V)'
  BY <1>1, <1>2, <1>3, EntriesKept
<1>5. Nesting(V)'
  BY <1>1, <1>2, NestingKept
<1>6. NothingYet'
  BY <1>1, <1>2, EmptyKept DEF Shape, NewEntries
<1>7. Points(Q, V)'
  BY <1>1, <1>2, PointsKept DEF Shape
<1> QED
  BY <1>3, <1>4, <1>5, <1>6, <1>7 DEF Lowering

-----------------------------------------------------------------------------
(***************************************************************************)
(* The steps of the lowering, one by one.                                    *)
(***************************************************************************)
LEMMA Before ==
  ASSUME CfgInv, NEW P, NEW W, Lowering(P, W), agenda # <<>>
  PROVE  LET L == Len(agenda)  w == W[L]  v == W[L - 1]
         IN  /\ L \in Nat \ {0} /\ S = Back(agenda, L) /\ AnySeq(agenda) /\ DOMAIN W = 0 .. L
             /\ Listed(blocks) /\ cur \in DOMAIN blocks /\ IsOpen(blocks, cur)
             /\ Len(blocks[cur].stmts) \in Nat
             /\ w.sd = Len(scope) /\ w.ld = Len(loops)
             /\ EntryOK(P, w, loops, nextLocal) /\ EntryOK(P, v, loops, nextLocal)
             /\ ItemOK(P, S, w, v, scope) /\ Current(w) \in P
             /\ v.sd \in Nat /\ v.ld \in Nat /\ w.sd \in Nat /\ w.ld \in Nat
             /\ v.sd <= w.sd /\ v.ld <= w.ld /\ AnySeq(v.cont) /\ AnySeq(w.cont)
             /\ AnySeq(scope) /\ AnySeq(loops) /\ nextLocal \in Nat \ {0}
<1>1. /\ Len(agenda) \in Nat \ {0} /\ S = Back(agenda, Len(agenda))
      /\ AnySeq(agenda) /\ AnySeq(scope) /\ AnySeq(loops)
  BY AgendaIsAny, TailFacts DEF S
<1>2. /\ Listed(blocks) /\ cur \in DOMAIN blocks /\ IsOpen(blocks, cur) /\ nextLocal \in Nat \ {0}
  BY HeadFacts DEF CfgInv, BlocksInv, Typed, Lowering, NothingYet, Listed
<1>3. Len(blocks[cur].stmts) \in Nat
  BY <1>2, AnyFacts DEF Listed
<1>4. ~ Done
  BY DEF Done
<1>5. /\ Len(agenda) \in 0 .. Len(agenda) /\ Len(agenda) - 1 \in 0 .. Len(agenda)
      /\ Len(agenda) \in 1 .. Len(agenda) /\ Len(agenda) \in Len(agenda) - 1 .. Len(agenda)
  BY <1>1
<1> QED
  BY <1>1, <1>2, <1>3, <1>4, <1>5 DEF Lowering, Entries, Nesting, Points, EntryOK

(* The head is done, and nothing is added to the agenda. *)
LEMMA Dropped ==
  ASSUME CfgInv, NEW P, NEW W, Lowering(P, W), agenda # <<>>, agenda' = Rest, NEW Q, NEW V,
         V = [k \in 0 .. Len(agenda) - 1 |-> W[k]],
         Len(scope') = W[Len(agenda) - 1].sd, Len(loops') = W[Len(agenda) - 1].ld,
         nextLocal <= nextLocal', \A i \in 1 .. W[Len(agenda) - 1].ld : loops'[i] = loops[i],
         ScopesBehind(W), Listed(blocks')
  PROVE  /\ NewEntries(W, V, Q, <<>>) /\ NewNesting(W, V, <<>>) /\ NewBlocksEmpty(<<>>)
         /\ V[Len(agenda)]' = W[Len(agenda) - 1]
<1>1. Len(agenda) \in Nat \ {0} /\ AnySeq(agenda)
  BY Before
<1>2. AnySeq(<<>>) /\ Len(<<>>) = 0
  BY AnyEmpty
<1>3. agenda' = <<>> \o Rest
  BY NoItems DEF CfgInv
<1>4. Len(agenda') = Len(agenda) - 1 + 0
  BY <1>1, <1>2, <1>3, AgendaPlaces
<1>5. NewEntries(W, V, Q, <<>>)
  BY <1>1, <1>2, <1>3 DEF NewEntries
<1>6. NewNesting(W, V, <<>>)
  BY <1>2 DEF NewNesting
<1>7. NewBlocksEmpty(<<>>)
  BY <1>2 DEF NewBlocksEmpty, Listed
<1> QED
  BY <1>1, <1>4, <1>5, <1>6, <1>7

LEMMA ScopesSame ==
  ASSUME NEW W, scope' = scope
  PROVE  ScopesBehind(W)
BY DEF ScopesBehind

LEMMA OneItem == ASSUME NEW x PROVE AnySeq(<<x>>) /\ Len(<<x>>) = 1 /\ <<x>>[1] = x
<1>1. <<x>> \in Seq({x}) /\ Len(<<x>>) = 1 /\ <<x>>[1] = x
  OBVIOUS
<1> HIDE DEF AnySeq
<1> QED
  BY <1>1 DEF AnySeq

LEMMA Emitted1 ==
  ASSUME NEW bs, NEW cs, NEW b, NEW s, AnySeq(s), Emits(bs, cs, b, s)
  PROVE  /\ Len(s) \in 1 .. 2 => HasIns(cs, b, Len(bs[b].stmts) + 1, s[1])
         /\ Len(s) = 2 => HasIns(cs, b, Len(bs[b].stmts) + 2, s[2])
<1>1. \A i \in 1 .. Len(s) : HasIns(cs, b, Len(bs[b].stmts) + i, s[i])
  BY DEF Emits
<1>2. Len(s) \in 1 .. 2 => 1 \in 1 .. Len(s)
  OBVIOUS
<1>3. Len(s) = 2 => 2 \in 1 .. Len(s)
  OBVIOUS
<1> QED
  BY <1>1, <1>2, <1>3

LEMMA EmittedOne ==
  ASSUME NEW bs, NEW b, Listed(bs), b \in DOMAIN bs, IsOpen(bs, b), NEW x, NEW cs, cs = Emit(bs, b, <<x>>)
  PROVE  /\ Listed(cs) /\ Extended(bs, cs) /\ DOMAIN cs = DOMAIN bs /\ IsOpen(cs, b)
         /\ Len(cs[b].stmts) = Len(bs[b].stmts) + 1 /\ HasIns(cs, b, Len(bs[b].stmts) + 1, x)
         /\ \A c \in DOMAIN bs : c # b => cs[c] = bs[c]
<1>1. PICK s : s = <<x>>
  OBVIOUS
<1>2. AnySeq(s) /\ Len(s) = 1 /\ s[1] = x /\ cs = Emit(bs, b, s)
  BY <1>1, OneItem
<1>3. Emits(bs, cs, b, s)
  BY <1>2, Emitted
<1>4. HasIns(cs, b, Len(bs[b].stmts) + 1, s[1])
  BY <1>2, <1>3, Emitted1
<1> QED
  BY <1>2, <1>3, <1>4 DEF Emits

LEMMA TwoItems ==
  ASSUME NEW a, NEW b, NEW s, s = <<a, b>>
  PROVE  AnySeq(s) /\ Len(s) = 2 /\ s[1] = a /\ s[2] = b /\ Back(s, 2) = a /\ Back(s, 1) = b
<1>1. s \in Seq({a, b}) /\ Len(s) = 2 /\ s[1] = a /\ s[2] = b
  OBVIOUS
<1>2. Back(s, 2) = a /\ Back(s, 1) = b
  BY <1>1 DEF Back
<1>3. AnySeq(s)
  BY <1>1 DEF AnySeq
<1> QED
  BY <1>1, <1>2, <1>3

(* With point p there is code x, once what follows it has its points. *)
WouldStep(p, c, sc, x) == \A Q : On(p, c, sc) \in Q => Steps(p, Q, x)

(* Scopes differ in the innermost one only. *)
SameBelow(tc, sc) == \A d \in Nat : d < Len(sc) => SubSeq(tc, 1, d) = SubSeq(sc, 1, d)

LEMMA PushSplices ==
  ASSUME CfgInv, NEW P, NEW W, Lowering(P, W), agenda # <<>>,
         S.k \notin {"pop"} \cup Plain, NEW x, Pushes(<<x>>), Len(scope') = Len(scope),
         nextLocal <= nextLocal',
         SameBelow(scope', scope),
         NEW p, p = Current(W[Len(agenda)]), WouldStep(p, W[Len(agenda) - 1].cont, scope', x)
  PROVE  \E Q, V : Splices(P, W, Q, V)
<1>0. PICK L, w, v : L = Len(agenda) /\ w = W[L] /\ v = W[L - 1]
  OBVIOUS
<1>1. blocks' = Emit(blocks, cur, <<x>>) /\ agenda' = Rest /\ cur' = cur /\ loops' = loops
  BY DEF Pushes
<1>2. /\ L \in Nat \ {0} /\ Listed(blocks) /\ cur \in DOMAIN blocks /\ IsOpen(blocks, cur)
      /\ w.sd = Len(scope) /\ w.ld = Len(loops) /\ ItemOK(P, S, w, v, scope) /\ AnySeq(v.cont)
      /\ Len(blocks[cur].stmts) \in Nat /\ w.sd \in Nat
  BY <1>0, Before
<1>3. w.cont = <<S>> \o v.cont /\ v.sd = Len(scope) /\ v.ld = Len(loops)
  BY <1>2 DEF ItemOK, StmtOK, Plain, JumpKinds
<1>4. /\ p.b = cur /\ p.i = Len(blocks[cur].stmts) + 1
      /\ \A d, sc : On(p, d, sc) = Point(cur, Len(blocks[cur].stmts) + 1 + 1, d, sc)
  BY <1>0 DEF Current, On, Point
<1>6. /\ Listed(blocks') /\ Extended(blocks, blocks') /\ DOMAIN blocks' = DOMAIN blocks
      /\ Len(blocks'[cur].stmts) = Len(blocks[cur].stmts) + 1
      /\ HasIns(blocks', cur, Len(blocks[cur].stmts) + 1, x)
  BY <1>1, <1>2, EmittedOne
<1>7. ScopesBehind(W)
  BY <1>0, <1>3 DEF ScopesBehind, Plain, SameBelow
<1>8. PICK V : V = [k \in 0 .. Len(agenda) - 1 |-> W[k]]
  OBVIOUS
<1>9. PICK q, Q : q = On(p, v.cont, scope') /\ Q = P \cup {q}
  OBVIOUS
<1>10. /\ NewEntries(W, V, Q, <<>>) /\ NewNesting(W, V, <<>>) /\ NewBlocksEmpty(<<>>)
       /\ V[Len(agenda)]' = v
  BY <1>0, <1>1, <1>3, <1>6, <1>7, <1>8, Dropped
<1>11. Current(V[Len(agenda)])' = q
  BY <1>1, <1>4, <1>6, <1>9, <1>10 DEF Current
<1>12. Coded(p, Q, blocks')
  <2>1. Steps(p, Q, x)
    BY <1>0, <1>9 DEF WouldStep
  <2> QED
    BY <1>4, <1>6, <2>1, CodedBy
<1>13. NewPoints(W, V, P, Q)
  <2>1. q.b \in DOMAIN blocks' /\ q.i \in Nat \ {0}
    <3>1. q = Point(cur, Len(blocks[cur].stmts) + 1 + 1, v.cont, scope')
      BY <1>4, <1>9
    <3> QED
      BY <1>2, <1>6, <3>1 DEF Point
  <2>2. CodedNext(q, Q, V)
    BY <1>11 DEF CodedNext, Opened
  <2>3. \A r \in P : ~ Awaited(r, S, w, v, scope)
    BY DEF Awaited, Plain, JumpKinds
  <2> QED
    BY <1>0, <1>6, <1>9, <1>11, <1>12, <2>1, <2>2, <2>3 DEF NewPoints, CodedNext
<1> QED
  BY <1>10, <1>13 DEF Splices

(* The head of the agenda is a statement: the current point is before it. *)
LEMMA AtStatement ==
  ASSUME CfgInv, NEW P, NEW W, Lowering(P, W), agenda # <<>>, S.k \notin {"pop"} \cup JumpKinds,
         NEW p, p = Current(W[Len(agenda)]), NEW v, v = W[Len(agenda) - 1]
  PROVE  /\ W[Len(agenda)].cont = <<S>> \o v.cont /\ p.cont = <<S>> \o v.cont
         /\ v.sd = Len(scope) /\ v.ld = Len(loops)
         /\ p.cont # <<>> /\ H(p) = S /\ R(p) = v.cont /\ p.sc = scope
         /\ \A k \in 1 .. Len(p.cont) : Reserves(Back(p.cont, k)) \subseteq 0 .. nextLocal - 1
<1>1. PICK w : w = W[Len(agenda)]
  OBVIOUS
<1>2. /\ ItemOK(P, S, w, v, scope) /\ EntryOK(P, w, loops, nextLocal) /\ AnySeq(v.cont)
      /\ w.sd = Len(scope) /\ w.ld = Len(loops)
  BY <1>1, Before
<1>3. w.cont = <<S>> \o v.cont /\ v.sd = Len(scope) /\ v.ld = Len(loops)
  BY <1>2 DEF ItemOK, StmtOK, JumpKinds
<1>4. p.cont # <<>> /\ H(p) = S /\ R(p) = v.cont /\ p.sc = scope /\ p.cont = w.cont
  <2>1. PICK t, c : t = <<S>> \o c /\ c = v.cont
    OBVIOUS
  <2>2. t # <<>> /\ Head(t) = S /\ Tail(t) = c
    BY <1>2, <2>1, ConsFacts
  <2>3. p.cont = t /\ p.sc = scope
    BY <1>1, <1>3, <2>1 DEF Current, Point
  <2> QED
    BY <1>3, <2>1, <2>2, <2>3 DEF H, R
<1> QED
  BY <1>1, <1>2, <1>3, <1>4 DEF EntryOK

LEMMA ActSplices ==
  ASSUME CfgInv, NEW P, NEW W, Lowering(P, W), LowerAct \/ LowerUse \/ LowerAssign
  PROVE  \E Q, V : Splices(P, W, Q, V)
<1>1. PICK p, v : p = Current(W[Len(agenda)]) /\ v = W[Len(agenda) - 1]
  OBVIOUS
<1>2. /\ agenda # <<>> /\ S.k \in {"act", "drop", "use", "assign"}
      /\ scope' = scope /\ nextLocal' = nextLocal
  BY DEF LowerAct, LowerUse, LowerAssign, Next1, S
<1>3. S.k \notin {"pop"} \cup JumpKinds /\ S.k \notin {"pop"} \cup Plain
  BY <1>2 DEF JumpKinds, Plain
<1>4. p.cont # <<>> /\ H(p) = S /\ R(p) = v.cont /\ p.sc = scope
  BY <1>1, <1>2, <1>3, AtStatement
<1>5. nextLocal <= nextLocal'
  BY <1>2, Before
<1>6. \E x : Pushes(<<x>>) /\ WouldStep(p, v.cont, scope', x)
  <2>1. CASE LowerAct
    <3>1. PICK x : x = IF S.k = "act" THEN [op |-> "act", val |-> S.val] ELSE [op |-> "drop"]
      OBVIOUS
    <3>2. Pushes(<<x>>) /\ S.k \in {"act", "drop"}
      BY <2>1, <3>1 DEF LowerAct, Next1, S
    <3>3. ASSUME NEW Q, On(p, v.cont, scope') \in Q
          PROVE  StepAct(p, Q, x)
      BY <1>2, <1>4, <3>1, <3>2, <3>3 DEF StepAct, Is
    <3> QED
      BY <3>2, <3>3 DEF WouldStep, Steps
  <2>2. CASE LowerUse
    <3>1. PICK x : x = [op |-> "use", src |-> Lookup(S.name)]
      OBVIOUS
    <3>2. Pushes(<<x>>) /\ S.k \in {"use"} /\ x = [op |-> "use", src |-> LookupIn(scope, S.name)]
      BY <2>2, <3>1 DEF LowerUse, Next1, S, Lookup, LookupIn, Holders, Holding
    <3>3. ASSUME NEW Q, On(p, v.cont, scope') \in Q
          PROVE  StepUse(p, Q, x)
      BY <1>2, <1>4, <3>2, <3>3 DEF StepUse, Is
    <3> QED
      BY <3>2, <3>3 DEF WouldStep, Steps
  <2>3. CASE LowerAssign
    <3>1. PICK x : x = Set(Lookup(S.name), S.val)
      OBVIOUS
    <3>2. Pushes(<<x>>) /\ S.k \in {"assign"} /\ x = Set(LookupIn(scope, S.name), S.val)
      BY <2>3, <3>1 DEF LowerAssign, Next1, S, Lookup, LookupIn, Holders, Holding
    <3>3. ASSUME NEW Q, On(p, v.cont, scope') \in Q
          PROVE  StepAssign(p, Q, x)
      BY <1>2, <1>4, <3>2, <3>3 DEF StepAssign, Is
    <3> QED
      BY <3>2, <3>3 DEF WouldStep, Steps
  <2> QED
    BY <2>1, <2>2, <2>3
<1>7. SameBelow(scope', scope) /\ Len(scope') = Len(scope)
  BY <1>2 DEF SameBelow
<1> QED
  BY <1>1, <1>2, <1>3, <1>5, <1>6, <1>7, PushSplices

(* Binding a name changes the innermost scope only, and adds a local to it. *)
LEMMA BoundScopes ==
  ASSUME CfgInv, NEW x, NEW l, NEW t, t = Bound(scope, x, l)
  PROVE      /\ AnySeq(t) /\ Len(t) = Len(scope) /\ Len(scope) \in Nat \ {0}
             /\ SameBelow(t, scope)
             /\ \A i \in 1 .. Len(scope) - 1 : t[i] = scope[i]
             /\ t[Len(scope)] = [y \in DOMAIN scope[Len(scope)] \cup {x} |-> IF y = x THEN l ELSE scope[Len(scope)][y]]
<1>1. PICK f : f = [y \in DOMAIN scope[Len(scope)] \cup {x} |-> IF y = x THEN l ELSE scope[Len(scope)][y]]
  OBVIOUS
<1>2. PICK E : E = Binding \cup {f}
  OBVIOUS
<1>3. scope \in Seq(E) /\ scope # <<>> /\ Len(scope) \in Nat \ {0} /\ f \in E
  <2>1. scope \in Seq(Binding) /\ scope # <<>> /\ Len(scope) \in Nat /\ Len(scope) >= 1
    BY InvFacts
  <2> QED
    BY <1>2, <2>1, SeqMonotonic
<1>4. Len(scope) \in DOMAIN scope /\ DOMAIN scope = 1 .. Len(scope)
  BY <1>3, LenProperties
<1>5. t = [scope EXCEPT ![Len(scope)] = f]
  BY <1>1 DEF Bound
<1>6. t \in Seq(E) /\ Len(t) = Len(scope)
  BY <1>3, <1>4, <1>5, ExceptSeq
<1>7. \A i \in 1 .. Len(scope) : t[i] = IF i = Len(scope) THEN f ELSE scope[i]
  BY <1>4, <1>5
<1>8. AnySeq(t) /\ AnySeq(scope)
  BY <1>3, <1>6 DEF AnySeq
<1>9. ASSUME NEW d \in Nat, d < Len(scope)
      PROVE  SubSeq(t, 1, d) = SubSeq(scope, 1, d)
  <2>1. d \in 0 .. Len(scope) /\ d \in 0 .. Len(t)
    BY <1>3, <1>6, <1>9
  <2>2. PICK a, b : a = SubSeq(t, 1, d) /\ b = SubSeq(scope, 1, d)
    OBVIOUS
  <2>3. /\ AnySeq(a) /\ Len(a) = d /\ \A i \in 1 .. d : a[i] = t[i]
        /\ AnySeq(b) /\ Len(b) = d /\ \A i \in 1 .. d : b[i] = scope[i]
    BY <1>8, <2>1, <2>2, FirstFacts
  <2>4. \A i \in 1 .. d : t[i] = scope[i]
    BY <1>3, <1>7, <1>9
  <2>5. a = b
    BY <2>3, <2>4, SameItems
  <2> QED
    BY <2>2, <2>5
<1>10. /\ \A i \in 1 .. Len(scope) - 1 : t[i] = scope[i]
       /\ t[Len(scope)] = f
  BY <1>3, <1>7
<1> QED
  BY <1>1, <1>3, <1>6, <1>8, <1>9, <1>10 DEF SameBelow

(* The locals from nextLocal on are fresh. *)
LEMMA NewLocals ==
  ASSUME CfgInv, NEW p, p.sc = scope, NEW l \in Nat, nextLocal <= l,
         \A k \in 1 .. Len(p.cont) : Reserves(Back(p.cont, k)) \subseteq 0 .. nextLocal - 1
  PROVE  Fresh(p, l)
<1>1. ScopesBelow(scope, nextLocal) /\ nextLocal \in Nat
  BY InvFacts
<1>2. l \notin 0 .. nextLocal - 1
  BY <1>1
<1>3. \A k \in DOMAIN scope : \A x \in DOMAIN scope[k] : scope[k][x] # l
  BY <1>1, <1>2 DEF ScopesBelow
<1>4. \A k \in 1 .. Len(p.cont) : l \notin Reserves(Back(p.cont, k))
  BY <1>2
<1> QED
  BY <1>3, <1>4 DEF Fresh

LEMMA VarSplices ==
  ASSUME CfgInv, NEW P, NEW W, Lowering(P, W), LowerVar
  PROVE  \E Q, V : Splices(P, W, Q, V)
<1>1. PICK p, v, x : p = Current(W[Len(agenda)]) /\ v = W[Len(agenda) - 1] /\ x = Set(nextLocal, S.val)
  OBVIOUS
<1>2. /\ agenda # <<>> /\ S.k = "var" /\ Pushes(<<x>>)
      /\ scope' = Bound(scope, S.name, nextLocal) /\ nextLocal' = nextLocal + 1
  BY <1>1 DEF LowerVar, Next1, S
<1>3. S.k \notin {"pop"} \cup JumpKinds /\ S.k \notin {"pop"} \cup Plain
  BY <1>2 DEF JumpKinds, Plain
<1>4. /\ p.cont # <<>> /\ H(p) = S /\ R(p) = v.cont /\ p.sc = scope
      /\ \A k \in 1 .. Len(p.cont) : Reserves(Back(p.cont, k)) \subseteq 0 .. nextLocal - 1
  BY <1>1, <1>2, <1>3, AtStatement
<1>5. nextLocal <= nextLocal' /\ nextLocal \in Nat
  BY <1>2, Before
<1>6. Fresh(p, nextLocal)
  BY <1>4, <1>5, NewLocals
<1>7. x.dst = nextLocal
  BY <1>1 DEF Set
<1>8. ASSUME NEW Q, On(p, v.cont, scope') \in Q
      PROVE  StepVar(p, Q, x)
  BY <1>1, <1>2, <1>4, <1>5, <1>6, <1>7, <1>8 DEF StepVar, Is
<1>9. WouldStep(p, v.cont, scope', x)
  BY <1>8 DEF WouldStep, Steps
<1>10. Len(scope') = Len(scope) /\ SameBelow(scope', scope)
  <2>1. PICK y, t : y = S.name /\ t = Bound(scope, y, nextLocal)
    OBVIOUS
  <2>2. Len(t) = Len(scope) /\ SameBelow(t, scope)
    BY <2>1, BoundScopes
  <2> QED
    BY <1>2, <2>1, <2>2
<1> QED
  BY <1>1, <1>2, <1>3, <1>5, <1>9, <1>10, PushSplices

(* A jump ends the block; what follows goes into a fresh one. *)
LEMMA SameBound == ASSUME NEW m \in Nat, NEW n \in Nat, 1 .. m = 1 .. n PROVE m = n
<1>1. m \in 1 .. m \/ m = 0
  OBVIOUS
<1>2. n \in 1 .. n \/ n = 0
  OBVIOUS
<1>3. m <= n
  BY <1>1
<1>4. n <= m
  BY <1>2
<1> QED
  BY <1>3, <1>4

LEMMA LeftBlocks ==
  ASSUME NEW bs, Listed(bs), NEW b, b \in DOMAIN bs, IsOpen(bs, b), NEW t, t # Unreachable,
         NEW n \in Nat, NEW cs, cs = NewBlocks(Terminate(bs, b, t), n)
  PROVE  /\ Listed(cs) /\ Extended(bs, cs) /\ HasTerm(cs, b, Len(bs[b].stmts) + 1, t)
         /\ n = 1 => Len(bs) + 1 \in DOMAIN cs /\ cs[Len(bs) + 1].stmts = <<>>
<1>1. PICK ds : ds = Terminate(bs, b, t)
  OBVIOUS
<1>2. /\ Listed(ds) /\ Extended(bs, ds) /\ DOMAIN ds = DOMAIN bs
      /\ HasTerm(ds, b, Len(bs[b].stmts) + 1, t)
  <2>1. Seals(bs, ds, b, t)
    BY <1>1, Terminated
  <2> QED
    BY <2>1 DEF Seals
<1>3. cs = NewBlocks(ds, n)
  BY <1>1
<1>4. Adds(ds, cs, n)
  BY <1>2, <1>3, BlocksAdded
<1>5. Len(bs) \in Nat /\ DOMAIN bs = 1 .. Len(bs)
  BY BlockList DEF Listed
<1>6. Len(ds) = Len(bs)
  BY <1>2, <1>4, <1>5, SameBound DEF Adds
<1>7. Extended(bs, cs)
  BY <1>2, <1>4, ExtendedMore DEF Adds
<1>8. HasTerm(cs, b, Len(bs[b].stmts) + 1, t)
  BY <1>2, <1>4, CodeStays DEF Adds
<1>9. n = 1 => Len(ds) + 1 \in 1 .. Len(ds) + n /\ Len(ds) + 1 \in Len(ds) + 1 .. Len(ds) + n
  BY <1>4 DEF Adds
<1> QED
  BY <1>4, <1>6, <1>7, <1>8, <1>9 DEF Adds

(* With point p the block ends with t, once there are the points Q. *)
WouldEnd(p, P, t) == \A Q : P \subseteq Q => Closes(p, Q, t)

LEMMA LeaveSplices ==
  ASSUME CfgInv, NEW P, NEW W, Lowering(P, W), agenda # <<>>,
         S.k \notin {"pop"} \cup Plain, NEW t, t # Unreachable, LeaveBy(t),
         NEW p, p = Current(W[Len(agenda)]), WouldEnd(p, P, t)
  PROVE  \E Q, V : Splices(P, W, Q, V)
<1>0. PICK L, w, v : L = Len(agenda) /\ w = W[L] /\ v = W[L - 1]
  OBVIOUS
<1>1. /\ blocks' = NewBlocks(Terminate(blocks, cur, t), 1) /\ cur' = Len(blocks) + 1
      /\ agenda' = Rest /\ loops' = loops /\ scope' = scope /\ nextLocal' = nextLocal
  BY DEF LeaveBy
<1>2. /\ L \in Nat \ {0} /\ Listed(blocks) /\ cur \in DOMAIN blocks /\ IsOpen(blocks, cur)
      /\ AnySeq(v.cont) /\ nextLocal \in Nat
  BY <1>0, Before
<1>3. v.sd = Len(scope) /\ v.ld = Len(loops)
  <2>1. S.k \notin {"pop"} \cup JumpKinds
    BY DEF Plain
  <2> QED
    BY <1>0, <2>1, AtStatement
<1>4. p.b = cur /\ p.i = Len(blocks[cur].stmts) + 1
  BY <1>0 DEF Current, Point
<1>5. /\ Listed(blocks') /\ Extended(blocks, blocks')
      /\ HasTerm(blocks', cur, Len(blocks[cur].stmts) + 1, t)
      /\ cur' \in DOMAIN blocks' /\ blocks'[cur'].stmts = <<>>
  BY <1>1, <1>2, LeftBlocks
<1>6. ScopesBehind(W) /\ nextLocal <= nextLocal'
  BY <1>1, <1>2, ScopesSame
<1>7. PICK V : V = [k \in 0 .. Len(agenda) - 1 |-> W[k]]
  OBVIOUS
<1>8. PICK q, Q : q = Point(cur', 1, v.cont, scope) /\ Q = P \cup {q}
  OBVIOUS
<1>9. /\ NewEntries(W, V, Q, <<>>) /\ NewNesting(W, V, <<>>) /\ NewBlocksEmpty(<<>>)
      /\ V[Len(agenda)]' = v
  BY <1>0, <1>1, <1>3, <1>5, <1>6, <1>7, Dropped
<1>10. Current(V[Len(agenda)])' = q
  <2>1. Len(blocks'[cur'].stmts) + 1 = 1
    BY <1>5, AnyEmpty
  <2> QED
    BY <1>1, <1>8, <1>9, <2>1 DEF Current
<1>11. Coded(p, Q, blocks')
  <2>1. Closes(p, Q, t)
    BY <1>8 DEF WouldEnd
  <2> QED
    BY <1>4, <1>5, <2>1, CodedBy
<1>12. NewPoints(W, V, P, Q)
  <2>1. q.b \in DOMAIN blocks' /\ q.i \in Nat \ {0}
    BY <1>5, <1>8 DEF Point
  <2>2. CodedNext(q, Q, V)
    BY <1>10 DEF CodedNext, Opened
  <2>3. \A r \in P : ~ Awaited(r, S, w, v, scope)
    BY DEF Awaited, Plain, JumpKinds
  <2> QED
    BY <1>0, <1>5, <1>8, <1>10, <1>11, <2>1, <2>2, <2>3 DEF NewPoints, CodedNext
<1> QED
  BY <1>9, <1>12 DEF Splices

LEMMA JumpSplices ==
  ASSUME CfgInv, NEW P, NEW W, Lowering(P, W), LowerReturn \/ LowerBreak \/ LowerContinue
  PROVE  \E Q, V : Splices(P, W, Q, V)
<1>1. PICK p, v, w : p = Current(w) /\ v = W[Len(agenda) - 1] /\ w = W[Len(agenda)]
  OBVIOUS
<1>2. agenda # <<>> /\ S.k \in {"return", "break", "continue"}
  BY DEF LowerReturn, LowerBreak, LowerContinue, Next1, S
<1>3. S.k \notin {"pop"} \cup JumpKinds /\ S.k \notin {"pop"} \cup Plain
  BY <1>2 DEF JumpKinds, Plain
<1>4. p.cont # <<>> /\ H(p) = S /\ p.cont = w.cont
  <2>1. p.cont = w.cont
    BY <1>1 DEF Current, Point
  <2> QED
    BY <1>1, <1>2, <1>3, <2>1, AtStatement
<1>5. ASSUME loops # <<>>
      PROVE  LoopOK(P, w, loops[Len(loops)])
  <2>1. w.ld = Len(loops) /\ w.ld \in Nat /\ EntryOK(P, w, loops, nextLocal) /\ AnySeq(loops)
    BY <1>1, <1>2, Before
  <2>2. w.ld > 0
    BY <1>5, <2>1, AnyFacts
  <2> QED
    BY <2>1, <2>2 DEF EntryOK
<1>6. \E t : t # Unreachable /\ LeaveBy(t) /\ WouldEnd(p, P, t)
  <2>1. CASE LowerReturn
    <3>1. PICK t : t = Return(S.val)
      OBVIOUS
    <3>2. LeaveBy(t) /\ S.k \in {"return"}
      BY <2>1, <3>1 DEF LowerReturn, Next1, S
    <3>3. t # Unreachable
      BY <3>1 DEF Return, Unreachable
    <3>4. \A Q : Closes(p, Q, t)
      BY <1>4, <3>1, <3>2 DEF Closes, EndReturn, Is
    <3> QED
      BY <3>2, <3>3, <3>4 DEF WouldEnd
  <2>2. CASE LowerBreak
    <3>1. PICK t, l : t = Goto(loops[Len(loops)].brk) /\ l = Back(w.cont, w.in)
      OBVIOUS
    <3>2. LeaveBy(t) /\ S.k \in {"break"} /\ loops # <<>>
      BY <2>2, <3>1 DEF LowerBreak, Next1, S
    <3>3. t # Unreachable
      BY <3>1 DEF Goto, Unreachable
    <3>4. /\ Nearest(w.cont, w.in) /\ l.exit = loops[Len(loops)].brk /\ ExitPoint(l) \in P
          /\ w.in \in 1 .. Len(w.cont)
      BY <1>5, <3>1, <3>2 DEF LoopOK, Nearest
    <3>5. ASSUME NEW Q, P \subseteq Q
          PROVE  EndBreak(p, Q, t)
      BY <1>4, <3>1, <3>2, <3>4, <3>5 DEF EndBreak, Is
    <3> QED
      BY <3>2, <3>3, <3>5 DEF WouldEnd, Closes
  <2>3. CASE LowerContinue
    <3>1. PICK t, l : t = Goto(loops[Len(loops)].cont) /\ l = Back(w.cont, w.in)
      OBVIOUS
    <3>2. LeaveBy(t) /\ S.k \in {"continue"} /\ loops # <<>>
      BY <2>3, <3>1 DEF LowerContinue, Next1, S
    <3>3. t # Unreachable
      BY <3>1 DEF Goto, Unreachable
    <3>4. /\ Nearest(w.cont, w.in) /\ l.cont = loops[Len(loops)].cont /\ ContPoint(l) \in P
          /\ w.in \in 1 .. Len(w.cont)
      BY <1>5, <3>1, <3>2 DEF LoopOK, Nearest
    <3>5. ASSUME NEW Q, P \subseteq Q
          PROVE  EndContinue(p, Q, t)
      BY <1>4, <3>1, <3>2, <3>4, <3>5 DEF EndContinue, Is
    <3> QED
      BY <3>2, <3>3, <3>5 DEF WouldEnd, Closes
  <2> QED
    BY <2>1, <2>2, <2>3
<1> QED
  BY <1>1, <1>2, <1>3, <1>6, LeaveSplices

(* Two scopes have the first d bindings in common. *)
SameTo(t, s, n) == \A d \in Nat : d <= n => SubSeq(t, 1, d) = SubSeq(s, 1, d)

LEMMA Shortened ==
  ASSUME NEW s, AnySeq(s), NEW n, n \in 0 .. Len(s), NEW t, t = SubSeq(s, 1, n)
  PROVE  /\ AnySeq(t) /\ Len(t) = n /\ \A i \in 1 .. n : t[i] = s[i]
         /\ SameTo(t, s, n)
<1>1. /\ AnySeq(t) /\ Len(t) = n /\ \A i \in 1 .. n : t[i] = s[i]
      /\ \A d \in 0 .. n : SubSeq(t, 1, d) = SubSeq(s, 1, d)
  BY FirstFacts
<1>2. n \in Nat
  BY AnyFacts
<1>3. \A d \in Nat : d <= n => d \in 0 .. n
  BY <1>2
<1> QED
  BY <1>1, <1>3 DEF SameTo

LEMMA PopSplices ==
  ASSUME CfgInv, NEW P, NEW W, Lowering(P, W), EndBlock
  PROVE  \E Q, V : Splices(P, W, Q, V)
<1>0. PICK L, w, v, p, n : L = Len(agenda) /\ w = W[L] /\ v = W[L - 1] /\ p = Current(w) /\ n = Len(scope) - 1
  OBVIOUS
<1>1. /\ agenda # <<>> /\ S.k = "pop" /\ scope' = SubSeq(scope, 1, n) /\ agenda' = Rest
      /\ blocks' = blocks /\ cur' = cur /\ loops' = loops /\ nextLocal' = nextLocal
  BY <1>0 DEF EndBlock, Next1, S
<1>2. /\ L \in Nat \ {0} /\ Listed(blocks) /\ cur \in DOMAIN blocks /\ AnySeq(v.cont)
      /\ nextLocal \in Nat /\ ItemOK(P, S, w, v, scope) /\ AnySeq(scope)
      /\ w.sd = Len(scope) /\ w.ld = Len(loops) /\ v.sd \in Nat /\ Current(w) \in P
      /\ Len(blocks[cur].stmts) \in Nat
  BY <1>0, <1>1, Before
<1>3. w.cont = <<Pop>> \o v.cont /\ v.sd = n /\ v.ld = Len(loops) /\ n \in 0 .. Len(scope) /\ n \in Nat
  BY <1>0, <1>1, <1>2 DEF ItemOK, PopOK
<1>4. PICK t : t = SubSeq(scope, 1, n)
  OBVIOUS
<1>5. AnySeq(t) /\ Len(t) = n /\ SameTo(t, scope, n)
  <2>1. AnySeq(scope) /\ n \in 0 .. Len(scope)
    BY <1>2, <1>3
  <2> QED
    BY <1>4, <2>1, Shortened
<1>6. ScopesBehind(W) /\ nextLocal <= nextLocal' /\ Len(scope') = n
  BY <1>0, <1>1, <1>2, <1>3, <1>4, <1>5 DEF ScopesBehind, SameTo
<1>7. PICK V : V = [k \in 0 .. Len(agenda) - 1 |-> W[k]]
  OBVIOUS
<1>8. PICK q, Q : q = Point(p.b, p.i, v.cont, scope') /\ Q = P \cup {q}
  OBVIOUS
<1>9. /\ NewEntries(W, V, Q, <<>>) /\ NewNesting(W, V, <<>>) /\ NewBlocksEmpty(<<>>)
      /\ V[Len(agenda)]' = v
  BY <1>0, <1>1, <1>2, <1>3, <1>6, <1>7, Dropped
<1>10. p.b = cur /\ p.i = Len(blocks[cur].stmts) + 1 /\ p.cont = w.cont /\ p.sc = scope
  BY <1>0 DEF Current, Point
<1>11. Current(V[Len(agenda)])' = q
  BY <1>1, <1>8, <1>9, <1>10 DEF Current
<1>12. HerePop(p, Q)
  <2>1. PICK a, c, u : a = Pop /\ c = v.cont /\ u = <<a>> \o c
    OBVIOUS
  <2>2. u # <<>> /\ Head(u) = a /\ Tail(u) = c
    BY <1>2, <2>1, ConsFacts
  <2>3. Is(p, {"pop"}) /\ R(p) = v.cont
    BY <1>3, <1>10, <2>1, <2>2 DEF Is, H, R, Pop
  <2> QED
    BY <1>0, <1>1, <1>8, <1>10, <2>3 DEF HerePop
<1>13. Extended(blocks, blocks')
  BY <1>1 DEF Extended
<1>14. NewPoints(W, V, P, Q)
  <2>1. q.b \in DOMAIN blocks' /\ q.i \in Nat \ {0}
    BY <1>1, <1>2, <1>8, <1>10 DEF Point
  <2>2. CodedNext(q, Q, V) /\ CodedNext(p, Q, V)
    BY <1>11, <1>12 DEF CodedNext, Opened, Coded, Here
  <2>3. \A r \in P : ~ Awaited(r, S, w, v, scope)
    BY <1>1 DEF Awaited
  <2> QED
    BY <1>0, <1>8, <1>11, <1>13, <2>1, <2>2, <2>3 DEF NewPoints
<1> QED
  BY <1>9, <1>14 DEF Splices

(* The blocks when the current one is closed by a jump. *)
LEMMA ClosedBlocks ==
  ASSUME CfgInv, NEW P, NEW W, Lowering(P, W), agenda # <<>>, NEW b,
         NEW cs, cs = TerminateIfOpen(blocks, cur, Goto(b))
  PROVE  Seals(blocks, cs, cur, Goto(b))
<1>1. Listed(blocks) /\ cur \in DOMAIN blocks /\ IsOpen(blocks, cur)
  BY Before
<1>2. PICK t : t = Goto(b) /\ t # Unreachable
  BY DEF Goto, Unreachable
<1>3. cs = Terminate(blocks, cur, t)
  BY <1>1, <1>2 DEF TerminateIfOpen
<1>4. Seals(blocks, cs, cur, t)
  BY <1>1, <1>2, <1>3, Terminated
<1> QED
  BY <1>2, <1>4

(* What the head waits for is in the blocks, empty, and not the current one. *)
LEMMA WaitingEmpty ==
  ASSUME CfgInv, NEW P, NEW W, Lowering(P, W), agenda # <<>>, NEW b \in Waiting(S)
  PROVE  b \in DOMAIN blocks /\ b # cur /\ IsOpen(blocks, b) /\ blocks[b].stmts = <<>>
<1>1. Len(agenda) \in 1 .. Len(agenda) /\ S = Back(agenda, Len(agenda))
  BY Before
<1>2. blocks[b].stmts = <<>>
  BY <1>1 DEF Lowering, NothingYet
<1>3. b \in Waits(S)
  BY DEF Waiting, Waits
<1> QED
  BY <1>2, <1>3, HeadFacts DEF CfgInv

(* The next block takes over: there is a point for its beginning already. *)
LEMMA TakesOver ==
  ASSUME CfgInv, NEW P, NEW W, Lowering(P, W), agenda # <<>>, NEW Q, NEW V, P \subseteq Q, Extended(blocks, blocks'),
         cur' \in Waiting(S), blocks'[cur'] = blocks[cur'], scope' = scope,
         NEW v, V[Len(agenda)]' = v, Point(cur', 1, v.cont, scope) \in Q,
         \A q \in Q \ P : q.b \in DOMAIN blocks' /\ q.i \in Nat \ {0} /\ Coded(q, Q, blocks'),
         Coded(Current(W[Len(agenda)]), Q, blocks'),
         \A p \in P : Awaited(p, S, W[Len(agenda)], W[Len(agenda) - 1], scope) =>
           p = Point(cur', 1, v.cont, scope) \/ Coded(p, Q, blocks')
  PROVE  NewPoints(W, V, P, Q)
<1>1. PICK q : q = Point(cur', 1, v.cont, scope)
  OBVIOUS
<1>2. blocks'[cur'].stmts = <<>>
  BY WaitingEmpty
<1>3. Len(blocks'[cur'].stmts) + 1 = 1
  BY <1>2, AnyEmpty
<1>4. Current(V[Len(agenda)])' = q
  BY <1>1, <1>3 DEF Current
<1>5. CodedNext(q, Q, V)
  BY <1>4 DEF CodedNext, Opened
<1>6. \A p \in P : Awaited(p, S, W[Len(agenda)], W[Len(agenda) - 1], scope) => CodedNext(p, Q, V)
  BY <1>1, <1>5 DEF CodedNext
<1> QED
  BY <1>1, <1>4, <1>5, <1>6 DEF NewPoints, CodedNext

LEMMA ArmSplices ==
  ASSUME CfgInv, NEW P, NEW W, Lowering(P, W), EndArm
  PROVE  \E Q, V : Splices(P, W, Q, V)
<1>0. PICK L, w, v, p : L = Len(agenda) /\ w = W[L] /\ v = W[L - 1] /\ p = Current(w)
  OBVIOUS
<1>1. /\ agenda # <<>> /\ S.k = "arm" /\ scope' = scope /\ agenda' = Rest /\ cur' = S.next
      /\ blocks' = TerminateIfOpen(blocks, cur, Goto(S.join)) /\ loops' = loops /\ nextLocal' = nextLocal
  BY DEF EndArm, Next1, S
<1>2. /\ L \in Nat \ {0} /\ Listed(blocks) /\ AnySeq(scope)
      /\ nextLocal \in Nat /\ ItemOK(P, S, w, v, scope)
      /\ w.sd = Len(scope) /\ w.ld = Len(loops)
  BY <1>0, <1>1, Before
<1>3. /\ v.sd = Len(scope) /\ v.ld = Len(loops)
      /\ Point(S.join, 1, w.cont, scope) \in P /\ Point(S.next, 1, v.cont, scope) \in P
  <2>1. SubSeq(scope, 1, Len(scope)) = scope
    <3>1. Len(scope) \in 0 .. Len(scope)
      BY <1>2, AnyFacts
    <3> QED
      BY <1>2, <3>1, FirstFacts
  <2> QED
    BY <1>1, <1>2, <2>1 DEF ItemOK, ArmOK
<1>4. S.next \in Waiting(S)
  BY <1>1 DEF Waiting
<1>5. Seals(blocks, blocks', cur, Goto(S.join))
  <2>1. PICK cs, b : cs = blocks' /\ b = S.join
    OBVIOUS
  <2>2. Seals(blocks, cs, cur, Goto(b))
    BY <1>1, <2>1, ClosedBlocks
  <2> QED
    BY <2>1, <2>2
<1>6. S.next \in DOMAIN blocks /\ S.next # cur
  BY <1>1, <1>4, WaitingEmpty
<1>7. /\ Listed(blocks') /\ Extended(blocks, blocks') /\ blocks'[S.next] = blocks[S.next]
      /\ HasTerm(blocks', cur, Len(blocks[cur].stmts) + 1, Goto(S.join))
  BY <1>5, <1>6 DEF Seals
<1>8. PICK V : V = [k \in 0 .. Len(agenda) - 1 |-> W[k]]
  OBVIOUS
<1>9. ScopesBehind(W) /\ nextLocal <= nextLocal'
  BY <1>1, <1>2, ScopesSame
<1>10. /\ NewEntries(W, V, P, <<>>) /\ NewNesting(W, V, <<>>) /\ NewBlocksEmpty(<<>>)
       /\ V[Len(agenda)]' = v
  BY <1>0, <1>1, <1>2, <1>3, <1>7, <1>8, <1>9, Dropped
<1>11. Coded(p, P, blocks')
  <2>1. p.b = cur /\ p.i = Len(blocks[cur].stmts) + 1 /\ p.cont = w.cont /\ p.sc = scope
    BY <1>0 DEF Current, Point
  <2>2. PICK t : t = Goto(S.join)
    OBVIOUS
  <2>3. EndJump(p, P, t)
    BY <1>3, <2>1, <2>2 DEF EndJump, Goto
  <2>4. Closes(p, P, t)
    BY <2>3 DEF Closes
  <2> QED
    BY <1>7, <2>1, <2>2, <2>4, CodedBy
<1>12. \A r : Awaited(r, S, w, v, scope) => r = Point(S.next, 1, v.cont, scope)
  <2>1. SubSeq(scope, 1, w.sd) = scope
    <3>1. Len(scope) \in 0 .. Len(scope)
      BY <1>2, AnyFacts
    <3> QED
      BY <1>2, <3>1, FirstFacts
  <2> QED
    BY <1>1, <2>1 DEF Awaited
<1>13. NewPoints(W, V, P, P)
  BY <1>0, <1>1, <1>3, <1>4, <1>7, <1>10, <1>11, <1>12, TakesOver
<1> QED
  BY <1>10, <1>13 DEF Splices

(* The loop that ends, and its points. *)
EndsLoop(P, w, v, l) ==
  /\ v.ld = Len(loops) - 1 /\ v.sd = Len(scope) /\ AnySeq(v.cont) /\ Len(loops) \in Nat
  /\ w.cont = Closing(l) \o v.cont
  /\ l.k = "again" /\ l.stmt.k \in {"while", "list", "iter"}
  /\ l.cont = S.cont /\ l.exit = S.brk /\ l.rest = v.cont /\ l.sc = scope
  /\ ExitPoint(l) \in P /\ ContPoint(l) \in P /\ ExitPoint(l) = Point(S.brk, 1, v.cont, scope)
  /\ S.k = "endlist" <=> l.stmt.k = "list"
  /\ l.stmt.k = "while" => Point(S.cont, 1, <<l.stmt>> \o v.cont, scope) \in P
  /\ S.k = "endlist" => S.i = l.l + 1 /\ Point(S.head, 1, <<Stage("round", l)>> \o v.cont, scope) \in P


LEMMA EndingLoop ==
  ASSUME CfgInv, NEW P, NEW W, Lowering(P, W), agenda # <<>>, S.k \in {"end", "endlist"},
         NEW w, w = W[Len(agenda)], NEW v, v = W[Len(agenda) - 1], NEW l, l = Back(w.cont, w.in)
  PROVE  EndsLoop(P, w, v, l)
<1>1. /\ AnySeq(scope) /\ ItemOK(P, S, w, v, scope) /\ w.sd = Len(scope) /\ w.ld = Len(loops)
      /\ AnySeq(v.cont) /\ AnySeq(loops)
  BY Before
<1>2. SubSeq(scope, 1, Len(scope)) = scope
  <2>1. Len(scope) \in 0 .. Len(scope)
    BY <1>1, AnyFacts
  <2> QED
    BY <1>1, <2>1, FirstFacts
<1>3. EndOK(P, S, w, v, scope)
  BY <1>1 DEF ItemOK
<1>4. Len(loops) \in Nat
  BY <1>1, AnyFacts
<1> QED
  BY <1>1, <1>2, <1>3, <1>4 DEF EndOK, ExitPoint, EndsLoop

LEMMA FramePopped ==
  ASSUME CfgInv, NEW n, n \in 0 .. Len(loops), NEW ls, ls = SubSeq(loops, 1, n)
  PROVE  Len(ls) = n /\ \A i \in 1 .. n : ls[i] = loops[i]
<1>1. AnySeq(loops)
  BY AgendaIsAny
<1> QED
  BY <1>1, FirstFacts

LEMMA PairCons == ASSUME NEW a, NEW b, NEW c, AnySeq(c) PROVE <<a, b>> \o c = <<a>> \o (<<b>> \o c)
<1>1. PICK E : c \in Seq(E)
  BY DEF AnySeq
<1>2. PICK D : D = E \cup {a, b}
  OBVIOUS
<1>3. c \in Seq(D)
  BY <1>1, <1>2, SeqMonotonic
<1>4. <<a>> \in Seq(D) /\ <<b>> \in Seq(D)
  BY <1>2
<1>5. <<a>> \o <<b>> = <<a, b>>
  <2>1. PICK x, y, z : x = <<a>> /\ y = <<b>> /\ z = <<a, b>>
    OBVIOUS
  <2>2. /\ AnySeq(x) /\ Len(x) = 1 /\ Back(x, 1) = a /\ AnySeq(y) /\ Len(y) = 1 /\ Back(y, 1) = b
    BY <2>1, OneItem DEF Back
  <2>3. AnySeq(z) /\ Len(z) = 2 /\ Back(z, 2) = a /\ Back(z, 1) = b
    BY <2>1, TwoItems
  <2>4. PICK u : u = x \o y
    OBVIOUS
  <2>5. AnySeq(u) /\ Len(u) = 2 /\ Back(u, 1) = b /\ Back(u, 2) = a
    <3>1. AnySeq(u) /\ Len(u) = Len(x) + Len(y)
      BY <2>2, <2>4, CatFacts
    <3>2. 1 \in 1 .. Len(x) /\ 1 \in 1 .. Len(y)
      BY <2>2
    <3>3. Back(u, 1) = Back(y, 1)
      BY <2>2, <2>4, <3>2, CatFacts
    <3>4. Back(u, Len(y) + 1) = Back(x, 1)
      BY <2>2, <2>4, <3>2, CatFacts
    <3> QED
      BY <2>2, <3>1, <3>3, <3>4
  <2>6. \A k \in 1 .. Len(u) : Back(u, k) = Back(z, k)
    BY <2>3, <2>5
  <2>7. u = z
    BY <2>3, <2>5, <2>6, AnyEqual
  <2> QED
    BY <2>1, <2>4, <2>7
<1>6. (<<a>> \o <<b>>) \o c = <<a>> \o (<<b>> \o c)
  BY <1>3, <1>4, ConcatAssociative
<1> QED
  BY <1>5, <1>6

(* The point at the end of a for's body. *)
LEMMA AtBodyEnd ==
  ASSUME NEW l, NEW c, AnySeq(c), NEW p, p.cont = <<FPop, l>> \o c, l.k = "again", NEW Q, ContPoint(l) \in Q
  PROVE  EndBody(p, Q, Goto(l.cont))
<1>1. PICK t, a, u : t = <<l>> \o c /\ a = FPop /\ u = <<a>> \o t
  OBVIOUS
<1>2. AnySeq(t) /\ t # <<>> /\ Head(t) = l
  BY <1>1, ConsFacts
<1>3. u # <<>> /\ Head(u) = a /\ Tail(u) = t
  BY <1>1, <1>2, ConsFacts
<1>4. <<a, l>> \o c = u
  <2>1. <<a, l>> \o c = <<a>> \o (<<l>> \o c)
    BY PairCons
  <2> QED
    BY <1>1, <2>1
<1>5. p.cont = u
  BY <1>1, <1>4
<1>6. H(p) = a /\ R(p) = t /\ p.cont # <<>> /\ a.k = "fpop"
  BY <1>1, <1>3, <1>5 DEF H, R, FPop
<1> QED
  BY <1>2, <1>6 DEF EndBody, Is

(* The end of a loop's body, and the point after the loop. *)
LEMMA EndSplices ==
  ASSUME CfgInv, NEW P, NEW W, Lowering(P, W), EndLoop
  PROVE  \E Q, V : Splices(P, W, Q, V)
<1>0. PICK L, w, v, p, l : /\ L = Len(agenda) /\ w = W[L] /\ v = W[L - 1] /\ p = Current(w)
                           /\ l = Back(w.cont, w.in)
  OBVIOUS
<1>1. /\ agenda # <<>> /\ S.k = "end" /\ scope' = scope /\ agenda' = Rest /\ cur' = S.brk
      /\ blocks' = TerminateIfOpen(blocks, cur, Goto(S.cont)) /\ nextLocal' = nextLocal
      /\ loops' = SubSeq(loops, 1, Len(loops) - 1)
  BY DEF EndLoop, Next1, S
<1>2. /\ v.ld = Len(loops) - 1 /\ v.sd = Len(scope) /\ AnySeq(v.cont)
      /\ w.cont = Closing(l) \o v.cont
      /\ l.k = "again" /\ l.cont = S.cont /\ l.exit = S.brk /\ l.rest = v.cont /\ l.sc = scope
      /\ ExitPoint(l) \in P /\ ContPoint(l) \in P /\ ExitPoint(l) = Point(S.brk, 1, v.cont, scope)
      /\ l.stmt.k = "while" => Point(S.cont, 1, <<l.stmt>> \o v.cont, scope) \in P
  <2>1. EndsLoop(P, w, v, l)
    BY <1>0, <1>1, EndingLoop
  <2> QED
    BY <2>1 DEF EndsLoop
<1>3. /\ nextLocal \in Nat /\ v.ld \in Nat /\ Len(blocks[cur].stmts) \in Nat /\ cur \in DOMAIN blocks
  BY <1>0, <1>1, Before
<1>4. S.brk \in Waiting(S)
  BY <1>1 DEF Waiting
<1>5. Seals(blocks, blocks', cur, Goto(S.cont))
  <2>1. PICK cs, b : cs = blocks' /\ b = S.cont
    OBVIOUS
  <2>2. Seals(blocks, cs, cur, Goto(b))
    BY <1>1, <2>1, ClosedBlocks
  <2> QED
    BY <2>1, <2>2
<1>6. S.brk \in DOMAIN blocks /\ S.brk # cur
  BY <1>1, <1>4, WaitingEmpty
<1>7. /\ Listed(blocks') /\ Extended(blocks, blocks') /\ blocks'[S.brk] = blocks[S.brk]
      /\ HasTerm(blocks', cur, Len(blocks[cur].stmts) + 1, Goto(S.cont)) /\ DOMAIN blocks' = DOMAIN blocks
  BY <1>5, <1>6 DEF Seals
<1>8. PICK V : V = [k \in 0 .. Len(agenda) - 1 |-> W[k]]
  OBVIOUS
<1>9. ScopesBehind(W) /\ nextLocal <= nextLocal'
  BY <1>1, <1>3, ScopesSame
<1>10. Len(loops') = v.ld /\ \A i \in 1 .. v.ld : loops'[i] = loops[i]
  <2>1. PICK n, ls : n = Len(loops) - 1 /\ ls = SubSeq(loops, 1, n)
    OBVIOUS
  <2>2. n \in 0 .. Len(loops)
    BY <1>2, <1>3, <2>1
  <2>3. Len(ls) = n /\ \A i \in 1 .. n : ls[i] = loops[i]
    BY <2>1, <2>2, FramePopped
  <2> QED
    BY <1>1, <1>2, <2>1, <2>3
<1>11. PICK q, Q : /\ q = Point(p.b, p.i, <<l.stmt>> \o v.cont, scope)
                   /\ Q = IF l.stmt.k = "while" THEN P \cup {q} ELSE P
  OBVIOUS
<1>12. /\ NewEntries(W, V, Q, <<>>) /\ NewNesting(W, V, <<>>) /\ NewBlocksEmpty(<<>>)
       /\ V[Len(agenda)]' = v
  <2>1. /\ Len(scope') = W[Len(agenda) - 1].sd /\ Len(loops') = W[Len(agenda) - 1].ld
        /\ \A i \in 1 .. W[Len(agenda) - 1].ld : loops'[i] = loops[i]
    BY <1>0, <1>1, <1>2, <1>10
  <2>2. agenda # <<>> /\ agenda' = Rest /\ Listed(blocks')
    BY <1>1, <1>7
  <2>3. /\ NewEntries(W, V, Q, <<>>) /\ NewNesting(W, V, <<>>) /\ NewBlocksEmpty(<<>>)
        /\ V[Len(agenda)]' = W[Len(agenda) - 1]
    BY <1>8, <1>9, <2>1, <2>2, Dropped
  <2> QED
    BY <1>0, <2>3
<1>13. /\ p.b = cur /\ p.i = Len(blocks[cur].stmts) + 1 /\ p.cont = w.cont /\ p.sc = scope
  BY <1>0 DEF Current, Point
<1>14. PICK t : t = Goto(S.cont)
  OBVIOUS
<1>20. t = Goto(t.to) /\ t.t = "goto" /\ t.to = S.cont
  BY <1>14 DEF Goto
<1>15. P \subseteq Q
  BY <1>11
<1>16. Coded(p, Q, blocks')
  <2>1. CASE l.stmt.k = "while"
    <3>1. PICK c, u : c = v.cont /\ u = <<l>> \o c
      OBVIOUS
    <3>2. u # <<>> /\ Head(u) = l /\ Tail(u) = c
      BY <1>2, <3>1, ConsFacts
    <3>3. HereAgain(p, Q)
      BY <1>2, <1>11, <1>13, <2>1, <3>1, <3>2 DEF HereAgain, Is, H, R, Closing
    <3> QED
      BY <3>3 DEF Coded, Here
  <2>2. CASE l.stmt.k # "while"
    <3>1. p.cont = <<FPop, l>> \o v.cont
      BY <1>2, <1>13, <2>2 DEF Closing
    <3>2. EndBody(p, Q, t)
      <4>1. PICK c : c = v.cont
        OBVIOUS
      <4>2. EndBody(p, Q, Goto(l.cont))
        BY <1>2, <1>15, <3>1, <4>1, AtBodyEnd
      <4> QED
        BY <1>2, <1>14, <4>2
    <3>3. Closes(p, Q, t)
      BY <3>2 DEF Closes
    <3> QED
      BY <1>7, <1>13, <1>14, <3>3, CodedBy
  <2> QED
    BY <2>1, <2>2
<1>17. ASSUME NEW r \in Q \ P
       PROVE  r.b \in DOMAIN blocks' /\ r.i \in Nat \ {0} /\ Coded(r, Q, blocks')
  <2>1. r = q /\ l.stmt.k = "while"
    BY <1>11
  <2>2. r.b = cur /\ r.i = Len(blocks[cur].stmts) + 1 /\ r.cont = <<l.stmt>> \o v.cont /\ r.sc = scope
    BY <1>11, <1>13, <2>1 DEF Point
  <2>3. EndJump(r, Q, t)
    BY <1>2, <1>15, <1>20, <2>1, <2>2 DEF EndJump
  <2>4. Closes(r, Q, t)
    BY <2>3 DEF Closes
  <2> QED
    BY <1>3, <1>7, <1>14, <2>2, <2>4, CodedBy
<1>18. \A r : Awaited(r, S, w, v, scope) => r = Point(S.brk, 1, v.cont, scope)
  BY <1>0, <1>1, <1>2 DEF Awaited
<1>19. NewPoints(W, V, P, Q)
  <2>1. /\ cur' \in Waiting(S) /\ blocks'[cur'] = blocks[cur'] /\ scope' = scope
        /\ Extended(blocks, blocks') /\ Point(cur', 1, v.cont, scope) \in Q
    BY <1>1, <1>2, <1>4, <1>7, <1>15
  <2>2. \A r \in P : Awaited(r, S, W[Len(agenda)], W[Len(agenda) - 1], scope) =>
          r = Point(cur', 1, v.cont, scope) \/ Coded(r, Q, blocks')
    BY <1>0, <1>1, <1>18
  <2>3. Coded(Current(W[Len(agenda)]), Q, blocks')
    BY <1>0, <1>16
  <2> QED
    BY <1>1, <1>12, <1>15, <1>17, <2>1, <2>2, <2>3, TakesOver
<1> QED
  BY <1>12, <1>19 DEF Splices

LEMMA SealedIn ==
  ASSUME NEW bs, Listed(bs), NEW b, b \in DOMAIN bs, IsOpen(bs, b), NEW x, x # Unreachable,
         NEW cs, cs = Terminate(bs, b, x)
  PROVE  Seals(bs, cs, b, x)
BY Terminated

(* A block ends, and another gets one statement and an end. *)
Stepped(bs, cs, b, s, c, x, t) ==
  /\ Listed(cs) /\ Extended(bs, cs) /\ DOMAIN cs = DOMAIN bs
  /\ HasTerm(cs, b, Len(bs[b].stmts) + 1, s) /\ HasIns(cs, c, 1, x) /\ HasTerm(cs, c, 2, t)
  /\ \A d \in DOMAIN bs : d # b /\ d # c => cs[d] = bs[d]

LEMMA StepBlocks ==
  ASSUME NEW bs, Listed(bs), NEW b, b \in DOMAIN bs, IsOpen(bs, b), NEW c, c \in DOMAIN bs, IsOpen(bs, c), c # b,
         bs[c].stmts = <<>>, NEW s, s # Unreachable, NEW t, t # Unreachable, NEW x,
         NEW b0, b0 = Terminate(bs, b, s), NEW b1, b1 = Emit(b0, c, <<x>>), NEW cs, cs = Terminate(b1, c, t)
  PROVE  Stepped(bs, cs, b, s, c, x, t)
<1>1. Seals(bs, b0, b, s)
  BY SealedIn
<1>2. Listed(b0) /\ DOMAIN b0 = DOMAIN bs /\ b0[c] = bs[c] /\ IsOpen(b0, c)
  BY <1>1 DEF Seals, IsOpen
<1>3. /\ Listed(b1) /\ Extended(b0, b1) /\ DOMAIN b1 = DOMAIN b0 /\ IsOpen(b1, c)
      /\ Len(b1[c].stmts) = Len(b0[c].stmts) + 1 /\ HasIns(b1, c, Len(b0[c].stmts) + 1, x)
      /\ \A d \in DOMAIN b0 : d # c => b1[d] = b0[d]
  BY <1>2, EmittedOne
<1>4. Len(b0[c].stmts) = 0
  BY <1>2, AnyEmpty
<1>5. Len(b1[c].stmts) = 1 /\ HasIns(b1, c, 1, x)
  BY <1>3, <1>4
<1>6. Seals(b1, cs, c, t)
  BY <1>2, <1>3, SealedIn
<1>7. /\ Listed(cs) /\ Extended(b1, cs) /\ DOMAIN cs = DOMAIN b1 /\ HasTerm(cs, c, Len(b1[c].stmts) + 1, t)
      /\ \A d \in DOMAIN b1 : d # c => cs[d] = b1[d]
  BY <1>6 DEF Seals
<1>8. HasTerm(cs, c, 2, t)
  <2>1. PICK m : m = Len(b1[c].stmts)
    OBVIOUS
  <2>2. HasTerm(cs, c, m + 1, t) /\ m = 1
    BY <1>5, <1>7, <2>1
  <2>3. m + 1 = 2
    BY <2>2
  <2> QED
    BY <2>2, <2>3
<1>9. Extended(b0, cs)
  BY <1>3, <1>7, ExtendedMore
<1>10. Extended(bs, b0) /\ HasTerm(b0, b, Len(bs[b].stmts) + 1, s) /\ \A d \in DOMAIN bs : d # b => b0[d] = bs[d]
  BY <1>1 DEF Seals
<1>11. Extended(bs, cs)
  BY <1>9, <1>10, ExtendedMore
<1>12. HasTerm(cs, b, Len(bs[b].stmts) + 1, s)
  BY <1>2, <1>9, <1>10, CodeStays
<1>13. HasIns(cs, c, 1, x)
  BY <1>2, <1>3, <1>5, <1>7, CodeStays
<1> QED
  BY <1>2, <1>3, <1>7, <1>8, <1>10, <1>11, <1>12, <1>13 DEF Stepped

(* The end of a list loop's body, the step to its next round, and the point    *)
(* after the loop.                                                           *)
LEMMA EndListSplices ==
  ASSUME CfgInv, NEW P, NEW W, Lowering(P, W), EndList
  PROVE  \E Q, V : Splices(P, W, Q, V)
<1>0. PICK L, w, v, p, l : /\ L = Len(agenda) /\ w = W[L] /\ v = W[L - 1] /\ p = Current(w)
                           /\ l = Back(w.cont, w.in)
  OBVIOUS
<1>1. PICK c, s, t, x : c = S.cont /\ s = Goto(S.cont) /\ t = Goto(S.head) /\ x = [op |-> "inc", dst |-> S.i]
  OBVIOUS
<1>2. /\ agenda # <<>> /\ S.k = "endlist" /\ scope' = scope /\ agenda' = Rest /\ cur' = S.brk
      /\ blocks' = Terminate(Emit(TerminateIfOpen(blocks, cur, s), c, <<x>>), c, t)
      /\ nextLocal' = nextLocal /\ loops' = SubSeq(loops, 1, Len(loops) - 1)
  BY <1>1 DEF EndList, Next1, S
<1>3. EndsLoop(P, w, v, l)
  BY <1>0, <1>2, EndingLoop
<1>4. /\ v.ld = Len(loops) - 1 /\ v.sd = Len(scope) /\ AnySeq(v.cont)
      /\ l.stmt.k = "list" /\ w.cont = <<FPop, l>> \o v.cont
      /\ l.k = "again" /\ l.cont = c /\ l.exit = S.brk /\ l.rest = v.cont /\ l.sc = scope
      /\ ExitPoint(l) \in P /\ ContPoint(l) \in P /\ ExitPoint(l) = Point(S.brk, 1, v.cont, scope)
      /\ S.i = l.l + 1 /\ Point(S.head, 1, <<Stage("round", l)>> \o v.cont, scope) \in P
  BY <1>1, <1>2, <1>3 DEF EndsLoop, Closing
<1>5. /\ nextLocal \in Nat /\ v.ld \in Nat /\ Len(blocks[cur].stmts) \in Nat
      /\ Listed(blocks) /\ cur \in DOMAIN blocks /\ IsOpen(blocks, cur)
  BY <1>0, <1>2, Before
<1>6. S.brk \in Waiting(S) /\ c \in Waiting(S) /\ c # S.brk
  <2>1. c # S.brk
    <3>1. S \in Item
      BY <1>2, HeadFacts DEF CfgInv
    <3>2. S \in ListEnds
      BY <1>2, <3>1, ItemKinds DEF Item, Arms, LoopEnds
    <3> QED
      BY <1>1, <3>2 DEF ListEnds
  <2> QED
    BY <1>1, <1>2, <2>1 DEF Waiting
<1>7. /\ S.brk \in DOMAIN blocks /\ S.brk # cur
      /\ c \in DOMAIN blocks /\ c # cur /\ IsOpen(blocks, c) /\ blocks[c].stmts = <<>>
  BY <1>2, <1>6, WaitingEmpty
<1>8. /\ t # Unreachable /\ s # Unreachable
      /\ s = Goto(s.to) /\ s.t = "goto" /\ s.to = c /\ t = Goto(t.to) /\ t.t = "goto" /\ t.to = S.head
  BY <1>1 DEF Goto, Unreachable
<1>21. Stepped(blocks, blocks', cur, s, c, x, t)
  <2>1. PICK bs, b0, b1, cs : /\ bs = blocks /\ b0 = Terminate(bs, cur, s) /\ b1 = Emit(b0, c, <<x>>)
                              /\ cs = Terminate(b1, c, t)
    OBVIOUS
  <2>2. cs = blocks'
    BY <1>2, <1>5, <2>1 DEF TerminateIfOpen
  <2>4. /\ Listed(bs) /\ cur \in DOMAIN bs /\ IsOpen(bs, cur) /\ c \in DOMAIN bs /\ IsOpen(bs, c) /\ c # cur
        /\ bs[c].stmts = <<>>
    BY <1>5, <1>7, <2>1
  <2>5. s # Unreachable /\ t # Unreachable
    BY <1>8
  <2>3. Stepped(bs, cs, cur, s, c, x, t)
    BY <2>1, <2>4, <2>5, StepBlocks
  <2> QED
    BY <2>1, <2>2, <2>3
<1>9. /\ Listed(blocks') /\ Extended(blocks, blocks') /\ DOMAIN blocks' = DOMAIN blocks
      /\ HasTerm(blocks', cur, Len(blocks[cur].stmts) + 1, s)
      /\ HasIns(blocks', c, 1, x) /\ HasTerm(blocks', c, 2, t)
      /\ \A d \in DOMAIN blocks : d # cur /\ d # c => blocks'[d] = blocks[d]
  BY <1>21 DEF Stepped
<1>10. PICK V : V = [k \in 0 .. Len(agenda) - 1 |-> W[k]]
  OBVIOUS
<1>11. ScopesBehind(W) /\ nextLocal <= nextLocal'
  BY <1>2, <1>5, ScopesSame
<1>12. Len(loops') = v.ld /\ \A i \in 1 .. v.ld : loops'[i] = loops[i]
  <2>1. PICK n, ls : n = Len(loops) - 1 /\ ls = SubSeq(loops, 1, n)
    OBVIOUS
  <2>2. Len(loops) \in Nat
    BY <1>3 DEF EndsLoop
  <2>3. n \in 0 .. Len(loops)
    BY <1>4, <1>5, <2>1, <2>2
  <2>4. Len(ls) = n /\ \A i \in 1 .. n : ls[i] = loops[i]
    BY <2>1, <2>3, FramePopped
  <2> QED
    BY <1>2, <1>4, <2>1, <2>4
<1>13. PICK q, Q : q = Point(c, 2, <<Stage("round", l)>> \o v.cont, scope) /\ Q = P \cup {q}
  OBVIOUS
<1>14. /\ NewEntries(W, V, Q, <<>>) /\ NewNesting(W, V, <<>>) /\ NewBlocksEmpty(<<>>)
       /\ V[Len(agenda)]' = v
  <2>1. /\ agenda # <<>> /\ agenda' = Rest /\ V = [k \in 0 .. Len(agenda) - 1 |-> W[k]]
        /\ Len(scope') = W[Len(agenda) - 1].sd /\ Len(loops') = W[Len(agenda) - 1].ld
        /\ nextLocal <= nextLocal' /\ \A i \in 1 .. W[Len(agenda) - 1].ld : loops'[i] = loops[i]
        /\ ScopesBehind(W) /\ Listed(blocks')
    BY <1>0, <1>2, <1>4, <1>9, <1>10, <1>11, <1>12
  <2> QED
    BY <1>0, <2>1, Dropped
<1>15. p.b = cur /\ p.i = Len(blocks[cur].stmts) + 1 /\ p.cont = w.cont
  BY <1>0 DEF Current, Point
<1>16. P \subseteq Q /\ q \in Q
  BY <1>13
<1>17. Coded(p, Q, blocks')
  <2>1. PICK d : d = v.cont
    OBVIOUS
  <2>2. EndBody(p, Q, Goto(l.cont))
    BY <1>4, <1>15, <1>16, <2>1, AtBodyEnd
  <2>3. Closes(p, Q, s)
    BY <1>1, <1>4, <2>2 DEF Closes
  <2> QED
    BY <1>9, <1>15, <2>3, CodedBy
<1>18. Coded(q, Q, blocks')
  <2>1. q.b = c /\ q.i = 2 /\ q.cont = <<Stage("round", l)>> \o v.cont /\ q.sc = scope
    BY <1>13 DEF Point
  <2>2. EndJump(q, Q, t)
    BY <1>4, <1>8, <1>16, <2>1 DEF EndJump
  <2>3. Closes(q, Q, t)
    BY <2>2 DEF Closes
  <2> QED
    BY <1>9, <2>1, <2>3, CodedBy
<1>19. Coded(ContPoint(l), Q, blocks')
  <2>1. PICK r, u, d : r = ContPoint(l) /\ d = v.cont /\ u = <<l>> \o d
    OBVIOUS
  <2>2. u # <<>> /\ Head(u) = l /\ Tail(u) = d
    BY <1>4, <2>1, ConsFacts
  <2>3. r.b = c /\ r.i = 1 /\ r.cont = u /\ r.sc = scope
    BY <1>4, <2>1 DEF ContPoint, ContItem, Point
  <2>7. R(r) = d /\ r.i + 1 = 2
    BY <2>2, <2>3 DEF R
  <2>4. On(r, <<Stage("round", l)>> \o R(r), r.sc) = q
    BY <1>13, <2>1, <2>3, <2>7 DEF On
  <2>5. StepInc(r, Q, x)
    BY <1>1, <1>4, <1>16, <2>2, <2>3, <2>4 DEF StepInc, Is, H
  <2>6. Steps(r, Q, x)
    BY <2>5 DEF Steps
  <2> QED
    BY <1>9, <2>1, <2>3, <2>6, CodedBy
<1>20. NewPoints(W, V, P, Q)
  <2>1. /\ cur' \in Waiting(S) /\ blocks'[cur'] = blocks[cur'] /\ scope' = scope
        /\ Extended(blocks, blocks') /\ Point(cur', 1, v.cont, scope) \in Q
    BY <1>2, <1>4, <1>6, <1>7, <1>9, <1>16
  <2>2. \A r \in P : Awaited(r, S, W[Len(agenda)], W[Len(agenda) - 1], scope) =>
          r = Point(cur', 1, v.cont, scope) \/ Coded(r, Q, blocks')
    BY <1>0, <1>2, <1>4, <1>19 DEF Awaited
  <2>3. Coded(Current(W[Len(agenda)]), Q, blocks')
    BY <1>0, <1>17
  <2>5. q.b \in DOMAIN blocks' /\ q.i \in Nat \ {0}
    <3>1. q.b = c /\ q.i = 2
      BY <1>13 DEF Point
    <3> QED
      BY <1>7, <1>9, <3>1
  <2>4. \A r \in Q \ P : r.b \in DOMAIN blocks' /\ r.i \in Nat \ {0} /\ Coded(r, Q, blocks')
    BY <1>13, <1>18, <2>5
  <2> QED
    BY <1>2, <1>14, <1>16, <2>1, <2>2, <2>3, <2>4, TakesOver
<1> QED
  BY <1>14, <1>20 DEF Splices

(* The head is replaced by the items A; ws are their entries, from the end. *)
Laid(W, Q, A, ws) ==
  /\ AnySeq(A) /\ agenda' = A \o Rest /\ Len(A) \in Nat \ {0}
  /\ \A k \in 1 .. Len(A) :
       /\ EntryOK(Q, ws[k], loops', nextLocal')
       /\ ItemOK(Q, Back(A, k), ws[k], IF k = 1 THEN W[Len(agenda) - 1] ELSE ws[k - 1], scope')
       /\ ws[k].sd = Len(scope') /\ ws[k].ld = Len(loops')
       /\ \A b \in Waiting(Back(A, k)) : blocks'[b].stmts = <<>>
  /\ \/ \A k \in 1 .. Len(A) : Back(A, k).k \in Plain
     \/ \A k \in 1 .. Len(A) : Back(A, k).k \notin JumpKinds /\ Len(scope) < Len(scope')

(* What the rest of the agenda goes by is left alone. *)
LeavesRest(W) ==
  /\ W[Len(agenda) - 1].sd <= Len(scope') /\ W[Len(agenda) - 1].ld <= Len(loops')
  /\ nextLocal <= nextLocal' /\ \A i \in 1 .. W[Len(agenda) - 1].ld : loops'[i] = loops[i]
  /\ ScopesBehind(W) /\ Listed(blocks')

LEMMA LaidEntries ==
  ASSUME CfgInv, NEW P, NEW W, Lowering(P, W), agenda # <<>>,
         NEW Q, NEW A, NEW ws, Laid(W, Q, A, ws), LeavesRest(W), NEW V,
         V = [k \in 0 .. Len(agenda) - 1 + Len(A) |->
                IF k < Len(agenda) THEN W[k] ELSE ws[k - Len(agenda) + 1]]
  PROVE  /\ NewEntries(W, V, Q, A) /\ NewNesting(W, V, A) /\ NewBlocksEmpty(A)
         /\ V[Len(agenda)]' = ws[Len(A)]
<1>0. PICK L, M, v : L = Len(agenda) /\ M = Len(A) /\ v = W[L - 1]
  OBVIOUS
<1>1. /\ AnySeq(A) /\ agenda' = A \o Rest /\ M \in Nat \ {0}
      /\ \A k \in 1 .. M :
           /\ EntryOK(Q, ws[k], loops', nextLocal')
           /\ ItemOK(Q, Back(A, k), ws[k], IF k = 1 THEN v ELSE ws[k - 1], scope')
           /\ ws[k].sd = Len(scope') /\ ws[k].ld = Len(loops')
           /\ \A b \in Waiting(Back(A, k)) : blocks'[b].stmts = <<>>
      /\ \/ \A k \in 1 .. M : Back(A, k).k \in Plain
         \/ \A k \in 1 .. M : Back(A, k).k \notin JumpKinds /\ Len(scope) < Len(scope')
  BY <1>0 DEF Laid
<1>2. L \in Nat \ {0} /\ W[L].sd = Len(scope) /\ AnySeq(agenda)
  BY <1>0, Before
<1>3. /\ DOMAIN V = 0 .. L - 1 + M /\ \A k \in 0 .. L - 1 : V[k] = W[k]
      /\ \A k \in 1 .. M : V[L - 1 + k] = ws[k]
  <2>1. \A k \in 0 .. L - 1 : k \in 0 .. L - 1 + M /\ k < L
    BY <1>1, <1>2
  <2>2. \A k \in 1 .. M : L - 1 + k \in 0 .. L - 1 + M /\ ~ (L - 1 + k < L) /\ L - 1 + k - L + 1 = k
    BY <1>1, <1>2
  <2> QED
    BY <1>0, <2>1, <2>2
<1>4. \A k \in 1 .. M : /\ L - 2 + k = L - 1 + (k - 1) /\ (k # 1 => k - 1 \in 1 .. M)
                        /\ (k = 1 => L - 2 + k \in 0 .. L - 1 /\ L - 2 + k = L - 1)
  BY <1>1, <1>2
<1>5. \A k \in 1 .. M : V[L - 2 + k] = IF k = 1 THEN v ELSE ws[k - 1]
  BY <1>0, <1>3, <1>4
<1>6. M \in 1 .. M
  BY <1>1
<1>7. V[L - 1 + M] = ws[M] /\ Len(agenda') = L - 1 + M
  BY <1>0, <1>1, <1>2, <1>3, <1>6, AgendaPlaces
<1>8. /\ v.sd <= Len(scope') /\ v.ld <= Len(loops')
      /\ nextLocal <= nextLocal' /\ \A i \in 1 .. v.ld : loops'[i] = loops[i]
      /\ ScopesBehind(W) /\ Listed(blocks')
  BY <1>0 DEF LeavesRest
<1>9. NewEntries(W, V, Q, A)
  <2>1. \A k \in 1 .. M : /\ EntryOK(Q, V[L - 1 + k], loops', nextLocal')
                          /\ ItemOK(Q, Back(A, k), V[L - 1 + k], V[L - 2 + k], scope')
    <3> TAKE k \in 1 .. M
    <3>1. V[L - 1 + k] = ws[k] /\ V[L - 2 + k] = IF k = 1 THEN v ELSE ws[k - 1]
      BY <1>3, <1>5
    <3>2. /\ EntryOK(Q, ws[k], loops', nextLocal')
          /\ ItemOK(Q, Back(A, k), ws[k], IF k = 1 THEN v ELSE ws[k - 1], scope')
      BY <1>1
    <3> QED
      BY <3>1, <3>2
  <2>2. V[L - 1 + M].sd = Len(scope') /\ V[L - 1 + M].ld = Len(loops')
    BY <1>1, <1>6, <1>7
  <2> QED
    BY <1>0, <1>1, <1>3, <1>8, <2>1, <2>2 DEF NewEntries
<1>10. NewNesting(W, V, A)
  <2>1. Len(scope') \in Nat /\ Len(loops') \in Nat
    BY <1>1, <1>6 DEF EntryOK
  <2>2. \A k \in 1 .. M : V[L - 1 + k].sd = Len(scope') /\ V[L - 1 + k].ld = Len(loops')
    BY <1>1, <1>3
  <2>3. \A k \in 1 .. M : \A j \in k .. M : j \in 1 .. M
    BY <1>1
  <2>4. \A k \in 1 .. M :
          /\ v.sd <= V[L - 1 + k].sd /\ v.ld <= V[L - 1 + k].ld
          /\ \A j \in k .. M : V[L - 1 + k].sd <= V[L - 1 + j].sd /\ V[L - 1 + k].ld <= V[L - 1 + j].ld
    <3>1. PICK sd, ld : sd = Len(scope') /\ ld = Len(loops')
      OBVIOUS
    <3>2. sd <= sd /\ ld <= ld /\ v.sd <= sd /\ v.ld <= ld
      BY <1>8, <2>1, <3>1
    <3>3. \A k \in 1 .. M : V[L - 1 + k].sd = sd /\ V[L - 1 + k].ld = ld
      BY <2>2, <3>1
    <3> QED
      BY <2>3, <3>2, <3>3
  <2>5. \/ \A k \in 1 .. M : Back(A, k).k \in Plain
        \/ \A k \in 1 .. M : Back(A, k).k \notin JumpKinds /\ W[L].sd < V[L - 1 + k].sd
    BY <1>1, <1>2, <2>2
  <2> QED
    BY <1>0, <2>4, <2>5 DEF NewNesting
<1>11. NewBlocksEmpty(A)
  BY <1>0, <1>1, <1>8 DEF NewBlocksEmpty, Listed
<1>12. V[Len(agenda)]' = ws[Len(A)]
  BY <1>0, <1>7
<1> QED
  BY <1>9, <1>10, <1>11, <1>12

(* A continuation with code on top of another one: no loop begins there. *)
OnTop(c, d) ==
  /\ AnySeq(c) /\ AnySeq(d) /\ Len(d) <= Len(c)
  /\ \A k \in 1 .. Len(d) : Back(c, k) = Back(d, k)
  /\ \A k \in Len(d) + 1 .. Len(c) : Back(c, k).k \notin {"again"} \cup Micro

LEMMA TopSelf == ASSUME NEW c, AnySeq(c) PROVE OnTop(c, c)
<1>1. Len(c) \in Nat
  BY AnyFacts
<1>2. Len(c) <= Len(c) /\ Len(c) + 1 .. Len(c) = {}
  BY <1>1
<1> QED
  BY <1>2 DEF OnTop

LEMMA TopCons ==
  ASSUME NEW c, NEW d, OnTop(c, d), NEW x, x.k \notin {"again"} \cup Micro
  PROVE  OnTop(<<x>> \o c, d)
<1>1. PICK t : t = <<x>> \o c
  OBVIOUS
<1>2. AnySeq(c) /\ AnySeq(d) /\ Len(c) \in Nat /\ Len(d) \in Nat /\ Len(d) <= Len(c)
  BY AnyFacts DEF OnTop
<1>3. /\ AnySeq(t) /\ Len(t) = Len(c) + 1 /\ Back(t, Len(c) + 1) = x
      /\ \A k \in 1 .. Len(c) : Back(t, k) = Back(c, k)
  BY <1>1, <1>2, ConsFacts
<1>4. \A k \in 1 .. Len(d) : Back(t, k) = Back(d, k)
  <2>1. \A k \in 1 .. Len(d) : k \in 1 .. Len(c)
    BY <1>2
  <2> QED
    BY <1>3, <2>1 DEF OnTop
<1>5. ASSUME NEW k \in Len(d) + 1 .. Len(t)
      PROVE  Back(t, k).k \notin {"again"} \cup Micro
  <2>1. k = Len(c) + 1 \/ (k \in 1 .. Len(c) /\ k \in Len(d) + 1 .. Len(c))
    BY <1>2, <1>3
  <2> QED
    BY <1>3, <2>1 DEF OnTop
<1>6. Len(d) <= Len(t)
  BY <1>2, <1>3
<1> QED
  BY <1>1, <1>2, <1>3, <1>4, <1>5, <1>6 DEF OnTop

(* The innermost loop stays the same under it. *)
LEMMA TopNearest ==
  ASSUME NEW c, NEW d, OnTop(c, d), NEW k, Nearest(d, k)
  PROVE  Nearest(c, k) /\ Back(c, k) = Back(d, k)
<1>1. /\ Len(c) \in Nat /\ Len(d) \in Nat /\ Len(d) <= Len(c) /\ k \in 1 .. Len(d)
      /\ Back(d, k).k = "again" /\ \A j \in k + 1 .. Len(d) : Back(d, j).k # "again"
      /\ \A i \in 1 .. Len(d) : Back(c, i) = Back(d, i)
      /\ \A i \in Len(d) + 1 .. Len(c) : Back(c, i).k # "again"
  BY AnyFacts DEF OnTop, Nearest
<1>2. k \in 1 .. Len(c) /\ Back(c, k) = Back(d, k)
  BY <1>1
<1>3. ASSUME NEW j \in k + 1 .. Len(c)
      PROVE  Back(c, j).k # "again"
  <2>1. (j \in 1 .. Len(d) /\ j \in k + 1 .. Len(d)) \/ j \in Len(d) + 1 .. Len(c)
    BY <1>1
  <2> QED
    BY <1>1, <2>1
<1> QED
  BY <1>1, <1>2, <1>3 DEF Nearest

LEMMA TopReserves ==
  ASSUME NEW c, NEW d, OnTop(c, d), NEW X, \A k \in 1 .. Len(d) : Reserves(Back(d, k)) \subseteq X
  PROVE  \A k \in 1 .. Len(c) : Reserves(Back(c, k)) \subseteq X
<1>1. Len(c) \in Nat /\ Len(d) \in Nat
  BY AnyFacts DEF OnTop
<1>2. ASSUME NEW k \in 1 .. Len(c)
      PROVE  Reserves(Back(c, k)) \subseteq X
  <2>1. k \in 1 .. Len(d) \/ k \in Len(d) + 1 .. Len(c)
    BY <1>1
  <2>2. CASE k \in 1 .. Len(d)
    BY <2>2 DEF OnTop
  <2>3. CASE k \in Len(d) + 1 .. Len(c)
    <3>1. Back(c, k).k \notin {"again"} \cup Micro
      BY <2>3 DEF OnTop
    <3> QED
      BY <3>1 DEF Reserves
  <2> QED
    BY <2>1, <2>2, <2>3
<1> QED
  BY <1>2

(* At a statement that is no loop: the entry of code on top of what follows. *)
LEMMA TopEntry ==
  ASSUME CfgInv, NEW P, NEW W, Lowering(P, W), agenda # <<>>, S.k \notin {"pop"} \cup JumpKinds,
         NEW w, w = W[Len(agenda)], NEW v, v = W[Len(agenda) - 1],
         NEW c, OnTop(c, v.cont), NEW d \in Nat
  PROVE  EntryOK(P, Todo(c, d, Len(loops), w.in), loops, nextLocal)
<1>1. /\ EntryOK(P, w, loops, nextLocal) /\ EntryOK(P, v, loops, nextLocal) /\ AnySeq(v.cont) /\ w.ld = Len(loops)
      /\ w.ld \in Nat
  BY Before
<1>2. w.cont = <<S>> \o v.cont
  BY AtStatement
<1>3. PICK t : t = Todo(c, d, Len(loops), w.in)
  OBVIOUS
<1>4. t.cont = c /\ t.sd = d /\ t.ld = Len(loops) /\ t.in = w.in
  BY <1>3 DEF Todo
<1>5. AnySeq(c) /\ Len(loops) \in Nat
  BY <1>1 DEF OnTop
<1>6. \A k \in 1 .. Len(c) : Reserves(Back(c, k)) \subseteq 0 .. nextLocal - 1
  <2>1. \A k \in 1 .. Len(v.cont) : Reserves(Back(v.cont, k)) \subseteq 0 .. nextLocal - 1
    BY <1>1 DEF EntryOK
  <2>2. PICK e, X : e = v.cont /\ X = 0 .. nextLocal - 1
    OBVIOUS
  <2>3. OnTop(c, e) /\ \A k \in 1 .. Len(e) : Reserves(Back(e, k)) \subseteq X
    BY <2>1, <2>2
  <2>4. \A k \in 1 .. Len(c) : Reserves(Back(c, k)) \subseteq X
    BY <2>3, TopReserves
  <2> QED
    BY <2>2, <2>4
<1>7. ASSUME Len(loops) > 0
      PROVE  LoopOK(P, t, loops[Len(loops)])
  <2>1. LoopOK(P, w, loops[Len(loops)])
    BY <1>1, <1>7 DEF EntryOK
  <2>2. PICK e, s, u, k : e = v.cont /\ s = S /\ u = <<s>> \o e /\ k = w.in
    OBVIOUS
  <2>3. w.cont = u
    BY <1>2, <2>2
  <2>4. Nearest(u, k)
    BY <2>1, <2>2, <2>3 DEF LoopOK
  <2>12. AnySeq(e)
    BY <1>1, <2>2
  <2>5. /\ Len(e) \in Nat /\ Len(u) = Len(e) + 1 /\ Back(u, Len(e) + 1) = s
        /\ \A i \in 1 .. Len(e) : Back(u, i) = Back(e, i)
    <3>1. u = <<s>> \o e
      BY <2>2
    <3>2. Len(e) \in Nat
      BY <2>12, AnyFacts
    <3> QED
      BY <2>12, <3>1, <3>2, ConsFacts
  <2>6. s.k # "again"
    <3>1. S \in Item
      BY HeadFacts DEF CfgInv
    <3>2. S.k # "again"
      BY <3>1, StmtAssumption DEF Item, Arms, LoopEnds, ListEnds
    <3> QED
      BY <2>2, <3>2
  <2>7. k # Len(e) + 1
    BY <2>4, <2>5, <2>6 DEF Nearest
  <2>8. k \in 1 .. Len(e)
    BY <2>4, <2>5, <2>7 DEF Nearest
  <2>9. \A j \in k + 1 .. Len(e) : j \in k + 1 .. Len(u) /\ j \in 1 .. Len(e)
    BY <2>5, <2>8
  <2>10. Nearest(e, k) /\ Back(e, k) = Back(u, k)
    BY <2>4, <2>5, <2>8, <2>9 DEF Nearest
  <2>11. Nearest(c, k) /\ Back(c, k) = Back(u, k)
    BY <2>2, <2>10, TopNearest
  <2> QED
    BY <1>4, <2>1, <2>2, <2>3, <2>11 DEF LoopOK
<1>8. EntryOK(P, t, loops, nextLocal)
  BY <1>4, <1>5, <1>6, <1>7 DEF EntryOK
<1> QED
  BY <1>3, <1>8

(* The continuations of the statements of a block. *)
Follows(A, C, Z, m) ==
  /\ OnTop(Last(Z, Len(C) + m), C)
  /\ Last(Z, Len(C) + m) = <<Back(A, m)>> \o (IF m = 1 THEN C ELSE Last(Z, Len(C) + (m - 1)))
  /\ Last(Z, Len(C) + Len(A)) = Z

LEMMA BodyConts ==
  ASSUME NEW A, AnySeq(A), NEW C, AnySeq(C), NEW Z, Z = A \o C, NEW m \in 1 .. Len(A),
         \A i \in 1 .. Len(A) : Back(A, i).k \notin {"again"} \cup Micro
  PROVE  Follows(A, C, Z, m)
<1>1. PICK l, n : l = Len(C) /\ n = Len(A)
  OBVIOUS
<1>2. l \in Nat /\ n \in Nat /\ m \in 1 .. n
  BY <1>1, AnyFacts
<1>3. /\ AnySeq(Z) /\ Len(Z) = n + l /\ \A k \in 1 .. l : Back(Z, k) = Back(C, k)
      /\ \A k \in 1 .. n : Back(Z, l + k) = Back(A, k)
  BY <1>1, CatFacts
<1>4. PICK c : c = Last(Z, l + m)
  OBVIOUS
<1>5. l + m \in 0 .. Len(Z) /\ l + m \in 1 .. Len(Z) /\ l \in 0 .. Len(Z) /\ n + l = l + n
  BY <1>2, <1>3
<1>6. AnySeq(c) /\ Len(c) = l + m /\ \A k \in 1 .. l + m : Back(c, k) = Back(Z, k)
  BY <1>3, <1>4, <1>5, LastFacts
<1>7. \A k \in 1 .. l : Back(c, k) = Back(C, k)
  <2>1. \A k \in 1 .. l : k \in 1 .. l + m
    BY <1>2
  <2> QED
    BY <1>3, <1>6, <2>1
<1>8. ASSUME NEW k \in l + 1 .. l + m
      PROVE  Back(c, k).k \notin {"again"} \cup Micro
  <2>1. PICK i : i = k - l
    OBVIOUS
  <2>2. i \in 1 .. n /\ k = l + i /\ k \in 1 .. l + m
    BY <1>2, <2>1
  <2>3. Back(c, k) = Back(A, i)
    BY <1>3, <1>6, <2>2
  <2> QED
    BY <1>1, <2>2, <2>3
<1>9. OnTop(c, C)
  <2>1. l <= l + m
    BY <1>2
  <2> QED
    BY <1>1, <1>6, <1>7, <1>8, <2>1 DEF OnTop
<1>10. c = <<Back(A, m)>> \o (IF m = 1 THEN C ELSE Last(Z, l + (m - 1)))
  <2>1. c = <<Back(Z, l + m)>> \o Last(Z, (l + m) - 1)
    <3>1. PICK k : k = l + m
      OBVIOUS
    <3>2. k \in 1 .. Len(Z)
      BY <1>5, <3>1
    <3>3. Last(Z, k) = <<Back(Z, k)>> \o Last(Z, k - 1)
      BY <1>3, <3>2, LastOf
    <3> QED
      BY <1>4, <3>1, <3>3
  <2>2. Back(Z, l + m) = Back(A, m) /\ (l + m) - 1 = l + (m - 1)
    BY <1>2, <1>3
  <2>3. Last(Z, l) = C
    <3>1. AnySeq(Last(Z, l)) /\ Len(Last(Z, l)) = l /\ \A k \in 1 .. l : Back(Last(Z, l), k) = Back(Z, k)
      BY <1>3, <1>5, LastFacts
    <3>2. \A k \in 1 .. l : Back(Last(Z, l), k) = Back(C, k)
      BY <1>3, <3>1
    <3> QED
      BY <1>1, <3>1, <3>2, AnyEqual
  <2>4. m = 1 => (l + m) - 1 = l
    BY <1>2
  <2> QED
    BY <2>1, <2>2, <2>3, <2>4
<1>11. Last(Z, l + n) = Z
  BY <1>3, <1>5, LastOf
<1> QED
  BY <1>1, <1>4, <1>9, <1>10, <1>11 DEF Follows

(* The items of a block. *)
LEMMA BodyItems ==
  ASSUME NEW b \in Seq(Stmt), NEW A, A = b \o <<Pop>>
  PROVE  /\ AnySeq(A) /\ Len(A) \in Nat \ {0} /\ Back(A, 1) = Pop
         /\ \A m \in 1 .. Len(A) : m # 1 => Back(A, m) \in Stmt
         /\ \A m \in 1 .. Len(A) : Back(A, m).k \notin {"again"} \cup Micro \cup JumpKinds
<1>1. PICK t : t = <<Pop>>
  OBVIOUS
<1>2. AnySeq(t) /\ Len(t) = 1 /\ Back(t, 1) = Pop
  BY <1>1, OneItem DEF Back
<1>3. AnySeq(b) /\ Len(b) \in Nat /\ \A p \in 1 .. Len(b) : b[p] \in Stmt
  BY StmtsAreItems DEF AnySeq
<1>4. /\ AnySeq(A) /\ Len(A) = Len(b) + Len(t) /\ \A k \in 1 .. Len(t) : Back(A, k) = Back(t, k)
      /\ \A k \in 1 .. Len(b) : Back(A, Len(t) + k) = Back(b, k)
  <2>1. PICK u : u = b \o t
    OBVIOUS
  <2>2. /\ AnySeq(u) /\ Len(u) = Len(b) + Len(t) /\ \A k \in 1 .. Len(t) : Back(u, k) = Back(t, k)
        /\ \A k \in 1 .. Len(b) : Back(u, Len(t) + k) = Back(b, k)
    <3>1. AnySeq(b) /\ AnySeq(t)
      BY <1>2, <1>3
    <3> QED
      BY <2>1, <3>1, CatFacts
  <2>3. A = u
    BY <1>1, <2>1
  <2> QED
    BY <2>2, <2>3
<1>5. Back(A, 1) = Pop
  <2>1. 1 \in 1 .. Len(t)
    BY <1>2
  <2> QED
    BY <1>2, <1>4, <2>1
<1>6. ASSUME NEW m \in 1 .. Len(A), m # 1
      PROVE  Back(A, m) \in Stmt
  <2>1. m - 1 \in 1 .. Len(b) /\ Len(t) + (m - 1) = m /\ Len(b) + 1 - (m - 1) \in 1 .. Len(b)
    BY <1>2, <1>3, <1>4, <1>6
  <2>2. Back(A, m) = Back(b, m - 1)
    BY <1>4, <2>1
  <2> QED
    BY <1>3, <2>1, <2>2 DEF Back
<1>7. \A x \in Stmt : x.k \notin {"again"} \cup Micro \cup JumpKinds
  BY StmtAssumption DEF Micro, JumpKinds
<1>8. Pop.k \notin {"again"} \cup Micro \cup JumpKinds
  BY DEF Pop, Micro, JumpKinds
<1>9. \A m \in 1 .. Len(A) : Back(A, m).k \notin {"again"} \cup Micro \cup JumpKinds
  BY <1>5, <1>6, <1>7, <1>8
<1>10. Len(A) \in Nat \ {0}
  BY <1>2, <1>3, <1>4
<1> QED
  BY <1>4, <1>5, <1>6, <1>9, <1>10

LEMMA BlockSplices ==
  ASSUME CfgInv, NEW P, NEW W, Lowering(P, W), LowerBlock
  PROVE  \E Q, V : Splices(P, W, Q, V)
<1>0. PICK w, v, p, C, b, A, Z, e : /\ w = W[Len(agenda)] /\ v = W[Len(agenda) - 1] /\ p = Current(w) /\ C = v.cont
                                    /\ b = S.body /\ A = b \o <<Pop>> /\ Z = A \o C /\ e = [x \in {} |-> 0]
  OBVIOUS
<1>1. /\ agenda # <<>> /\ S.k = "block" /\ agenda' = A \o Rest /\ scope' = Append(scope, e)
      /\ blocks' = blocks /\ cur' = cur /\ loops' = loops /\ nextLocal' = nextLocal
  BY <1>0 DEF LowerBlock, Next1, S, Pop
<1>2. S.k \notin {"pop"} \cup JumpKinds
  BY <1>1 DEF JumpKinds
<1>3. /\ AnySeq(C) /\ Listed(blocks) /\ cur \in DOMAIN blocks /\ AnySeq(scope) /\ nextLocal \in Nat
      /\ w.sd = Len(scope) /\ w.ld = Len(loops) /\ w.sd \in Nat /\ w.ld \in Nat /\ Len(blocks[cur].stmts) \in Nat
  BY <1>0, <1>1, Before
<1>4. /\ p.cont # <<>> /\ H(p) = S /\ R(p) = C /\ p.sc = scope /\ v.sd = Len(scope) /\ v.ld = Len(loops)
  BY <1>0, <1>1, <1>2, AtStatement
<1>5. b \in Seq(Stmt)
  <2>1. S \in Item
    BY <1>1, HeadFacts DEF CfgInv
  <2> QED
    BY <1>0, <1>1, <2>1, ItemKinds
<1>6. /\ AnySeq(A) /\ Len(A) \in Nat \ {0} /\ Back(A, 1) = Pop
      /\ \A m \in 1 .. Len(A) : m # 1 => Back(A, m) \in Stmt
      /\ \A m \in 1 .. Len(A) : Back(A, m).k \notin {"again"} \cup Micro \cup JumpKinds
  BY <1>0, <1>5, BodyItems
<1>7. PICK ws : ws = [m \in 1 .. Len(A) |-> Todo(Last(Z, Len(C) + m), Len(scope) + 1, Len(loops), w.in)]
  OBVIOUS
<1>8. ASSUME NEW m \in 1 .. Len(A)
      PROVE  /\ OnTop(Last(Z, Len(C) + m), C)
             /\ Last(Z, Len(C) + m) = <<Back(A, m)>> \o (IF m = 1 THEN C ELSE Last(Z, Len(C) + (m - 1)))
             /\ Last(Z, Len(C) + Len(A)) = Z
  <2>1. \A i \in 1 .. Len(A) : Back(A, i).k \notin {"again"} \cup Micro
    BY <1>6
  <2>2. AnySeq(A) /\ AnySeq(C) /\ Z = A \o C
    BY <1>0, <1>3, <1>6
  <2>3. Follows(A, C, Z, m)
    BY <2>1, <2>2, BodyConts
  <2> QED
    BY <2>3 DEF Follows
<1>21. \A m \in 1 .. Len(A) : ws[m] = Todo(Last(Z, Len(C) + m), Len(scope) + 1, Len(loops), w.in)
  BY <1>7
<1>22. \A m \in 1 .. Len(A) : /\ ws[m].cont = Last(Z, Len(C) + m) /\ ws[m].sd = Len(scope) + 1
                              /\ ws[m].ld = Len(loops)
  <2> TAKE m \in 1 .. Len(A)
  <2>1. PICK c, d : c = Last(Z, Len(C) + m) /\ d = Len(scope) + 1
    OBVIOUS
  <2>2. ws[m] = Todo(c, d, Len(loops), w.in)
    BY <1>21, <2>1
  <2>3. ws[m].cont = c /\ ws[m].sd = d /\ ws[m].ld = Len(loops)
    BY <2>2 DEF Todo
  <2> QED
    BY <2>1, <2>3
<1>9. /\ Len(scope') = Len(scope) + 1 /\ \A k \in 0 .. Len(scope) : SubSeq(scope', 1, k) = SubSeq(scope, 1, k)
  BY <1>1, <1>3, PushedFacts
<1>10. PICK q, Q : q = Point(p.b, p.i, Z, scope') /\ Q = P \cup {q}
  OBVIOUS
<1>11. ASSUME NEW m \in 1 .. Len(A)
       PROVE  EntryOK(Q, ws[m], loops, nextLocal)
  <2>1. PICK c, d : c = Last(Z, Len(C) + m) /\ d = Len(scope) + 1
    OBVIOUS
  <2>2. ws[m] = Todo(c, d, Len(loops), w.in) /\ OnTop(c, v.cont) /\ d \in Nat
    <3>1. OnTop(Last(Z, Len(C) + m), C)
      BY <1>8
    <3>2. OnTop(c, v.cont)
      BY <1>0, <2>1, <3>1
    <3>3. d \in Nat
      BY <1>3, <2>1
    <3> QED
      BY <1>21, <2>1, <3>2, <3>3
  <2>3. EntryOK(P, Todo(c, d, Len(loops), w.in), loops, nextLocal)
    <3>1. PICK wi : wi = w.in
      OBVIOUS
    <3>2. EntryOK(P, Todo(c, d, Len(loops), w.in), loops, nextLocal)
      BY <1>0, <1>1, <1>2, <2>2, TopEntry
    <3> QED
      BY <3>2
  <2>4. EntryOK(P, ws[m], loops, nextLocal) /\ P \subseteq Q /\ nextLocal <= nextLocal
    BY <1>3, <1>10, <2>2, <2>3
  <2> QED
    BY <1>3, <2>4, EntryStays
<1>12. ASSUME NEW m \in 1 .. Len(A)
       PROVE  ItemOK(Q, Back(A, m), ws[m], IF m = 1 THEN v ELSE ws[m - 1], scope')
  <2>1. CASE m = 1
    <3>1. ws[1].cont = <<Pop>> \o v.cont /\ ws[1].sd = v.sd + 1 /\ ws[1].ld = v.ld
      <4>1. Last(Z, Len(C) + 1) = <<Back(A, 1)>> \o C
        BY <1>8, <2>1
      <4> QED
        BY <1>0, <1>4, <1>6, <1>22, <2>1, <4>1
    <3>2. Pop.k = "pop"
      BY DEF Pop
    <3> QED
      BY <1>6, <2>1, <3>1, <3>2 DEF ItemOK, PopOK
  <2>2. CASE m # 1
    <3>1. m - 1 \in 1 .. Len(A)
      BY <1>6, <2>2
    <3>2. ws[m].cont = <<Back(A, m)>> \o ws[m - 1].cont /\ ws[m].sd = ws[m - 1].sd /\ ws[m].ld = ws[m - 1].ld
      BY <1>8, <1>22, <2>2, <3>1
    <3>3. Back(A, m).k \notin {"pop", "arm", "end", "endlist"}
      BY <1>6, <2>2, StmtAssumption
    <3> QED
      BY <2>2, <3>2, <3>3 DEF ItemOK, StmtOK
  <2> QED
    BY <2>1, <2>2
<1>13. Laid(W, Q, A, ws)
  <2>1. \A m \in 1 .. Len(A) : Waiting(Back(A, m)) = {}
    BY <1>6 DEF Waiting, JumpKinds
  <2>2. Len(scope) < Len(scope')
    BY <1>3, <1>9
  <2> QED
    BY <1>0, <1>1, <1>6, <1>9, <1>11, <1>12, <1>22, <2>1, <2>2 DEF Laid
<1>14. LeavesRest(W)
  <2>1. v.sd <= Len(scope') /\ v.ld <= Len(loops') /\ nextLocal <= nextLocal'
    BY <1>1, <1>3, <1>4, <1>9
  <2>2. ScopesBehind(W)
    <3>1. \A d \in Nat : d <= Len(scope) => d \in 0 .. Len(scope)
      BY <1>3
    <3> QED
      BY <1>0, <1>4, <1>9, <3>1 DEF ScopesBehind
  <2> QED
    BY <1>0, <1>1, <1>3, <2>1, <2>2 DEF LeavesRest
<1>15. PICK V : V = [k \in 0 .. Len(agenda) - 1 + Len(A) |->
                       IF k < Len(agenda) THEN W[k] ELSE ws[k - Len(agenda) + 1]]
  OBVIOUS
<1>16. /\ NewEntries(W, V, Q, A) /\ NewNesting(W, V, A) /\ NewBlocksEmpty(A)
       /\ V[Len(agenda)]' = ws[Len(A)]
  BY <1>1, <1>13, <1>14, <1>15, LaidEntries
<1>17. p.b = cur /\ p.i = Len(blocks[cur].stmts) + 1
  BY <1>0 DEF Current, Point
<1>18. Current(V[Len(agenda)])' = q
  <2>1. ws[Len(A)].cont = Z
    <3>1. Len(A) \in 1 .. Len(A)
      BY <1>6
    <3> QED
      BY <1>8, <1>22, <3>1
  <2> QED
    BY <1>1, <1>10, <1>16, <1>17, <2>1 DEF Current
<1>19. HereBlock(p, Q)
  BY <1>0, <1>1, <1>4, <1>10 DEF HereBlock, Is
<1>20. NewPoints(W, V, P, Q)
  <2>1. q.b \in DOMAIN blocks' /\ q.i \in Nat \ {0}
    BY <1>1, <1>3, <1>10, <1>17 DEF Point
  <2>2. CodedNext(q, Q, V) /\ CodedNext(p, Q, V)
    BY <1>18, <1>19 DEF CodedNext, Opened, Coded, Here
  <2>3. \A r \in P : ~ Awaited(r, S, w, v, scope)
    BY <1>1 DEF Awaited
  <2>4. Extended(blocks, blocks')
    BY <1>1 DEF Extended
  <2> QED
    BY <1>0, <1>10, <1>18, <2>1, <2>2, <2>3, <2>4 DEF NewPoints
<1> QED
  BY <1>16, <1>20 DEF Splices

(* A new point has its code, or is where the code goes on, now or later. *)
Provided(r, W, Q, A, ws, q) ==
  /\ r.b \in DOMAIN blocks' /\ r.i \in Nat \ {0}
  /\ \/ Coded(r, Q, blocks') \/ r = q
     \/ \E k \in 1 .. Len(A) :
          Awaited(r, Back(A, k), ws[k], IF k = 1 THEN W[Len(agenda) - 1] ELSE ws[k - 1], scope')

LEMMA LaidSplices ==
  ASSUME CfgInv, NEW P, NEW W, Lowering(P, W), agenda # <<>>, S.k \notin JumpKinds,
         NEW Q, NEW A, NEW ws, Laid(W, Q, A, ws), LeavesRest(W), Extended(blocks, blocks'), P \subseteq Q,
         NEW q \in Q, q = Point(cur', Len(blocks'[cur'].stmts) + 1, ws[Len(A)].cont, scope'),
         \A r \in Q \ P : Provided(r, W, Q, A, ws, q),
         Coded(Current(W[Len(agenda)]), Q, blocks')
  PROVE  \E V : Splices(P, W, Q, V)
<1>0. PICK L, M, v : L = Len(agenda) /\ M = Len(A) /\ v = W[L - 1]
  OBVIOUS
<1>1. PICK V : V = [k \in 0 .. Len(agenda) - 1 + Len(A) |->
                      IF k < Len(agenda) THEN W[k] ELSE ws[k - Len(agenda) + 1]]
  OBVIOUS
<1>2. /\ NewEntries(W, V, Q, A) /\ NewNesting(W, V, A) /\ NewBlocksEmpty(A)
      /\ V[Len(agenda)]' = ws[Len(A)]
  BY <1>1, LaidEntries
<1>3. /\ AnySeq(A) /\ agenda' = A \o Rest /\ M \in Nat \ {0}
  BY <1>0 DEF Laid
<1>4. L \in Nat \ {0} /\ AnySeq(agenda)
  BY <1>0, Before
<1>5. Len(agenda') = L - 1 + M /\ \A k \in 1 .. M : Back(agenda', L - 1 + k) = Back(A, k)
  BY <1>0, <1>3, <1>4, AgendaPlaces
<1>6. Current(V[Len(agenda)])' = q
  BY <1>2 DEF Current
<1>7. ASSUME NEW r, NEW k \in 1 .. M, Awaited(r, Back(A, k), ws[k], IF k = 1 THEN v ELSE ws[k - 1], scope')
      PROVE  Opened(r, V)'
  <2>1. PICK m : m = L - 1 + k
    OBVIOUS
  <2>2. /\ m \in 1 .. Len(agenda') /\ m \in 0 .. L - 1 + M /\ ~ (m < L) /\ m - L + 1 = k
        /\ m - 1 \in 0 .. L - 1 + M /\ (k = 1 => m - 1 < L /\ m - 1 = L - 1)
        /\ (k # 1 => ~ (m - 1 < L) /\ m - 1 - L + 1 = k - 1)
    BY <1>3, <1>4, <1>5, <2>1
  <2>3. V[m] = ws[k] /\ V[m - 1] = IF k = 1 THEN v ELSE ws[k - 1]
    BY <1>0, <1>1, <2>2
  <2>4. Awaited(r, Back(agenda', m), V[m], V[m - 1], scope')
    BY <1>5, <1>7, <2>1, <2>3
  <2> QED
    BY <2>2, <2>4 DEF Opened
<1>8. ASSUME NEW r \in Q \ P
      PROVE  r.b \in DOMAIN blocks' /\ r.i \in Nat \ {0} /\ CodedNext(r, Q, V)
  <2>1. /\ r.b \in DOMAIN blocks' /\ r.i \in Nat \ {0}
        /\ \/ Coded(r, Q, blocks') \/ r = q
           \/ \E k \in 1 .. M : Awaited(r, Back(A, k), ws[k], IF k = 1 THEN v ELSE ws[k - 1], scope')
    BY <1>0 DEF Provided
  <2>2. CASE Coded(r, Q, blocks')
    BY <2>1, <2>2 DEF CodedNext
  <2>3. CASE r = q
    BY <1>6, <2>1, <2>3 DEF CodedNext, Opened
  <2>4. ASSUME NEW k \in 1 .. M, Awaited(r, Back(A, k), ws[k], IF k = 1 THEN v ELSE ws[k - 1], scope')
        PROVE  CodedNext(r, Q, V)
    BY <1>7, <2>4 DEF CodedNext
  <2> QED
    BY <2>1, <2>2, <2>3, <2>4
<1>9. \A r \in P : ~ Awaited(r, S, W[Len(agenda)], W[Len(agenda) - 1], scope)
  BY DEF Awaited, JumpKinds
<1>10. NewPoints(W, V, P, Q)
  BY <1>6, <1>8, <1>9 DEF NewPoints, CodedNext
<1> QED
  BY <1>2, <1>10 DEF Splices

LEMMA FourItems ==
  ASSUME NEW a, NEW b, NEW c, NEW d, NEW s, s = <<a, b, c, d>>
  PROVE  AnySeq(s) /\ Len(s) = 4 /\ Back(s, 4) = a /\ Back(s, 3) = b /\ Back(s, 2) = c /\ Back(s, 1) = d
<1>1. s \in Seq({a, b, c, d}) /\ Len(s) = 4 /\ s[1] = a /\ s[2] = b /\ s[3] = c /\ s[4] = d
  OBVIOUS
<1>2. Back(s, 4) = a /\ Back(s, 3) = b /\ Back(s, 2) = c /\ Back(s, 1) = d
  BY <1>1 DEF Back
<1>3. AnySeq(s)
  BY <1>1 DEF AnySeq
<1> QED
  BY <1>1, <1>2, <1>3

(* n blocks are opened, and then b is closed. *)
Splits(bs, cs, b, t, n) ==
  /\ Listed(cs) /\ Extended(bs, cs) /\ HasTerm(cs, b, Len(bs[b].stmts) + 1, t) /\ Len(bs) \in Nat
  /\ DOMAIN cs = 1 .. Len(bs) + n /\ b \notin Len(bs) + 1 .. Len(bs) + n
  /\ \A c \in Len(bs) + 1 .. Len(bs) + n : c \in DOMAIN cs /\ cs[c].stmts = <<>> /\ IsOpen(cs, c)

LEMMA SplitBlocks ==
  ASSUME NEW bs, Listed(bs), NEW b, b \in DOMAIN bs, IsOpen(bs, b), NEW n \in Nat, NEW t, t # Unreachable,
         NEW cs, cs = Terminate(NewBlocks(bs, n), b, t)
  PROVE  Splits(bs, cs, b, t, n)
<1>1. PICK b0 : b0 = NewBlocks(bs, n)
  OBVIOUS
<1>2. Adds(bs, b0, n)
  BY <1>1, BlocksAdded
<1>3. /\ Listed(b0) /\ Extended(bs, b0) /\ DOMAIN b0 = 1 .. Len(bs) + n /\ Len(bs) \in Nat /\ DOMAIN bs = 1 .. Len(bs)
      /\ \A c \in DOMAIN bs : b0[c] = bs[c]
      /\ \A c \in Len(bs) + 1 .. Len(bs) + n : b0[c].stmts = <<>> /\ IsOpen(b0, c)
  BY <1>2 DEF Adds
<1>4. b \in DOMAIN b0 /\ IsOpen(b0, b) /\ b0[b] = bs[b] /\ cs = Terminate(b0, b, t)
      /\ b \notin Len(bs) + 1 .. Len(bs) + n
  <2>1. b \in 1 .. Len(bs) /\ b0[b] = bs[b]
    BY <1>3
  <2>2. b \in 1 .. Len(bs) + n /\ b \notin Len(bs) + 1 .. Len(bs) + n
    BY <1>3, <2>1
  <2> QED
    BY <1>1, <1>3, <2>1, <2>2 DEF IsOpen
<1>5. Seals(b0, cs, b, t)
  BY <1>3, <1>4, SealedIn
<1>6. /\ Listed(cs) /\ Extended(b0, cs) /\ DOMAIN cs = DOMAIN b0 /\ HasTerm(cs, b, Len(b0[b].stmts) + 1, t)
      /\ \A c \in DOMAIN b0 : c # b => cs[c] = b0[c]
  BY <1>5 DEF Seals
<1>7. Extended(bs, cs)
  BY <1>3, <1>6, ExtendedMore
<1>8. \A c \in Len(bs) + 1 .. Len(bs) + n : c \in DOMAIN b0
  BY <1>3
<1>9. \A c \in Len(bs) + 1 .. Len(bs) + n : cs[c] = b0[c] /\ c \in DOMAIN cs
  BY <1>4, <1>6, <1>8
<1>10. \A c \in Len(bs) + 1 .. Len(bs) + n : c \in DOMAIN cs /\ cs[c].stmts = <<>> /\ IsOpen(cs, c)
  BY <1>3, <1>9 DEF IsOpen
<1> QED
  BY <1>3, <1>4, <1>6, <1>7, <1>10 DEF Splits

LEMMA BlockItem ==
  ASSUME NEW b \in Seq(Stmt), NEW x, x = Block(b)
  PROVE  x.k = "block" /\ x.k \notin {"again"} \cup Micro \cup JumpKinds /\ x.k \in Plain /\ Waiting(x) = {}
BY DEF Block, Micro, JumpKinds, Plain, Waiting

(* Nothing before the head is changed: the scopes, the loops and the locals. *)
LEMMA SameRest ==
  ASSUME CfgInv, NEW P, NEW W, Lowering(P, W), agenda # <<>>,
         scope' = scope, loops' = loops, nextLocal' = nextLocal, Listed(blocks')
  PROVE  LeavesRest(W)
<1>1. PICK L, w, v : L = Len(agenda) /\ w = W[L] /\ v = W[L - 1]
  OBVIOUS
<1>2. /\ w.sd = Len(scope) /\ w.ld = Len(loops) /\ v.sd <= w.sd /\ v.ld <= w.ld /\ nextLocal \in Nat
  BY <1>1, Before
<1>3. ScopesBehind(W)
  BY ScopesSame
<1>4. nextLocal <= nextLocal'
  BY <1>2
<1> QED
  BY <1>1, <1>2, <1>3, <1>4 DEF LeavesRest

LEMMA IfSplices ==
  ASSUME CfgInv, NEW P, NEW W, Lowering(P, W), LowerIf
  PROVE  \E Q, V : Splices(P, W, Q, V)
<1>0. PICK w, v, p, C, n : /\ w = W[Len(agenda)] /\ v = W[Len(agenda) - 1] /\ p = Current(w) /\ C = v.cont
                           /\ n = Len(blocks)
  OBVIOUS
<1>1. PICK x4, x3, x2, x1, A, t :
        /\ x4 = Block(S.body) /\ x3 = [k |-> "arm", next |-> n + 2, join |-> n + 3]
        /\ x2 = Block(S.else) /\ x1 = [k |-> "arm", next |-> n + 3, join |-> n + 3]
        /\ A = <<x4, x3, x2, x1>> /\ t = CondBr(<<"free">>, n + 1, n + 2)
  OBVIOUS
<1>2. /\ agenda # <<>> /\ S.k = "if" /\ agenda' = A \o Rest
      /\ blocks' = Terminate(NewBlocks(blocks, 3), cur, t) /\ cur' = n + 1
      /\ scope' = scope /\ loops' = loops /\ nextLocal' = nextLocal
  BY <1>0, <1>1 DEF LowerIf, Next1, S
<1>3. S.k \notin {"pop"} \cup JumpKinds
  BY <1>2 DEF JumpKinds
<1>4. /\ AnySeq(C) /\ Listed(blocks) /\ cur \in DOMAIN blocks /\ IsOpen(blocks, cur) /\ AnySeq(scope) /\ nextLocal \in Nat
      /\ w.sd = Len(scope) /\ w.ld = Len(loops) /\ w.sd \in Nat /\ w.ld \in Nat
  BY <1>0, <1>2, Before
<1>5. /\ p.cont # <<>> /\ H(p) = S /\ R(p) = C /\ p.sc = scope /\ v.sd = Len(scope) /\ v.ld = Len(loops)
  BY <1>0, <1>2, <1>3, AtStatement
<1>6. S.body \in Seq(Stmt) /\ S.else \in Seq(Stmt)
  <2>1. S \in Item
    BY <1>2, HeadFacts DEF CfgInv
  <2> QED
    BY <1>2, <2>1, ItemKinds
<1>7. /\ AnySeq(A) /\ Len(A) = 4 /\ Back(A, 4) = x4 /\ Back(A, 3) = x3 /\ Back(A, 2) = x2 /\ Back(A, 1) = x1
  BY <1>1, FourItems
<1>8. /\ x4.k = "block" /\ x4.k \notin {"again"} \cup Micro \cup JumpKinds /\ x4.k \in Plain /\ Waiting(x4) = {}
      /\ x2.k = "block" /\ x2.k \notin {"again"} \cup Micro \cup JumpKinds /\ x2.k \in Plain /\ Waiting(x2) = {}
  BY <1>1, <1>6, BlockItem
<1>9. /\ x3.k = "arm" /\ x3.k \in Plain /\ Waiting(x3) = {n + 2} /\ x3.next = n + 2 /\ x3.join = n + 3
      /\ x1.k = "arm" /\ x1.k \in Plain /\ Waiting(x1) = {n + 3} /\ x1.next = n + 3 /\ x1.join = n + 3
  BY <1>1 DEF Plain, JumpKinds, Waiting
<1>10. PICK c4, c2 : c4 = <<x4>> \o C /\ c2 = <<x2>> \o C
  OBVIOUS
<1>11. OnTop(C, C) /\ OnTop(c2, C) /\ OnTop(c4, C)
  <2>1. OnTop(C, C)
    BY <1>4, TopSelf
  <2> QED
    BY <1>8, <1>10, <2>1, TopCons
<1>12. PICK i, sd, ld : i = w.in /\ sd = Len(scope) /\ ld = Len(loops)
  OBVIOUS
<1>13. PICK w1, w2, w4, ws : /\ w1 = Todo(C, sd, ld, i) /\ w2 = Todo(c2, sd, ld, i) /\ w4 = Todo(c4, sd, ld, i)
                             /\ ws = [m \in 1 .. 4 |-> IF m = 4 THEN w4 ELSE IF m = 2 THEN w2 ELSE w1]
  OBVIOUS
<1>14. ws[1] = w1 /\ ws[2] = w2 /\ ws[3] = w1 /\ ws[4] = w4
  BY <1>13
<1>15. /\ w1.cont = C /\ w1.sd = sd /\ w1.ld = ld /\ w2.cont = c2 /\ w2.sd = sd /\ w2.ld = ld
       /\ w4.cont = c4 /\ w4.sd = sd /\ w4.ld = ld
  BY <1>13 DEF Todo
<1>16. PICK q4, q3, q2, Q : /\ q4 = Point(n + 1, 1, c4, scope) /\ q3 = Point(n + 3, 1, C, scope)
                            /\ q2 = Point(n + 2, 1, c2, scope) /\ Q = P \cup {q2, q3, q4}
  OBVIOUS
<1>17. EntryOK(Q, w1, loops, nextLocal) /\ EntryOK(Q, w2, loops, nextLocal) /\ EntryOK(Q, w4, loops, nextLocal)
  <2>1. ASSUME NEW c, OnTop(c, C)
        PROVE  EntryOK(Q, Todo(c, sd, ld, i), loops, nextLocal)
    <3>1. OnTop(c, v.cont) /\ sd \in Nat
      BY <1>0, <1>4, <1>12, <2>1
    <3>2. EntryOK(P, Todo(c, sd, Len(loops), w.in), loops, nextLocal)
      BY <1>0, <1>2, <1>3, <3>1, TopEntry
    <3>3. PICK e : e = Todo(c, sd, ld, i)
      OBVIOUS
    <3>4. EntryOK(P, e, loops, nextLocal) /\ P \subseteq Q /\ nextLocal <= nextLocal
      BY <1>4, <1>12, <1>16, <3>2, <3>3
    <3>5. EntryOK(Q, e, loops, nextLocal)
      BY <1>4, <3>4, EntryStays
    <3> QED
      BY <3>3, <3>5
  <2> QED
    BY <1>11, <1>13, <2>1
<1>18. SubSeq(scope, 1, sd) = scope
  <2>1. Len(scope) \in 0 .. Len(scope)
    BY <1>4, AnyFacts
  <2> QED
    BY <1>4, <1>12, <2>1, FirstFacts
<1>19. q2 \in Q /\ q3 \in Q /\ q4 \in Q
  BY <1>16
<1>20. /\ ItemOK(Q, x4, w4, w1, scope) /\ ItemOK(Q, x3, w1, w2, scope)
       /\ ItemOK(Q, x2, w2, w1, scope) /\ ItemOK(Q, x1, w1, v, scope)
  <2>1. StmtOK(x4, w4, w1) /\ StmtOK(x2, w2, w1)
    BY <1>10, <1>15 DEF StmtOK
  <2>2. ArmOK(Q, x3, w1, w2, scope)
    BY <1>9, <1>15, <1>16, <1>18, <1>19 DEF ArmOK
  <2>3. ArmOK(Q, x1, w1, v, scope)
    BY <1>0, <1>5, <1>9, <1>12, <1>15, <1>16, <1>18, <1>19 DEF ArmOK
  <2> QED
    BY <1>8, <1>9, <2>1, <2>2, <2>3 DEF ItemOK
<1>21. Splits(blocks, blocks', cur, t, 3)
  <2>1. t # Unreachable
    BY <1>1 DEF CondBr, Unreachable
  <2> QED
    BY <1>2, <1>4, <2>1, SplitBlocks
<1>22. /\ Listed(blocks') /\ Extended(blocks, blocks') /\ HasTerm(blocks', cur, Len(blocks[cur].stmts) + 1, t) /\ n \in Nat
       /\ \A c \in n + 1 .. n + 3 : c \in DOMAIN blocks' /\ blocks'[c].stmts = <<>>
  BY <1>0, <1>21 DEF Splits
<1>23. \A c \in {n + 1, n + 2, n + 3} : c \in DOMAIN blocks' /\ blocks'[c].stmts = <<>>
  <2>1. {n + 1, n + 2, n + 3} \subseteq n + 1 .. n + 3
    BY <1>22
  <2> QED
    BY <1>22, <2>1
<1>24. Laid(W, Q, A, ws)
  <2>1. \A k \in 1 .. 4 :
          /\ EntryOK(Q, ws[k], loops, nextLocal)
          /\ ItemOK(Q, Back(A, k), ws[k], IF k = 1 THEN v ELSE ws[k - 1], scope)
          /\ ws[k].sd = sd /\ ws[k].ld = ld
          /\ \A b \in Waiting(Back(A, k)) : blocks'[b].stmts = <<>>
          /\ Back(A, k).k \in Plain
    <3> TAKE k \in 1 .. 4
    <3>1. CASE k = 1
      BY <1>7, <1>9, <1>14, <1>15, <1>17, <1>20, <1>23, <3>1
    <3>2. CASE k = 2
      BY <1>7, <1>8, <1>14, <1>15, <1>17, <1>20, <3>2
    <3>3. CASE k = 3
      BY <1>7, <1>9, <1>14, <1>15, <1>17, <1>20, <1>23, <3>3
    <3>4. CASE k = 4
      BY <1>7, <1>8, <1>14, <1>15, <1>17, <1>20, <3>4
    <3> QED
      BY <3>1, <3>2, <3>3, <3>4
  <2> QED
    BY <1>0, <1>2, <1>7, <1>12, <2>1 DEF Laid
<1>25. LeavesRest(W)
  BY <1>2, <1>22, SameRest
<1>26. q4 = Point(cur', Len(blocks'[cur'].stmts) + 1, ws[Len(A)].cont, scope')
  <2>1. Len(blocks'[cur'].stmts) + 1 = 1
    BY <1>2, <1>23, AnyEmpty
  <2> QED
    BY <1>2, <1>7, <1>14, <1>15, <1>16, <2>1
<1>27. Coded(p, Q, blocks')
  <2>1. p.b = cur /\ p.i = Len(blocks[cur].stmts) + 1
    BY <1>0 DEF Current, Point
  <2>2. t.t = "cond" /\ t.yes = n + 1 /\ t.no = n + 2 /\ t = CondBr(<<"free">>, t.yes, t.no)
    BY <1>1 DEF CondBr
  <2>3. EndIf(p, Q, t)
    BY <1>1, <1>2, <1>5, <1>10, <1>16, <1>19, <2>2 DEF EndIf, Is
  <2>4. Closes(p, Q, t)
    BY <2>3 DEF Closes
  <2> QED
    BY <1>22, <2>1, <2>4, CodedBy
<1>28. ASSUME NEW r \in Q \ P
       PROVE  Provided(r, W, Q, A, ws, q4)
  <2>1. r.b \in DOMAIN blocks' /\ r.i \in Nat \ {0}
    BY <1>16, <1>23 DEF Point
  <2>2. CASE r = q4
    BY <2>1, <2>2 DEF Provided
  <2>3. CASE r = q3
    <3>1. Awaited(r, x1, w1, v, scope)
      BY <1>0, <1>9, <1>15, <1>16, <1>18, <2>3 DEF Awaited
    <3>2. 1 \in 1 .. Len(A) /\ Awaited(r, Back(A, 1), ws[1], IF 1 = 1 THEN v ELSE ws[1 - 1], scope')
      BY <1>2, <1>7, <1>14, <3>1
    <3> QED
      BY <1>0, <2>1, <3>2 DEF Provided
  <2>4. CASE r = q2
    <3>1. Awaited(r, x3, w1, w2, scope)
      BY <1>9, <1>15, <1>16, <1>18, <2>4 DEF Awaited
    <3>2. 3 \in 1 .. Len(A) /\ Awaited(r, Back(A, 3), ws[3], IF 3 = 1 THEN v ELSE ws[3 - 1], scope')
      BY <1>2, <1>7, <1>14, <3>1
    <3> QED
      BY <1>0, <2>1, <3>2 DEF Provided
  <2> QED
    BY <1>16, <2>2, <2>3, <2>4
<1>29. P \subseteq Q
  BY <1>16
<1>30. Coded(Current(W[Len(agenda)]), Q, blocks')
  BY <1>0, <1>27
<1> QED
  BY <1>2, <1>3, <1>19, <1>22, <1>24, <1>25, <1>26, <1>28, <1>29, <1>30, LaidSplices

(* A loop is entered: l is its record, a the item after its body. *)
Enters(Q, l, a, c) ==
  /\ l = LoopRec(S, l.cont, l.exit, l.l, scope', c) /\ S.k \in {"while", "list", "iter"}
  /\ a.k \in {"end", "endlist"} /\ a.cont = l.cont /\ a.brk = l.exit /\ (a.k = "endlist" <=> S.k = "list")
  /\ agenda' = <<Block(S.body), a>> \o Rest
  /\ loops' = Append(loops, [cont |-> l.cont, brk |-> l.exit])
  /\ nextLocal <= nextLocal' /\ nextLocal' \in Nat /\ Keeps(l) \subseteq 0 .. nextLocal' - 1
  /\ AnySeq(scope') /\ Len(scope') = Len(scope) /\ SameBelow(scope', scope)
  /\ ExitPoint(l) \in Q /\ ContPoint(l) \in Q
  /\ S.k = "while" => Point(l.cont, 1, <<S>> \o c, scope') \in Q
  /\ a.k = "endlist" => a.i = l.l + 1 /\ Point(a.head, 1, <<Stage("round", l)>> \o c, scope') \in Q
  /\ \A b \in Waiting(a) : blocks'[b].stmts = <<>>
  /\ Listed(blocks')

(* What a loop l in front of c makes of the code c1 after its body and c2 in it. *)
Encloses(l, c, c1, c2, x, t) ==
  /\ OnTop(c1, t) /\ OnTop(c2, t) /\ c2 = <<x>> \o c1
  /\ Nearest(t, Len(c) + 1) /\ Back(t, Len(c) + 1) = l /\ AnySeq(t) /\ Len(t) = Len(c) + 1 /\ Len(c) \in Nat
  /\ \A k \in 1 .. Len(c) : Back(t, k) = Back(c, k)

LEMMA ClosingTop ==
  ASSUME NEW l, l.k = "again", NEW c, AnySeq(c), NEW t, t = <<l>> \o c, NEW b, b \in Seq(Stmt), b = l.stmt.body
  PROVE  Encloses(l, c, Closing(l) \o c, Inside(l, c), Block(b), t)
<1>1. /\ AnySeq(t) /\ Len(t) = Len(c) + 1 /\ Back(t, Len(c) + 1) = l /\ \A k \in 1 .. Len(c) : Back(t, k) = Back(c, k)
  BY ConsFacts
<1>2. Len(c) \in Nat
  BY AnyFacts
<1>3. Nearest(t, Len(c) + 1)
  <2>1. Len(c) + 1 \in 1 .. Len(t) /\ (Len(c) + 1) + 1 .. Len(t) = {}
    BY <1>1, <1>2
  <2> QED
    BY <1>1, <2>1 DEF Nearest
<1>4. OnTop(t, t)
  BY <1>1, TopSelf
<1>5. PICK x, y : x = Block(b) /\ y = FPop
  OBVIOUS
<1>6. x.k \notin {"again"} \cup Micro /\ y.k \notin {"again"} \cup Micro
  BY <1>5, BlockItem DEF FPop, Micro
<1>7. PICK c1 : c1 = Closing(l) \o c
  OBVIOUS
<1>8. OnTop(c1, t)
  <2>1. CASE l.stmt.k = "while"
    BY <1>4, <1>7, <2>1 DEF Closing
  <2>2. CASE l.stmt.k # "while"
    <3>1. <<y, l>> \o c = <<y>> \o (<<l>> \o c)
      BY PairCons
    <3>2. c1 = <<y>> \o t
      BY <1>5, <1>7, <2>2, <3>1 DEF Closing
    <3> QED
      BY <1>4, <1>6, <3>2, TopCons
  <2> QED
    BY <2>1, <2>2
<1>9. OnTop(<<x>> \o c1, t)
  BY <1>6, <1>8, TopCons
<1>10. Inside(l, c) = <<x>> \o c1
  BY <1>5, <1>7 DEF Inside
<1> QED
  BY <1>1, <1>2, <1>3, <1>5, <1>7, <1>8, <1>9, <1>10 DEF Encloses

(* The entries of the body and of its end. *)
LoopEntries(l, c) ==
  [m \in 1 .. 2 |-> Todo(IF m = 1 THEN Closing(l) \o c ELSE Inside(l, c), Len(scope), Len(loops) + 1, Len(c) + 1)]

LoopSet(W, Q, l, c, A, ws) == Laid(W, Q, A, ws) /\ LeavesRest(W) /\ Len(A) = 2 /\ ws[2].cont = Inside(l, c)

LEMMA LoopLaid ==
  ASSUME CfgInv, NEW P, NEW W, Lowering(P, W), agenda # <<>>, NEW Q, P \subseteq Q,
         NEW C, C = W[Len(agenda) - 1].cont, NEW l, NEW a, Enters(Q, l, a, C), NEW ws, ws = LoopEntries(l, C),
         NEW A, A = <<Block(S.body), a>>
  PROVE  LoopSet(W, Q, l, C, A, ws)
<1>1. PICK v, w, x : v = W[Len(agenda) - 1] /\ w = W[Len(agenda)] /\ x = Block(S.body)
  OBVIOUS
<1>2. /\ l = LoopRec(S, l.cont, l.exit, l.l, scope', C) /\ S.k \in {"while", "list", "iter"}
      /\ a.k \in {"end", "endlist"} /\ a.cont = l.cont /\ a.brk = l.exit /\ (a.k = "endlist" <=> S.k = "list")
      /\ agenda' = A \o Rest
      /\ loops' = Append(loops, [cont |-> l.cont, brk |-> l.exit])
      /\ nextLocal <= nextLocal' /\ nextLocal' \in Nat /\ Keeps(l) \subseteq 0 .. nextLocal' - 1
      /\ AnySeq(scope') /\ Len(scope') = Len(scope) /\ SameBelow(scope', scope)
      /\ ExitPoint(l) \in Q /\ ContPoint(l) \in Q
      /\ S.k = "while" => Point(l.cont, 1, <<S>> \o C, scope') \in Q
      /\ a.k = "endlist" => a.i = l.l + 1 /\ Point(a.head, 1, <<Stage("round", l)>> \o C, scope') \in Q
      /\ \A b \in Waiting(a) : blocks'[b].stmts = <<>>
      /\ Listed(blocks')
  BY DEF Enters
<1>3. l.k = "again" /\ l.stmt = S /\ l.sc = scope' /\ l.rest = C
  BY <1>2 DEF LoopRec
<1>4. S.k \notin {"pop"} \cup JumpKinds /\ S.k \notin Plain
  BY <1>2 DEF JumpKinds, Plain
<1>5. /\ EntryOK(P, v, loops, nextLocal) /\ AnySeq(C) /\ AnySeq(loops) /\ AnySeq(scope) /\ nextLocal \in Nat
      /\ w.sd = Len(scope) /\ w.ld = Len(loops) /\ w.sd \in Nat /\ w.ld \in Nat
  BY <1>1, Before
<1>6. v.sd = Len(scope) /\ v.ld = Len(loops)
  BY <1>1, <1>4, AtStatement
<1>7. S.body \in Seq(Stmt)
  <2>1. S \in Item
    BY HeadFacts DEF CfgInv
  <2> QED
    BY <1>2, <2>1, ItemKinds
<1>8. AnySeq(A) /\ Len(A) = 2 /\ Back(A, 2) = x /\ Back(A, 1) = a
  BY <1>1, TwoItems
<1>9. x.k = "block" /\ x.k \in Plain /\ Waiting(x) = {}
  BY <1>1, <1>7, BlockItem
<1>10. PICK t, c1, c2, b : t = <<l>> \o C /\ c1 = Closing(l) \o C /\ c2 = Inside(l, C) /\ b = S.body
  OBVIOUS
<1>11. /\ OnTop(c1, t) /\ OnTop(c2, t) /\ Nearest(t, Len(C) + 1) /\ Back(t, Len(C) + 1) = l /\ AnySeq(t)
       /\ Len(t) = Len(C) + 1 /\ Len(C) \in Nat /\ \A k \in 1 .. Len(C) : Back(t, k) = Back(C, k)
       /\ c2 = <<x>> \o c1
  <2>1. l.k = "again" /\ b \in Seq(Stmt) /\ b = l.stmt.body
    BY <1>3, <1>7, <1>10
  <2>2. Encloses(l, C, Closing(l) \o C, Inside(l, C), Block(b), t)
    BY <1>5, <1>10, <2>1, ClosingTop
  <2>3. Encloses(l, C, c1, c2, x, t)
    BY <1>1, <1>10, <2>2
  <2> QED
    BY <2>3 DEF Encloses
<1>12. /\ Len(loops') = Len(loops) + 1 /\ loops'[Len(loops) + 1] = [cont |-> l.cont, brk |-> l.exit]
       /\ \A i \in 1 .. Len(loops) : loops'[i] = loops[i]
  BY <1>2, <1>5, PushedFacts
<1>13. PICK in, sd, ld : in = Len(C) + 1 /\ sd = Len(scope) /\ ld = Len(loops) + 1
  OBVIOUS
<1>14. PICK w1, w2 : w1 = Todo(c1, sd, ld, in) /\ w2 = Todo(c2, sd, ld, in)
  OBVIOUS
<1>15. /\ w1.cont = c1 /\ w1.sd = sd /\ w1.ld = ld /\ w1.in = in
       /\ w2.cont = c2 /\ w2.sd = sd /\ w2.ld = ld /\ w2.in = in
  BY <1>14 DEF Todo
<1>16. ws[1] = w1 /\ ws[2] = w2
  BY <1>10, <1>13, <1>14 DEF LoopEntries
<1>17. ASSUME NEW u, NEW c, OnTop(c, t), u.cont = c, u.sd = sd, u.ld = ld, u.in = in
       PROVE  EntryOK(Q, u, loops', nextLocal')
  <2>1. AnySeq(c) /\ sd \in Nat /\ ld \in Nat
    BY <1>5, <1>13, <1>17 DEF OnTop
  <2>2. PICK X : X = 0 .. nextLocal' - 1
    OBVIOUS
  <2>3. \A k \in 1 .. Len(t) : Reserves(Back(t, k)) \subseteq X
    <3>1. \A k \in 1 .. Len(C) : Reserves(Back(C, k)) \subseteq 0 .. nextLocal - 1
      BY <1>1, <1>5 DEF EntryOK
    <3>2. 0 .. nextLocal - 1 \subseteq X
      <4>1. PICK m, n : m = nextLocal /\ n = nextLocal'
        OBVIOUS
      <4>2. m \in Nat /\ n \in Nat /\ m <= n
        BY <1>2, <1>5, <4>1
      <4>3. 0 .. m - 1 \subseteq 0 .. n - 1
        BY <4>2
      <4> QED
        BY <2>2, <4>1, <4>3
    <3>3. Reserves(l) \subseteq X
      BY <1>2, <1>3, <2>2 DEF Reserves
    <3>4. \A k \in 1 .. Len(t) : k \in 1 .. Len(C) \/ k = Len(C) + 1
      BY <1>11
    <3> QED
      BY <1>11, <3>1, <3>2, <3>3, <3>4
  <2>4. \A k \in 1 .. Len(c) : Reserves(Back(c, k)) \subseteq X
    BY <1>17, <2>3, TopReserves
  <2>5. Nearest(c, in) /\ Back(c, in) = l
    BY <1>11, <1>13, <1>17, TopNearest
  <2>6. LoopOK(Q, u, loops'[ld])
    BY <1>2, <1>12, <1>13, <1>17, <2>5 DEF LoopOK
  <2> QED
    BY <1>17, <2>1, <2>2, <2>4, <2>6 DEF EntryOK
<1>18. EntryOK(Q, w1, loops', nextLocal') /\ EntryOK(Q, w2, loops', nextLocal')
  BY <1>11, <1>15, <1>17
<1>19. ItemOK(Q, x, w2, w1, scope')
  BY <1>9, <1>11, <1>15 DEF ItemOK, StmtOK
<1>20. ItemOK(Q, a, w1, v, scope')
  <2>1. Back(c1, in) = l
    BY <1>11, <1>13, TopNearest
  <2>2. SubSeq(scope', 1, sd) = scope'
    <3>1. Len(scope') \in 0 .. Len(scope')
      BY <1>2, AnyFacts
    <3> QED
      BY <1>2, <1>13, <3>1, FirstFacts
  <2>3. v.ld = ld - 1
    BY <1>5, <1>6, <1>13
  <2>4. EndOK(Q, a, w1, v, scope')
    BY <1>1, <1>2, <1>3, <1>6, <1>10, <1>13, <1>15, <2>1, <2>2, <2>3 DEF EndOK
  <2> QED
    BY <1>2, <2>4 DEF ItemOK
<1>21. Laid(W, Q, A, ws)
  <2>1. \A k \in 1 .. 2 :
          /\ EntryOK(Q, ws[k], loops', nextLocal')
          /\ ItemOK(Q, Back(A, k), ws[k], IF k = 1 THEN v ELSE ws[k - 1], scope')
          /\ ws[k].sd = sd /\ ws[k].ld = ld
          /\ \A y \in Waiting(Back(A, k)) : blocks'[y].stmts = <<>>
          /\ Back(A, k).k \in Plain
    <3> TAKE k \in 1 .. 2
    <3>1. CASE k = 1
      <4>1. a.k \in Plain
        BY <1>2 DEF Plain, JumpKinds
      <4> QED
        BY <1>2, <1>8, <1>15, <1>16, <1>18, <1>20, <3>1, <4>1
    <3>2. CASE k = 2
      BY <1>8, <1>9, <1>15, <1>16, <1>18, <1>19, <3>2
    <3> QED
      BY <3>1, <3>2
  <2>2. Len(scope') = sd /\ Len(loops') = ld
    BY <1>2, <1>12, <1>13
  <2>3. \A k \in 1 .. Len(A) :
          /\ EntryOK(Q, ws[k], loops', nextLocal')
          /\ ItemOK(Q, Back(A, k), ws[k], IF k = 1 THEN W[Len(agenda) - 1] ELSE ws[k - 1], scope')
          /\ ws[k].sd = Len(scope') /\ ws[k].ld = Len(loops')
          /\ \A y \in Waiting(Back(A, k)) : blocks'[y].stmts = <<>>
    BY <1>1, <1>8, <2>1, <2>2
  <2>4. \A k \in 1 .. Len(A) : Back(A, k).k \in Plain
    BY <1>8, <2>1
  <2>5. Len(A) \in Nat \ {0} /\ AnySeq(A) /\ agenda' = A \o Rest
    BY <1>2, <1>8
  <2> QED
    BY <2>3, <2>4, <2>5 DEF Laid
<1>22. LeavesRest(W)
  <2>1. v.sd <= Len(scope') /\ v.ld <= Len(loops')
    BY <1>2, <1>5, <1>6, <1>12
  <2>2. ScopesBehind(W)
    BY <1>2, <1>4 DEF ScopesBehind, SameBelow
  <2>3. \A i \in 1 .. v.ld : loops'[i] = loops[i]
    BY <1>6, <1>12
  <2> QED
    BY <1>1, <1>2, <2>1, <2>2, <2>3 DEF LeavesRest
<1> QED
  BY <1>8, <1>10, <1>15, <1>16, <1>21, <1>22 DEF LoopSet

LEMMA AtFront ==
  ASSUME CfgInv, NEW P, NEW W, Lowering(P, W), agenda # <<>>, S.k \notin {"pop"} \cup JumpKinds,
         NEW p, p = Current(W[Len(agenda)]), NEW c, c = W[Len(agenda) - 1].cont
  PROVE  p.cont = <<S>> \o c
<1>1. PICK v, w : v = W[Len(agenda) - 1] /\ w = W[Len(agenda)]
  OBVIOUS
<1>2. ItemOK(P, S, w, v, scope)
  BY <1>1, Before
<1>3. w.cont = <<S>> \o v.cont
  BY <1>2 DEF ItemOK, StmtOK, JumpKinds
<1>4. p.cont = w.cont
  BY <1>1 DEF Current, Point
<1> QED
  BY <1>1, <1>3, <1>4

AwaitsLoop(l, a, ws, v, sc) ==
  /\ Awaited(ExitPoint(l), a, ws[1], v, sc)
  /\ a.k = "endlist" => Awaited(ContPoint(l), a, ws[1], v, sc)

(* The point after a loop is where its end puts the builder. *)
LEMMA LoopAwaits ==
  ASSUME NEW l, l.k = "again", NEW a, a.k \in {"end", "endlist"}, NEW c, AnySeq(c), NEW b, b \in Seq(Stmt), b = l.stmt.body,
         NEW ws, ws = LoopEntries(l, c), NEW v, NEW sc
  PROVE  AwaitsLoop(l, a, ws, v, sc)
<1>1. PICK c1, in, t : c1 = Closing(l) \o c /\ in = Len(c) + 1 /\ t = <<l>> \o c
  OBVIOUS
<1>2. ws[1].cont = c1 /\ ws[1].in = in
  <2>1. ws[1] = Todo(c1, Len(scope), Len(loops) + 1, in)
    BY <1>1 DEF LoopEntries
  <2> QED
    BY <2>1 DEF Todo
<1>3. Encloses(l, c, Closing(l) \o c, Inside(l, c), Block(b), t)
  BY <1>1, ClosingTop
<1>4. OnTop(c1, t) /\ Nearest(t, in) /\ Back(t, in) = l
  BY <1>1, <1>3 DEF Encloses
<1>5. Back(c1, in) = l
  BY <1>4, TopNearest
<1> QED
  BY <1>2, <1>5 DEF Awaited, AwaitsLoop

(* Blocks that are there and have nothing in them yet. *)
Free(bs, E) == Listed(bs) /\ \A c \in E : c \in DOMAIN bs /\ bs[c].stmts = <<>> /\ IsOpen(bs, c)

LEMMA FreeLess ==
  ASSUME NEW bs, NEW E, Free(bs, E), NEW F, F \subseteq E
  PROVE  Free(bs, F)
BY DEF Free

(* n blocks more, from the one after m on. *)
HasRoom(bs, cs, m, n) ==
  /\ Free(cs, m + 1 .. m + n) /\ Extended(bs, cs) /\ m \in Nat
  /\ \A c \in DOMAIN bs : c \in DOMAIN cs /\ cs[c] = bs[c] /\ c \notin m + 1 .. m + n

LEMMA FreeNew ==
  ASSUME NEW bs, Listed(bs), NEW n \in Nat, NEW cs, cs = NewBlocks(bs, n), NEW m, m = Len(bs)
  PROVE  HasRoom(bs, cs, m, n)
<1>1. Adds(bs, cs, n)
  BY BlocksAdded
<1>2. /\ Listed(cs) /\ Extended(bs, cs) /\ DOMAIN cs = 1 .. Len(bs) + n /\ Len(bs) \in Nat /\ DOMAIN bs = 1 .. Len(bs)
      /\ \A c \in DOMAIN bs : cs[c] = bs[c]
      /\ \A c \in Len(bs) + 1 .. Len(bs) + n : cs[c].stmts = <<>> /\ IsOpen(cs, c)
  BY <1>1 DEF Adds
<1>3. \A c \in Len(bs) + 1 .. Len(bs) + n : c \in DOMAIN cs
  BY <1>2
<1>4. \A c \in DOMAIN bs : c \in DOMAIN cs /\ cs[c] = bs[c] /\ c \notin Len(bs) + 1 .. Len(bs) + n
  BY <1>2
<1> QED
  BY <1>1, <1>2, <1>3, <1>4 DEF Free, HasRoom

LEMMA FreeEmit ==
  ASSUME NEW bs, NEW E, Free(bs, E), NEW b, b \in DOMAIN bs, b \notin E, IsOpen(bs, b), NEW s, AnySeq(s),
         NEW cs, cs = Emit(bs, b, s)
  PROVE  Free(cs, E) /\ Emits(bs, cs, b, s) /\ Extended(bs, cs) /\ b \in DOMAIN cs /\ IsOpen(cs, b)
<1>1. Emits(bs, cs, b, s)
  BY Emitted DEF Free
<1> QED
  BY <1>1 DEF Emits, Free, IsOpen

LEMMA FreeSeal ==
  ASSUME NEW bs, NEW E, Free(bs, E), NEW b, b \in DOMAIN bs, b \notin E, IsOpen(bs, b), NEW t, t # Unreachable,
         NEW cs, cs = Terminate(bs, b, t)
  PROVE  /\ Free(cs, E) /\ Extended(bs, cs) /\ b \in DOMAIN cs /\ DOMAIN cs = DOMAIN bs
         /\ HasTerm(cs, b, Len(bs[b].stmts) + 1, t)
<1>1. Seals(bs, cs, b, t)
  BY SealedIn DEF Free
<1> QED
  BY <1>1 DEF Seals, Free, IsOpen

(* The blocks a while is made of. *)
WhileCode(bs, cs, b, n, s, t) ==
  /\ Extended(bs, cs) /\ HasTerm(cs, b, Len(bs[b].stmts) + 1, s) /\ n \in Nat
  /\ n + 1 \in DOMAIN cs /\ HasTerm(cs, n + 1, 1, t) /\ Free(cs, {n + 2, n + 3})

LEMMA WhileBlocks ==
  ASSUME NEW bs, Listed(bs), NEW b, b \in DOMAIN bs, IsOpen(bs, b), NEW s, s # Unreachable, NEW t, t # Unreachable,
         NEW n, n = Len(bs), NEW cs, cs = Terminate(Terminate(NewBlocks(bs, 3), b, s), n + 1, t)
  PROVE  WhileCode(bs, cs, b, n, s, t)
<1>0. PICK b0, b1 : b0 = NewBlocks(bs, 3) /\ b1 = Terminate(b0, b, s)
  OBVIOUS
<1>1. /\ Free(b0, n + 1 .. n + 3) /\ Extended(bs, b0) /\ n \in Nat
      /\ b \in DOMAIN b0 /\ b0[b] = bs[b] /\ b \notin n + 1 .. n + 3
  <2>1. HasRoom(bs, b0, n, 3)
    BY <1>0, FreeNew
  <2> QED
    BY <2>1 DEF HasRoom
<1>2. IsOpen(b0, b)
  BY <1>1 DEF IsOpen
<1>3. /\ Free(b1, n + 1 .. n + 3) /\ Extended(b0, b1) /\ HasTerm(b1, b, Len(b0[b].stmts) + 1, s) /\ b \in DOMAIN b1
  BY <1>0, <1>1, <1>2, FreeSeal
<1>4. PICK c, F : c = n + 1 /\ F = {n + 2, n + 3}
  OBVIOUS
<1>5. c \in n + 1 .. n + 3 /\ F \subseteq n + 1 .. n + 3 /\ c \notin F
  BY <1>1, <1>4
<1>6. /\ c \in DOMAIN b1 /\ b1[c].stmts = <<>> /\ IsOpen(b1, c) /\ Free(b1, F)
  BY <1>3, <1>5, FreeLess DEF Free
<1>7. cs = Terminate(b1, c, t)
  BY <1>0, <1>4
<1>8. /\ Free(cs, F) /\ Extended(b1, cs) /\ c \in DOMAIN cs /\ HasTerm(cs, c, Len(b1[c].stmts) + 1, t)
  BY <1>5, <1>6, <1>7, FreeSeal
<1>9. HasTerm(cs, c, 1, t)
  <2>1. PICK m : m = Len(b1[c].stmts)
    OBVIOUS
  <2>2. HasTerm(cs, c, m + 1, t) /\ m + 1 = 1
    BY <1>6, <1>8, <2>1, AnyEmpty
  <2> QED
    BY <2>2
<1>10. HasTerm(cs, b, Len(bs[b].stmts) + 1, s)
  <2>1. HasTerm(b1, b, Len(bs[b].stmts) + 1, s)
    BY <1>1, <1>3
  <2> QED
    BY <1>3, <1>8, <2>1, CodeStays
<1>11. Extended(bs, b1)
  BY <1>1, <1>3, ExtendedMore
<1>12. Extended(bs, cs)
  BY <1>8, <1>11, ExtendedMore
<1> QED
  BY <1>1, <1>4, <1>8, <1>9, <1>10, <1>12 DEF WhileCode

LEMMA WhileSplices ==
  ASSUME CfgInv, NEW P, NEW W, Lowering(P, W), LowerWhile
  PROVE  \E Q, V : Splices(P, W, Q, V)
<1>0. PICK w, v, p, C, n : /\ w = W[Len(agenda)] /\ v = W[Len(agenda) - 1] /\ p = Current(w) /\ C = v.cont
                           /\ n = Len(blocks)
  OBVIOUS
<1>1. PICK l, a, A, s, t : /\ l = LoopRec(S, n + 1, n + 3, nextLocal, scope, C)
                           /\ a = [k |-> "end", cont |-> n + 1, brk |-> n + 3]
                           /\ A = <<Block(S.body), a>> /\ s = Goto(n + 1) /\ t = CondBr(<<"free">>, n + 2, n + 3)
  OBVIOUS
<1>2. /\ agenda # <<>> /\ S.k = "while" /\ agenda' = A \o Rest
      /\ blocks' = Terminate(Terminate(NewBlocks(blocks, 3), cur, s), n + 1, t) /\ cur' = n + 2
      /\ loops' = Append(loops, [cont |-> n + 1, brk |-> n + 3])
      /\ scope' = scope /\ nextLocal' = nextLocal
  BY <1>0, <1>1 DEF LowerWhile, EntersLoop, Next1, S
<1>3. S.k \notin {"pop"} \cup JumpKinds
  BY <1>2 DEF JumpKinds
<1>4. /\ AnySeq(C) /\ Listed(blocks) /\ cur \in DOMAIN blocks /\ IsOpen(blocks, cur) /\ AnySeq(scope) /\ nextLocal \in Nat
  BY <1>0, <1>2, Before
<1>5. p.cont # <<>> /\ H(p) = S /\ R(p) = C /\ p.sc = scope /\ p.cont = <<S>> \o C
  <2>1. p.cont # <<>> /\ H(p) = S /\ R(p) = v.cont /\ p.sc = scope
    BY <1>0, <1>2, <1>3, AtStatement
  <2>2. p.cont = <<S>> \o C
    BY <1>0, <1>2, <1>3, AtFront
  <2> QED
    BY <1>0, <2>1, <2>2
<1>6. WhileCode(blocks, blocks', cur, n, s, t)
  <2>1. s # Unreachable /\ t # Unreachable
    BY <1>1 DEF Goto, CondBr, Unreachable
  <2> QED
    BY <1>0, <1>2, <1>4, <2>1, WhileBlocks
<1>7. /\ Extended(blocks, blocks') /\ HasTerm(blocks', cur, Len(blocks[cur].stmts) + 1, s) /\ n \in Nat
      /\ n + 1 \in DOMAIN blocks' /\ HasTerm(blocks', n + 1, 1, t) /\ Listed(blocks')
      /\ n + 2 \in DOMAIN blocks' /\ blocks'[n + 2].stmts = <<>> /\ n + 3 \in DOMAIN blocks' /\ blocks'[n + 3].stmts = <<>>
  BY <1>6 DEF WhileCode, Free
<1>8. /\ l.k = "again" /\ l.stmt = S /\ l.cont = n + 1 /\ l.exit = n + 3 /\ l.l = nextLocal /\ l.sc = scope /\ l.rest = C
      /\ l = LoopRec(S, l.cont, l.exit, l.l, l.sc, C)
  BY <1>1 DEF LoopRec
<1>9. ContItem(l) = l /\ Keeps(l) = {}
  BY <1>2, <1>8 DEF ContItem, Keeps, ForKinds
<1>10. PICK qh, qc, qx, q, Q :
         /\ qh = Point(n + 1, 1, <<S>> \o C, scope) /\ qc = Point(n + 1, 1, <<l>> \o C, scope)
         /\ qx = Point(n + 3, 1, C, scope) /\ q = Point(n + 2, 1, Inside(l, C), scope) /\ Q = P \cup {qh, qc, qx, q}
  OBVIOUS
<1>11. ContPoint(l) = qc /\ ExitPoint(l) = qx
  BY <1>8, <1>9, <1>10 DEF ContPoint, ExitPoint
<1>12. P \subseteq Q /\ qh \in Q /\ qc \in Q /\ qx \in Q /\ q \in Q
  BY <1>10
<1>13. Enters(Q, l, a, C)
  <2>1. a.k = "end" /\ a.cont = n + 1 /\ a.brk = n + 3 /\ Waiting(a) = {n + 3}
    BY <1>1 DEF Waiting
  <2>2. SameBelow(scope', scope) /\ nextLocal <= nextLocal'
    BY <1>2, <1>4 DEF SameBelow
  <2>3. \A b \in Waiting(a) : blocks'[b].stmts = <<>>
    BY <1>7, <2>1
  <2> QED
    BY <1>1, <1>2, <1>4, <1>7, <1>8, <1>9, <1>10, <1>11, <1>12, <2>1, <2>2, <2>3 DEF Enters
<1>14. PICK ws : ws = LoopEntries(l, C)
  OBVIOUS
<1>15. Laid(W, Q, A, ws) /\ LeavesRest(W) /\ Len(A) = 2 /\ ws[2].cont = Inside(l, C)
  <2>1. LoopSet(W, Q, l, C, A, ws)
    BY <1>0, <1>1, <1>2, <1>12, <1>13, <1>14, LoopLaid
  <2> QED
    BY <2>1 DEF LoopSet
<1>16. q = Point(cur', Len(blocks'[cur'].stmts) + 1, ws[Len(A)].cont, scope')
  <2>1. Len(blocks'[cur'].stmts) + 1 = 1
    BY <1>2, <1>7, AnyEmpty
  <2> QED
    BY <1>2, <1>10, <1>15, <2>1
<1>17. Coded(p, Q, blocks')
  <2>1. p.b = cur /\ p.i = Len(blocks[cur].stmts) + 1
    BY <1>0 DEF Current, Point
  <2>2. s.t = "goto" /\ s.to = n + 1 /\ s = Goto(s.to)
    BY <1>1 DEF Goto
  <2>3. Closes(p, Q, s)
    BY <1>5, <1>10, <1>12, <2>2 DEF EndJump, Closes
  <2> QED
    BY <1>7, <2>1, <2>3, CodedBy
<1>18. qh.cont # <<>> /\ H(qh) = S /\ R(qh) = C /\ qh.b = n + 1 /\ qh.i = 1 /\ qh.sc = scope /\ qh.cont = <<S>> \o C
  <2>1. PICK x, c, u : x = S /\ c = C /\ u = <<x>> \o c
    OBVIOUS
  <2>2. u # <<>> /\ Head(u) = x /\ Tail(u) = c
    BY <1>4, <2>1, ConsFacts
  <2>3. qh.cont = u /\ qh.b = n + 1 /\ qh.i = 1 /\ qh.sc = scope
    BY <1>10, <2>1 DEF Point
  <2> QED
    BY <2>1, <2>2, <2>3 DEF H, R
<1>19. qc.cont # <<>> /\ H(qc) = l /\ R(qc) = C /\ qc.b = n + 1 /\ qc.i = 1 /\ qc.sc = scope
  <2>1. PICK c, u : c = C /\ u = <<l>> \o c
    OBVIOUS
  <2>2. u # <<>> /\ Head(u) = l /\ Tail(u) = c
    BY <1>4, <2>1, ConsFacts
  <2>3. qc.cont = u /\ qc.b = n + 1 /\ qc.i = 1 /\ qc.sc = scope
    BY <1>10, <2>1 DEF Point
  <2> QED
    BY <2>1, <2>2, <2>3 DEF H, R
<1>20. Coded(qh, Q, blocks')
  <2>1. t.t = "cond" /\ t.yes = n + 2 /\ t = CondBr(<<"free">>, t.yes, l.exit)
    BY <1>1, <1>8 DEF CondBr
  <2>2. EndWhile(qh, Q, t)
    <3>1. Is(qh, {"while"})
      BY <1>2, <1>18 DEF Is
    <3>2. l = LoopRec(H(qh), l.cont, l.exit, l.l, qh.sc, R(qh))
      BY <1>8, <1>18
    <3>3. ExitPoint(l) \in Q /\ Point(t.yes, 1, Inside(l, R(qh)), qh.sc) \in Q
      BY <1>10, <1>11, <1>12, <1>18, <2>1
    <3> QED
      BY <2>1, <3>1, <3>2, <3>3 DEF EndWhile
  <2>3. Closes(qh, Q, t)
    BY <2>2 DEF Closes
  <2> QED
    BY <1>7, <1>18, <2>3, CodedBy
<1>21. Coded(qc, Q, blocks')
  BY <1>2, <1>8, <1>10, <1>12, <1>19 DEF Coded, Here, HereAgain, Is
<1>25. a.k = "end" /\ S.body \in Seq(Stmt)
  <2>1. S \in Item
    BY <1>2, HeadFacts DEF CfgInv
  <2>2. S.body \in Seq(Stmt)
    BY <1>2, <2>1, ItemKinds
  <2> QED
    BY <1>1, <2>2
<1>22. Awaited(qx, a, ws[1], v, scope')
  <2>1. PICK b, sc, k, wl : b = S.body /\ sc = scope' /\ k = a.k /\ wl = v
    OBVIOUS
  <2>2. l.k = "again" /\ a.k \in {"end", "endlist"} /\ AnySeq(C) /\ b \in Seq(Stmt) /\ b = l.stmt.body
    BY <1>4, <1>8, <1>25, <2>1
  <2>3. AwaitsLoop(l, a, ws, wl, sc)
    BY <1>14, <2>2, LoopAwaits
  <2> QED
    BY <1>11, <2>1, <2>3 DEF AwaitsLoop
<1>23. ASSUME NEW r \in Q \ P
       PROVE  Provided(r, W, Q, A, ws, q)
  <2>1. r.b \in DOMAIN blocks' /\ r.i \in Nat \ {0}
    BY <1>7, <1>10 DEF Point
  <2>2. CASE r = q
    BY <2>1, <2>2 DEF Provided
  <2>3. CASE r = qx
    <3>1. Back(A, 1) = a
      BY <1>1, TwoItems
    <3>2. 1 \in 1 .. Len(A) /\ Awaited(r, Back(A, 1), ws[1], IF 1 = 1 THEN v ELSE ws[1 - 1], scope')
      BY <1>15, <1>22, <2>3, <3>1
    <3> QED
      BY <1>0, <2>1, <3>2 DEF Provided
  <2>4. CASE r = qh \/ r = qc
    BY <1>20, <1>21, <2>1, <2>4 DEF Provided
  <2> QED
    BY <1>10, <2>2, <2>3, <2>4
<1>24. Coded(Current(W[Len(agenda)]), Q, blocks')
  BY <1>0, <1>17
<1> QED
  BY <1>2, <1>3, <1>7, <1>12, <1>15, <1>16, <1>23, <1>24, LaidSplices

(* A point whose next item is x. *)
Heads(q, b, i, x, c, sc) ==
  /\ q.cont # <<>> /\ H(q) = x /\ R(q) = c /\ q.b = b /\ q.i = i /\ q.sc = sc

LEMMA PointHeads ==
  ASSUME NEW b, NEW i, NEW x, NEW c, AnySeq(c), NEW sc, NEW q, q = Point(b, i, <<x>> \o c, sc)
  PROVE  Heads(q, b, i, x, c, sc)
<1>1. PICK u : u = <<x>> \o c
  OBVIOUS
<1>2. u # <<>> /\ Head(u) = x /\ Tail(u) = c
  BY <1>1, ConsFacts
<1>3. q.cont = u /\ q.b = b /\ q.i = i /\ q.sc = sc
  BY <1>1 DEF Point
<1> QED
  BY <1>2, <1>3 DEF H, R, Heads

(* Statement x and an end t are put in block b, which has m statements. *)
Filled(bs, cs, E, b, m, x, t) ==
  /\ Free(cs, E) /\ Extended(bs, cs) /\ DOMAIN cs = DOMAIN bs
  /\ HasIns(cs, b, m + 1, x) /\ HasTerm(cs, b, m + 2, t)

LEMMA FillBlock ==
  ASSUME NEW bs, NEW E, Free(bs, E), NEW b, b \in DOMAIN bs, b \notin E, IsOpen(bs, b), NEW x, NEW t, t # Unreachable,
         NEW m \in Nat, m = Len(bs[b].stmts), NEW cs, cs = Terminate(Emit(bs, b, <<x>>), b, t)
  PROVE  Filled(bs, cs, E, b, m, x, t)
<1>1. PICK b0, s : s = <<x>> /\ b0 = Emit(bs, b, s)
  OBVIOUS
<1>2. AnySeq(s) /\ Len(s) = 1 /\ s[1] = x
  BY <1>1, OneItem
<1>3. Free(b0, E) /\ Emits(bs, b0, b, s) /\ Extended(bs, b0) /\ b \in DOMAIN b0 /\ IsOpen(b0, b)
  BY <1>1, <1>2, FreeEmit
<1>4. DOMAIN b0 = DOMAIN bs /\ Len(b0[b].stmts) = m + 1 /\ HasIns(b0, b, m + 1, x)
  BY <1>2, <1>3 DEF Emits
<1>5. cs = Terminate(b0, b, t)
  BY <1>1
<1>6. /\ Free(cs, E) /\ Extended(b0, cs) /\ b \in DOMAIN cs /\ DOMAIN cs = DOMAIN b0
      /\ HasTerm(cs, b, Len(b0[b].stmts) + 1, t)
  BY <1>3, <1>5, FreeSeal
<1>7. HasTerm(cs, b, m + 2, t)
  <2>1. PICK k : k = Len(b0[b].stmts)
    OBVIOUS
  <2>2. HasTerm(cs, b, k + 1, t) /\ k + 1 = m + 2
    BY <1>4, <1>6, <2>1
  <2> QED
    BY <2>2
<1>8. HasIns(cs, b, m + 1, x)
  BY <1>3, <1>4, <1>6, CodeStays
<1>9. Extended(bs, cs)
  BY <1>3, <1>6, ExtendedMore
<1> QED
  BY <1>4, <1>6, <1>7, <1>8, <1>9 DEF Filled

(* The blocks an iterator loop is made of. *)
IterCode(bs, cs, b, m, n, x0, s0, x1, s1, x2, s2) ==
  /\ Extended(bs, cs) /\ HasIns(cs, b, m + 1, x0) /\ HasTerm(cs, b, m + 2, s0) /\ n \in Nat
  /\ n + 1 \in DOMAIN cs /\ HasIns(cs, n + 1, 1, x1) /\ HasTerm(cs, n + 1, 2, s1)
  /\ n + 2 \in DOMAIN cs /\ HasIns(cs, n + 2, 1, x2) /\ HasTerm(cs, n + 2, 2, s2)
  /\ Free(cs, {n + 3, n + 4}) /\ b \in DOMAIN cs

LEMMA IterBlocks ==
  ASSUME NEW bs, Listed(bs), NEW b, b \in DOMAIN bs, IsOpen(bs, b), NEW m \in Nat, m = Len(bs[b].stmts),
         NEW n, n = Len(bs), NEW x0, NEW s0, s0 # Unreachable, NEW x1, NEW s1, s1 # Unreachable,
         NEW x2, NEW s2, s2 # Unreachable,
         NEW b1, b1 = Terminate(Emit(NewBlocks(bs, 4), b, <<x0>>), b, s0),
         NEW b2, b2 = Terminate(Emit(b1, n + 1, <<x1>>), n + 1, s1),
         NEW cs, cs = Terminate(Emit(b2, n + 2, <<x2>>), n + 2, s2)
  PROVE  IterCode(bs, cs, b, m, n, x0, s0, x1, s1, x2, s2)
<1>0. PICK b0, c, d, E1, E2, E3 : /\ b0 = NewBlocks(bs, 4) /\ c = n + 1 /\ d = n + 2 /\ E1 = n + 1 .. n + 4
                                  /\ E2 = n + 2 .. n + 4 /\ E3 = {n + 3, n + 4}
  OBVIOUS
<1>1. HasRoom(bs, b0, n, 4)
  BY <1>0, FreeNew
<1>2. Free(b0, E1) /\ Extended(bs, b0) /\ n \in Nat /\ b \in DOMAIN b0 /\ b0[b] = bs[b] /\ b \notin E1
  BY <1>0, <1>1 DEF HasRoom
<1>3. /\ c \in E1 /\ c \notin E2 /\ E2 \subseteq E1 /\ d \in E1 /\ d \in E2 /\ d \notin E3 /\ E3 \subseteq E2
  BY <1>0, <1>2
<1>4. b1 = Terminate(Emit(b0, b, <<x0>>), b, s0) /\ IsOpen(b0, b) /\ m = Len(b0[b].stmts)
  BY <1>0, <1>2 DEF IsOpen
<1>5. Filled(b0, b1, E1, b, m, x0, s0)
  BY <1>2, <1>4, FillBlock
<1>6. /\ Free(b1, E1) /\ Extended(b0, b1) /\ DOMAIN b1 = DOMAIN b0
      /\ HasIns(b1, b, m + 1, x0) /\ HasTerm(b1, b, m + 2, s0)
  BY <1>5 DEF Filled
<1>7. c \in DOMAIN b1 /\ IsOpen(b1, c) /\ Free(b1, E2) /\ 0 = Len(b1[c].stmts)
  <2>1. c \in DOMAIN b1 /\ IsOpen(b1, c) /\ b1[c].stmts = <<>>
    BY <1>3, <1>6 DEF Free
  <2> QED
    BY <1>3, <1>6, <2>1, FreeLess, AnyEmpty
<1>8. Filled(b1, b2, E2, c, 0, x1, s1)
  <2>1. b2 = Terminate(Emit(b1, c, <<x1>>), c, s1)
    BY <1>0
  <2> QED
    BY <1>3, <1>7, <2>1, FillBlock
<1>9. /\ Free(b2, E2) /\ Extended(b1, b2) /\ DOMAIN b2 = DOMAIN b1
      /\ HasIns(b2, c, 1, x1) /\ HasTerm(b2, c, 2, s1)
  BY <1>8 DEF Filled
<1>10. d \in DOMAIN b2 /\ IsOpen(b2, d) /\ Free(b2, E3) /\ 0 = Len(b2[d].stmts)
  <2>1. d \in DOMAIN b2 /\ IsOpen(b2, d) /\ b2[d].stmts = <<>>
    BY <1>3, <1>9 DEF Free
  <2> QED
    BY <1>3, <1>9, <2>1, FreeLess, AnyEmpty
<1>11. Filled(b2, cs, E3, d, 0, x2, s2)
  <2>1. cs = Terminate(Emit(b2, d, <<x2>>), d, s2)
    BY <1>0
  <2> QED
    BY <1>3, <1>10, <2>1, FillBlock
<1>12. /\ Free(cs, E3) /\ Extended(b2, cs) /\ DOMAIN cs = DOMAIN b2
       /\ HasIns(cs, d, 1, x2) /\ HasTerm(cs, d, 2, s2)
  BY <1>11 DEF Filled
<1>13. HasIns(cs, c, 1, x1) /\ HasTerm(cs, c, 2, s1)
  BY <1>7, <1>9, <1>12, CodeStays
<1>14. Extended(b1, cs)
  BY <1>9, <1>12, ExtendedMore
<1>15. HasIns(cs, b, m + 1, x0) /\ HasTerm(cs, b, m + 2, s0)
  BY <1>2, <1>6, <1>14, CodeStays
<1>16. Extended(b0, cs)
  BY <1>6, <1>14, ExtendedMore
<1>17. Extended(bs, cs)
  BY <1>2, <1>16, ExtendedMore
<1> QED
  BY <1>0, <1>2, <1>6, <1>7, <1>9, <1>10, <1>12, <1>13, <1>15, <1>17 DEF IterCode

(* A for starts at the point p: l is its record, with the locals from nextLocal. *)
LEMMA ForBegins ==
  ASSUME CfgInv, NEW P, NEW W, Lowering(P, W), agenda # <<>>, S.k \in ForKinds,
         NEW p, p = Current(W[Len(agenda)]), NEW C, C = W[Len(agenda) - 1].cont, NEW l, NEW c, NEW x,
         l = LoopRec(S, c, x, nextLocal, Bound(scope, S.name, VarOf(l)), C)
  PROVE  Begins(p, l, nextLocal)
<1>1. PICK v, k : v = W[Len(agenda) - 1] /\ k = S.k
  OBVIOUS
<1>2. S.k \notin {"pop"} \cup JumpKinds
  BY DEF ForKinds, JumpKinds
<1>3. /\ H(p) = S /\ R(p) = v.cont /\ p.sc = scope
      /\ \A i \in 1 .. Len(p.cont) : Reserves(Back(p.cont, i)) \subseteq 0 .. nextLocal - 1
  BY <1>1, <1>2, AtStatement
<1>4. nextLocal \in Nat
  BY Before
<1>5. l.cont = c /\ l.exit = x /\ l.l = nextLocal /\ l.stmt = S
  BY DEF LoopRec
<1>6. VarOf(l) \in Nat
  BY <1>4, <1>5 DEF VarOf
<1>7. \A d \in nextLocal .. VarOf(l) : d \in Nat /\ nextLocal <= d
  BY <1>4, <1>6
<1>8. \A d \in nextLocal .. VarOf(l) : Fresh(p, d)
  BY <1>3, <1>7, NewLocals
<1> QED
  BY <1>1, <1>3, <1>4, <1>5, <1>8 DEF Begins

LEMMA IterSplices ==
  ASSUME CfgInv, NEW P, NEW W, Lowering(P, W), LowerIter
  PROVE  \E Q, V : Splices(P, W, Q, V)
<1>0. PICK w, v, p, C, n, m, f, sc :
        /\ w = W[Len(agenda)] /\ v = W[Len(agenda) - 1] /\ p = Current(w) /\ C = v.cont
        /\ n = Len(blocks) /\ m = Len(blocks[cur].stmts) /\ f = nextLocal /\ sc = Bound(scope, S.name, f + 2)
  OBVIOUS
<1>1. PICK l, a, A : /\ l = LoopRec(S, n + 1, n + 4, f, sc, C)
                     /\ a = [k |-> "end", cont |-> n + 1, brk |-> n + 4] /\ A = <<Block(S.body), a>>
  OBVIOUS
<1>2. PICK x0, s0, x1, s1, x2, s2 :
        /\ x0 = Set(f, 0) /\ s0 = Goto(n + 1)
        /\ x1 = [op |-> "next", dst |-> f + 1, it |-> f] /\ s1 = CondBr(<<"null", f + 1>>, n + 4, n + 2)
        /\ x2 = [op |-> "payload", dst |-> f + 2, src |-> f + 1] /\ s2 = Goto(n + 3)
  OBVIOUS
<1>3. PICK b1, b2 : /\ b1 = Terminate(Emit(NewBlocks(blocks, 4), cur, <<x0>>), cur, s0)
                    /\ b2 = Terminate(Emit(b1, n + 1, <<x1>>), n + 1, s1)
  OBVIOUS
<1>4. /\ agenda # <<>> /\ S.k = "iter" /\ agenda' = A \o Rest
      /\ blocks' = Terminate(Emit(b2, n + 2, <<x2>>), n + 2, s2) /\ cur' = n + 3
      /\ loops' = Append(loops, [cont |-> n + 1, brk |-> n + 4])
      /\ scope' = sc /\ nextLocal' = f + 3
  BY <1>0, <1>1, <1>2, <1>3 DEF LowerIter, EntersLoop, Next1, S
<1>5. S.k \notin {"pop"} \cup JumpKinds
  BY <1>4 DEF JumpKinds
<1>6. /\ AnySeq(C) /\ Listed(blocks) /\ cur \in DOMAIN blocks /\ IsOpen(blocks, cur) /\ AnySeq(scope) /\ f \in Nat
      /\ m \in Nat
  BY <1>0, <1>4, Before
<1>7. p.cont # <<>> /\ H(p) = S /\ R(p) = C /\ p.sc = scope /\ p.b = cur /\ p.i = m + 1
  <2>1. p.cont # <<>> /\ H(p) = S /\ R(p) = v.cont /\ p.sc = scope
    BY <1>0, <1>4, <1>5, AtStatement
  <2> QED
    BY <1>0, <2>1 DEF Current, Point
<1>8. IterCode(blocks, blocks', cur, m, n, x0, s0, x1, s1, x2, s2)
  <2>1. s0 # Unreachable /\ s1 # Unreachable /\ s2 # Unreachable
    BY <1>2 DEF Goto, CondBr, Unreachable
  <2>2. PICK cs : cs = blocks'
    OBVIOUS
  <2>3. cs = Terminate(Emit(b2, n + 2, <<x2>>), n + 2, s2)
    BY <1>4, <2>2
  <2>4. IterCode(blocks, cs, cur, m, n, x0, s0, x1, s1, x2, s2)
    BY <1>0, <1>3, <1>6, <2>1, <2>3, IterBlocks
  <2> QED
    BY <2>2, <2>4
<1>9. /\ Extended(blocks, blocks') /\ HasIns(blocks', cur, m + 1, x0) /\ HasTerm(blocks', cur, m + 2, s0) /\ n \in Nat
      /\ n + 1 \in DOMAIN blocks' /\ HasIns(blocks', n + 1, 1, x1) /\ HasTerm(blocks', n + 1, 2, s1)
      /\ n + 2 \in DOMAIN blocks' /\ HasIns(blocks', n + 2, 1, x2) /\ HasTerm(blocks', n + 2, 2, s2)
      /\ Listed(blocks') /\ cur \in DOMAIN blocks'
      /\ n + 3 \in DOMAIN blocks' /\ blocks'[n + 3].stmts = <<>> /\ n + 4 \in DOMAIN blocks' /\ blocks'[n + 4].stmts = <<>>
  BY <1>8 DEF IterCode, Free
<1>10. /\ l.k = "again" /\ l.stmt = S /\ l.cont = n + 1 /\ l.exit = n + 4 /\ l.l = f /\ l.sc = sc /\ l.rest = C
       /\ l = LoopRec(S, l.cont, l.exit, l.l, l.sc, C)
  BY <1>1 DEF LoopRec
<1>11. VarOf(l) = f + 2 /\ ContItem(l) = Stage("round", l) /\ Keeps(l) = f .. f + 1
  <2>1. VarOf(l) = f + 2
    BY <1>4, <1>10 DEF VarOf
  <2> QED
    BY <1>4, <1>6, <1>10, <2>1 DEF ContItem, Keeps, ForKinds
<1>12. PICK qr, qc, qt, qs, qi, qx, q, Q :
         /\ qr = Point(cur, m + 2, <<Stage("round", l)>> \o C, sc) /\ qc = Point(n + 1, 1, <<Stage("round", l)>> \o C, sc)
         /\ qt = Point(n + 1, 2, <<Stage("test", l)>> \o C, sc) /\ qs = Point(n + 2, 1, <<Stage("some", l)>> \o C, sc)
         /\ qi = Point(n + 2, 2, Inside(l, C), sc) /\ qx = Point(n + 4, 1, C, sc)
         /\ q = Point(n + 3, 1, Inside(l, C), sc) /\ Q = P \cup {qr, qc, qt, qs, qi, qx, q}
  OBVIOUS
<1>13. ContPoint(l) = qc /\ ExitPoint(l) = qx
  BY <1>10, <1>11, <1>12 DEF ContPoint, ExitPoint
<1>14. P \subseteq Q /\ qr \in Q /\ qc \in Q /\ qt \in Q /\ qs \in Q /\ qi \in Q /\ qx \in Q /\ q \in Q
  BY <1>12
<1>15. Enters(Q, l, a, C)
  <2>1. a.k = "end" /\ a.cont = n + 1 /\ a.brk = n + 4 /\ Waiting(a) = {n + 4}
    BY <1>1 DEF Waiting
  <2>2. /\ AnySeq(sc) /\ Len(sc) = Len(scope) /\ SameBelow(sc, scope)
    <3>1. PICK y : y = S.name
      OBVIOUS
    <3>2. sc = Bound(scope, y, f + 2)
      BY <1>0, <3>1
    <3> QED
      BY <3>2, BoundScopes
  <2>3. nextLocal <= nextLocal' /\ nextLocal' \in Nat /\ Keeps(l) \subseteq 0 .. nextLocal' - 1
    <3>1. f <= f + 3 /\ f + 3 \in Nat /\ f .. f + 1 \subseteq 0 .. (f + 3) - 1
      BY <1>6
    <3> QED
      BY <1>0, <1>4, <1>11, <3>1
  <2>4. \A b \in Waiting(a) : blocks'[b].stmts = <<>>
    BY <1>9, <2>1
  <2> QED
    BY <1>1, <1>4, <1>9, <1>10, <1>13, <1>14, <2>1, <2>2, <2>3, <2>4 DEF Enters
<1>16. PICK ws : ws = LoopEntries(l, C)
  OBVIOUS
<1>17. Laid(W, Q, A, ws) /\ LeavesRest(W) /\ Len(A) = 2 /\ ws[2].cont = Inside(l, C)
  <2>1. LoopSet(W, Q, l, C, A, ws)
    BY <1>0, <1>1, <1>4, <1>14, <1>15, <1>16, LoopLaid
  <2> QED
    BY <2>1 DEF LoopSet
<1>18. q = Point(cur', Len(blocks'[cur'].stmts) + 1, ws[Len(A)].cont, scope')
  <2>1. Len(blocks'[cur'].stmts) + 1 = 1
    BY <1>4, <1>9, AnyEmpty
  <2> QED
    BY <1>4, <1>12, <1>17, <2>1
<1>19. Coded(p, Q, blocks')
  <2>1. Begins(p, l, f)
    <3>1. l = LoopRec(S, n + 1, n + 4, nextLocal, Bound(scope, S.name, VarOf(l)), C)
      BY <1>0, <1>1, <1>11
    <3>2. S.k \in ForKinds
      BY <1>4 DEF ForKinds
    <3> QED
      BY <1>0, <1>4, <3>1, <3>2, ForBegins
  <2>2. x0.dst = f /\ x0 = Set(x0.dst, 0)
    BY <1>2 DEF Set
  <2>3. On(p, <<Stage("round", l)>> \o R(p), l.sc) = qr
    BY <1>6, <1>7, <1>10, <1>12 DEF On
  <2>4. StepIter(p, Q, x0)
    BY <1>4, <1>7, <1>14, <2>1, <2>2, <2>3 DEF StepIter, Is
  <2>5. Steps(p, Q, x0)
    BY <2>4 DEF Steps
  <2> QED
    BY <1>7, <1>9, <2>5, CodedBy
<1>20. Coded(qr, Q, blocks')
  <2>1. qr.b = cur /\ qr.i = m + 2 /\ qr.cont = <<Stage("round", l)>> \o C /\ qr.sc = sc
    BY <1>12 DEF Point
  <2>2. s0.t = "goto" /\ s0 = Goto(s0.to) /\ s0.to = n + 1
    BY <1>2 DEF Goto
  <2>3. Closes(qr, Q, s0)
    BY <1>12, <1>14, <2>1, <2>2 DEF EndJump, Closes
  <2> QED
    BY <1>9, <2>1, <2>3, CodedBy
<1>21. PICK gr, gt, gs : gr = Stage("round", l) /\ gt = Stage("test", l) /\ gs = Stage("some", l)
  OBVIOUS
<1>22. /\ gr.k = "round" /\ gr.loop = l /\ gt.k = "test" /\ gt.loop = l /\ gs.k = "some" /\ gs.loop = l
  BY <1>21 DEF Stage
<1>23. Heads(qc, n + 1, 1, gr, C, sc) /\ Heads(qt, n + 1, 2, gt, C, sc) /\ Heads(qs, n + 2, 1, gs, C, sc)
  BY <1>6, <1>12, <1>21, PointHeads
<1>24. Coded(qc, Q, blocks')
  <2>1. /\ qc.cont # <<>> /\ H(qc) = gr /\ R(qc) = C /\ qc.b = n + 1 /\ qc.i = 1 /\ qc.sc = sc
    BY <1>23 DEF Heads
  <2>2. On(qc, <<Stage("test", l)>> \o R(qc), qc.sc) = qt
    BY <1>12, <2>1 DEF On
  <2>3. StepNext(qc, Q, x1)
    BY <1>2, <1>4, <1>10, <1>14, <1>22, <2>1, <2>2 DEF StepNext, Is
  <2>4. Steps(qc, Q, x1)
    BY <2>3 DEF Steps
  <2> QED
    BY <1>9, <2>1, <2>4, CodedBy
<1>25. Coded(qt, Q, blocks')
  <2>1. /\ qt.cont # <<>> /\ H(qt) = gt /\ R(qt) = C /\ qt.b = n + 1 /\ qt.i = 2 /\ qt.sc = sc
    BY <1>23 DEF Heads
  <2>2. s1.t = "cond" /\ s1.no = n + 2 /\ s1 = CondBr(<<"null", l.l + 1>>, l.exit, s1.no)
    BY <1>2, <1>10 DEF CondBr
  <2>3. EndTest(qt, Q, s1)
    BY <1>10, <1>12, <1>13, <1>14, <1>22, <2>1, <2>2 DEF EndTest, Is
  <2>4. Closes(qt, Q, s1)
    BY <2>3 DEF Closes
  <2> QED
    BY <1>9, <2>1, <2>4, CodedBy
<1>26. Coded(qs, Q, blocks')
  <2>1. /\ qs.cont # <<>> /\ H(qs) = gs /\ R(qs) = C /\ qs.b = n + 2 /\ qs.i = 1 /\ qs.sc = sc
    BY <1>23 DEF Heads
  <2>2. On(qs, Inside(l, R(qs)), qs.sc) = qi
    BY <1>12, <2>1 DEF On
  <2>3. VarOf(l) - 1 = f + 1
    BY <1>6, <1>11
  <2>4. StepSome(qs, Q, x2)
    BY <1>2, <1>11, <1>14, <1>22, <2>1, <2>2, <2>3 DEF StepSome, Is
  <2>5. Steps(qs, Q, x2)
    BY <2>4 DEF Steps
  <2> QED
    BY <1>9, <2>1, <2>5, CodedBy
<1>27. Coded(qi, Q, blocks')
  <2>1. qi.b = n + 2 /\ qi.i = 2 /\ qi.cont = Inside(l, C) /\ qi.sc = sc
    BY <1>12 DEF Point
  <2>2. s2.t = "goto" /\ s2 = Goto(s2.to) /\ s2.to = n + 3
    BY <1>2 DEF Goto
  <2>3. Closes(qi, Q, s2)
    BY <1>12, <1>14, <2>1, <2>2 DEF EndJump, Closes
  <2> QED
    BY <1>9, <2>1, <2>3, CodedBy
<1>28. S.body \in Seq(Stmt)
  <2>1. S \in Item
    BY <1>4, HeadFacts DEF CfgInv
  <2> QED
    BY <1>4, <2>1, ItemKinds
<1>29. Awaited(qx, a, ws[1], v, scope')
  <2>1. PICK b, t, wl : b = S.body /\ t = scope' /\ wl = v
    OBVIOUS
  <2>2. l.k = "again" /\ a.k \in {"end", "endlist"} /\ b \in Seq(Stmt) /\ b = l.stmt.body
    BY <1>1, <1>10, <1>28, <2>1
  <2>3. AwaitsLoop(l, a, ws, wl, t)
    BY <1>6, <1>16, <2>2, LoopAwaits
  <2> QED
    BY <1>13, <2>1, <2>3 DEF AwaitsLoop
<1>30. ASSUME NEW r \in Q \ P
       PROVE  Provided(r, W, Q, A, ws, q)
  <2>1. r.b \in DOMAIN blocks' /\ r.i \in Nat \ {0}
    BY <1>6, <1>9, <1>12 DEF Point
  <2>2. CASE r = q
    BY <2>1, <2>2 DEF Provided
  <2>3. CASE r = qx
    <3>1. Back(A, 1) = a
      BY <1>1, TwoItems
    <3>2. 1 \in 1 .. Len(A) /\ Awaited(r, Back(A, 1), ws[1], IF 1 = 1 THEN v ELSE ws[1 - 1], scope')
      BY <1>17, <1>29, <2>3, <3>1
    <3> QED
      BY <1>0, <2>1, <3>2 DEF Provided
  <2>4. CASE r \in {qr, qc, qt, qs, qi}
    BY <1>20, <1>24, <1>25, <1>26, <1>27, <2>1, <2>4 DEF Provided
  <2> QED
    BY <1>12, <2>2, <2>3, <2>4
<1>31. Coded(Current(W[Len(agenda)]), Q, blocks')
  BY <1>0, <1>19
<1> QED
  BY <1>4, <1>5, <1>9, <1>14, <1>17, <1>18, <1>30, <1>31, LaidSplices

LEMMA Emitted2 ==
  ASSUME NEW bs, NEW E, Free(bs, E), NEW b, b \in DOMAIN bs, b \notin E, IsOpen(bs, b), NEW x, NEW y,
         NEW m \in Nat, m = Len(bs[b].stmts), NEW cs, cs = Emit(bs, b, <<x, y>>)
  PROVE  /\ Free(cs, E) /\ Extended(bs, cs) /\ b \in DOMAIN cs /\ IsOpen(cs, b) /\ DOMAIN cs = DOMAIN bs
         /\ HasIns(cs, b, m + 1, x) /\ HasIns(cs, b, m + 2, y) /\ Len(cs[b].stmts) = m + 2
<1>1. PICK s : s = <<x, y>>
  OBVIOUS
<1>2. AnySeq(s) /\ Len(s) = 2 /\ s[1] = x /\ s[2] = y
  <2>1. s \in Seq({x, y}) /\ Len(s) = 2 /\ s[1] = x /\ s[2] = y
    BY <1>1
  <2> QED
    BY <2>1 DEF AnySeq
<1>3. Free(cs, E) /\ Emits(bs, cs, b, s) /\ Extended(bs, cs) /\ b \in DOMAIN cs /\ IsOpen(cs, b)
  BY <1>1, <1>2, FreeEmit
<1>4. 1 \in 1 .. 2 /\ 2 \in 1 .. 2
  OBVIOUS
<1>5. /\ DOMAIN cs = DOMAIN bs /\ Len(cs[b].stmts) = m + 2
      /\ HasIns(cs, b, m + 1, s[1]) /\ HasIns(cs, b, m + 2, s[2])
  BY <1>2, <1>3, <1>4 DEF Emits
<1> QED
  BY <1>2, <1>3, <1>5

(* The blocks a list loop is made of. *)
ListCode(bs, cs, b, m, n, x0, y0, s0, s1, x1, x2) ==
  /\ Extended(bs, cs) /\ HasIns(cs, b, m + 1, x0) /\ HasIns(cs, b, m + 2, y0) /\ HasTerm(cs, b, m + 3, s0) /\ n \in Nat
  /\ n + 1 \in DOMAIN cs /\ HasTerm(cs, n + 1, 1, s1)
  /\ n + 2 \in DOMAIN cs /\ HasIns(cs, n + 2, 1, x1) /\ HasIns(cs, n + 2, 2, x2) /\ Len(cs[n + 2].stmts) = 2
  /\ Free(cs, {n + 3, n + 4}) /\ b \in DOMAIN cs

LEMMA ListLoopBlocks ==
  ASSUME NEW bs, Listed(bs), NEW b, b \in DOMAIN bs, IsOpen(bs, b), NEW m \in Nat, m = Len(bs[b].stmts),
         NEW n, n = Len(bs), NEW x0, NEW y0, NEW s0, s0 # Unreachable, NEW s1, s1 # Unreachable, NEW x1, NEW x2,
         NEW b1, b1 = Emit(NewBlocks(bs, 4), b, <<x0, y0>>),
         NEW b2, b2 = Terminate(b1, b, s0), NEW b3, b3 = Terminate(b2, n + 1, s1),
         NEW cs, cs = Emit(b3, n + 2, <<x1, x2>>)
  PROVE  ListCode(bs, cs, b, m, n, x0, y0, s0, s1, x1, x2)
<1>0. PICK b0, c, d, E1, E2, E3 : /\ b0 = NewBlocks(bs, 4) /\ c = n + 1 /\ d = n + 2 /\ E1 = n + 1 .. n + 4
                                  /\ E2 = n + 2 .. n + 4 /\ E3 = {n + 3, n + 4}
  OBVIOUS
<1>1. HasRoom(bs, b0, n, 4)
  BY <1>0, FreeNew
<1>2. Free(b0, E1) /\ Extended(bs, b0) /\ n \in Nat /\ b \in DOMAIN b0 /\ b0[b] = bs[b] /\ b \notin E1
  BY <1>0, <1>1 DEF HasRoom
<1>3. /\ c \in E1 /\ c \notin E2 /\ E2 \subseteq E1 /\ d \in E1 /\ d \in E2 /\ d \notin E3 /\ E3 \subseteq E2
  BY <1>0, <1>2
<1>4. b1 = Emit(b0, b, <<x0, y0>>) /\ IsOpen(b0, b) /\ m = Len(b0[b].stmts)
  BY <1>0, <1>2 DEF IsOpen
<1>5. /\ Free(b1, E1) /\ Extended(b0, b1) /\ b \in DOMAIN b1 /\ IsOpen(b1, b) /\ DOMAIN b1 = DOMAIN b0
      /\ HasIns(b1, b, m + 1, x0) /\ HasIns(b1, b, m + 2, y0) /\ Len(b1[b].stmts) = m + 2
  BY <1>2, <1>4, Emitted2
<1>6. /\ Free(b2, E1) /\ Extended(b1, b2) /\ b \in DOMAIN b2 /\ DOMAIN b2 = DOMAIN b1
      /\ HasTerm(b2, b, Len(b1[b].stmts) + 1, s0)
  BY <1>2, <1>5, FreeSeal
<1>7. HasTerm(b2, b, m + 3, s0)
  <2>1. PICK k : k = Len(b1[b].stmts)
    OBVIOUS
  <2>2. HasTerm(b2, b, k + 1, s0) /\ k + 1 = m + 3
    BY <1>5, <1>6, <2>1
  <2> QED
    BY <2>2
<1>8. c \in DOMAIN b2 /\ IsOpen(b2, c) /\ Free(b2, E2) /\ b2[c].stmts = <<>>
  <2>1. c \in DOMAIN b2 /\ IsOpen(b2, c) /\ b2[c].stmts = <<>>
    BY <1>3, <1>6 DEF Free
  <2> QED
    BY <1>3, <1>6, <2>1, FreeLess
<1>9. /\ Free(b3, E2) /\ Extended(b2, b3) /\ c \in DOMAIN b3 /\ DOMAIN b3 = DOMAIN b2
      /\ HasTerm(b3, c, Len(b2[c].stmts) + 1, s1)
  <2>1. b3 = Terminate(b2, c, s1)
    BY <1>0
  <2> QED
    BY <1>3, <1>8, <2>1, FreeSeal
<1>10. HasTerm(b3, c, 1, s1)
  <2>1. PICK k : k = Len(b2[c].stmts)
    OBVIOUS
  <2>2. HasTerm(b3, c, k + 1, s1) /\ k + 1 = 1
    BY <1>8, <1>9, <2>1, AnyEmpty
  <2> QED
    BY <2>2
<1>11. d \in DOMAIN b3 /\ IsOpen(b3, d) /\ Free(b3, E3) /\ 0 = Len(b3[d].stmts)
  <2>1. d \in DOMAIN b3 /\ IsOpen(b3, d) /\ b3[d].stmts = <<>>
    BY <1>3, <1>9 DEF Free
  <2> QED
    BY <1>3, <1>9, <2>1, FreeLess, AnyEmpty
<1>12. /\ Free(cs, E3) /\ Extended(b3, cs) /\ d \in DOMAIN cs
       /\ HasIns(cs, d, 1, x1) /\ HasIns(cs, d, 2, x2) /\ Len(cs[d].stmts) = 2
  <2>1. PICK z, y1, y2 : z = 0 /\ y1 = x1 /\ y2 = x2
    OBVIOUS
  <2>2. cs = Emit(b3, d, <<y1, y2>>) /\ z \in Nat /\ z = Len(b3[d].stmts)
    BY <1>0, <1>11, <2>1
  <2>3. /\ Free(cs, E3) /\ Extended(b3, cs) /\ d \in DOMAIN cs
        /\ HasIns(cs, d, z + 1, y1) /\ HasIns(cs, d, z + 2, y2) /\ Len(cs[d].stmts) = z + 2
    BY <1>3, <1>11, <2>2, Emitted2
  <2>4. z + 1 = 1 /\ z + 2 = 2
    BY <2>1
  <2> QED
    BY <2>1, <2>3, <2>4
<1>13. HasTerm(cs, c, 1, s1) /\ c \in DOMAIN cs
  <2>1. HasTerm(cs, c, 1, s1)
    BY <1>9, <1>10, <1>12, CodeStays
  <2>2. c \in DOMAIN cs
    BY <1>9, <1>12 DEF Extended
  <2> QED
    BY <2>1, <2>2
<1>14. Extended(b2, cs)
  BY <1>9, <1>12, ExtendedMore
<1>15. HasTerm(cs, b, m + 3, s0) /\ b \in DOMAIN cs
  <2>1. HasTerm(cs, b, m + 3, s0)
    BY <1>6, <1>7, <1>14, CodeStays
  <2>2. b \in DOMAIN cs
    BY <1>6, <1>14 DEF Extended
  <2> QED
    BY <2>1, <2>2
<1>16. Extended(b1, cs)
  BY <1>6, <1>14, ExtendedMore
<1>17. HasIns(cs, b, m + 1, x0) /\ HasIns(cs, b, m + 2, y0)
  BY <1>5, <1>16, CodeStays
<1>18. Extended(b0, cs)
  BY <1>5, <1>16, ExtendedMore
<1>19. Extended(bs, cs)
  BY <1>2, <1>18, ExtendedMore
<1> QED
  BY <1>0, <1>2, <1>12, <1>13, <1>15, <1>17, <1>19 DEF ListCode

LEMMA ListSplices ==
  ASSUME CfgInv, NEW P, NEW W, Lowering(P, W), LowerList
  PROVE  \E Q, V : Splices(P, W, Q, V)
<1>0. PICK w, v, p, C, n, m, f, sc :
        /\ w = W[Len(agenda)] /\ v = W[Len(agenda) - 1] /\ p = Current(w) /\ C = v.cont
        /\ n = Len(blocks) /\ m = Len(blocks[cur].stmts) /\ f = nextLocal /\ sc = Bound(scope, S.name, f + 3)
  OBVIOUS
<1>1. PICK l, a, A : /\ l = LoopRec(S, n + 3, n + 4, f, sc, C)
                     /\ a = EndsList(n, f) /\ A = <<Block(S.body), a>>
  OBVIOUS
<1>2. PICK x0, y0, s0, s1, x1, x2 :
        /\ x0 = [op |-> "size", dst |-> f] /\ y0 = Set(f + 1, 0) /\ s0 = Goto(n + 1)
        /\ s1 = CondBr(<<"ge", f + 1, f>>, n + 4, n + 2)
        /\ x1 = [op |-> "get", dst |-> f + 2, at |-> f + 1] /\ x2 = [op |-> "payload", dst |-> f + 3, src |-> f + 2]
  OBVIOUS
<1>3. PICK b1, b2, b3 : /\ b1 = Emit(NewBlocks(blocks, 4), cur, <<x0, y0>>) /\ b2 = Terminate(b1, cur, s0)
                        /\ b3 = Terminate(b2, n + 1, s1)
  OBVIOUS
<1>4. /\ agenda # <<>> /\ S.k = "list" /\ agenda' = A \o Rest
      /\ blocks' = Emit(b3, n + 2, <<x1, x2>>) /\ cur' = n + 2
      /\ loops' = Append(loops, [cont |-> n + 3, brk |-> n + 4])
      /\ scope' = sc /\ nextLocal' = f + 4
  BY <1>0, <1>1, <1>2, <1>3 DEF LowerList, ListBlocks, EntersLoop, Next1, S
<1>5. S.k \notin {"pop"} \cup JumpKinds
  BY <1>4 DEF JumpKinds
<1>6. /\ AnySeq(C) /\ Listed(blocks) /\ cur \in DOMAIN blocks /\ IsOpen(blocks, cur) /\ AnySeq(scope) /\ f \in Nat
      /\ m \in Nat
  BY <1>0, <1>4, Before
<1>7. p.cont # <<>> /\ H(p) = S /\ R(p) = C /\ p.sc = scope /\ p.b = cur /\ p.i = m + 1
  <2>1. p.cont # <<>> /\ H(p) = S /\ R(p) = v.cont /\ p.sc = scope
    BY <1>0, <1>4, <1>5, AtStatement
  <2> QED
    BY <1>0, <2>1 DEF Current, Point
<1>8. ListCode(blocks, blocks', cur, m, n, x0, y0, s0, s1, x1, x2)
  <2>1. s0 # Unreachable /\ s1 # Unreachable
    BY <1>2 DEF Goto, CondBr, Unreachable
  <2>2. PICK cs : cs = blocks'
    OBVIOUS
  <2>3. cs = Emit(b3, n + 2, <<x1, x2>>)
    BY <1>4, <2>2
  <2>4. ListCode(blocks, cs, cur, m, n, x0, y0, s0, s1, x1, x2)
    BY <1>0, <1>3, <1>6, <2>1, <2>3, ListLoopBlocks
  <2> QED
    BY <2>2, <2>4
<1>9. /\ Extended(blocks, blocks') /\ HasIns(blocks', cur, m + 1, x0) /\ HasIns(blocks', cur, m + 2, y0)
      /\ HasTerm(blocks', cur, m + 3, s0) /\ n \in Nat
      /\ n + 1 \in DOMAIN blocks' /\ HasTerm(blocks', n + 1, 1, s1)
      /\ n + 2 \in DOMAIN blocks' /\ HasIns(blocks', n + 2, 1, x1) /\ HasIns(blocks', n + 2, 2, x2)
      /\ Len(blocks'[n + 2].stmts) = 2 /\ Listed(blocks') /\ cur \in DOMAIN blocks'
      /\ n + 3 \in DOMAIN blocks' /\ blocks'[n + 3].stmts = <<>> /\ n + 4 \in DOMAIN blocks' /\ blocks'[n + 4].stmts = <<>>
  BY <1>8 DEF ListCode, Free
<1>10. /\ l.k = "again" /\ l.stmt = S /\ l.cont = n + 3 /\ l.exit = n + 4 /\ l.l = f /\ l.sc = sc /\ l.rest = C
       /\ l = LoopRec(S, l.cont, l.exit, l.l, l.sc, C)
  BY <1>1 DEF LoopRec
<1>11. VarOf(l) = f + 3 /\ ContItem(l) = l /\ Keeps(l) = f .. f + 2
  <2>1. VarOf(l) = f + 3
    BY <1>4, <1>10 DEF VarOf
  <2> QED
    BY <1>4, <1>6, <1>10, <2>1 DEF ContItem, Keeps, ForKinds
<1>12. PICK qn, qr, qh, qg, qs, qc, qx, q, Q :
         /\ qn = Point(cur, m + 2, <<Stage("init", l)>> \o C, sc) /\ qr = Point(cur, m + 3, <<Stage("round", l)>> \o C, sc)
         /\ qh = Point(n + 1, 1, <<Stage("round", l)>> \o C, sc) /\ qg = Point(n + 2, 1, <<Stage("get", l)>> \o C, sc)
         /\ qs = Point(n + 2, 2, <<Stage("some", l)>> \o C, sc) /\ qc = Point(n + 3, 1, <<l>> \o C, sc)
         /\ qx = Point(n + 4, 1, C, sc)
         /\ q = Point(n + 2, 3, Inside(l, C), sc) /\ Q = P \cup {qn, qr, qh, qg, qs, qc, qx, q}
  OBVIOUS
<1>13. ContPoint(l) = qc /\ ExitPoint(l) = qx
  BY <1>10, <1>11, <1>12 DEF ContPoint, ExitPoint
<1>14. P \subseteq Q /\ qn \in Q /\ qr \in Q /\ qh \in Q /\ qg \in Q /\ qs \in Q /\ qc \in Q /\ qx \in Q /\ q \in Q
  BY <1>12
<1>15. Enters(Q, l, a, C)
  <2>1. a.k = "endlist" /\ a.cont = n + 3 /\ a.brk = n + 4 /\ a.head = n + 1 /\ a.i = f + 1 /\ Waiting(a) = {n + 3, n + 4}
    BY <1>1 DEF EndsList, Waiting
  <2>2. /\ AnySeq(sc) /\ Len(sc) = Len(scope) /\ SameBelow(sc, scope)
    <3>1. PICK y : y = S.name
      OBVIOUS
    <3>2. sc = Bound(scope, y, f + 3)
      BY <1>0, <3>1
    <3> QED
      BY <3>2, BoundScopes
  <2>3. nextLocal <= nextLocal' /\ nextLocal' \in Nat /\ Keeps(l) \subseteq 0 .. nextLocal' - 1
    <3>1. f <= f + 4 /\ f + 4 \in Nat /\ f .. f + 2 \subseteq 0 .. (f + 4) - 1
      BY <1>6
    <3> QED
      BY <1>0, <1>4, <1>11, <3>1
  <2>4. \A b \in Waiting(a) : blocks'[b].stmts = <<>>
    BY <1>9, <2>1
  <2> QED
    BY <1>1, <1>4, <1>9, <1>10, <1>12, <1>13, <1>14, <2>1, <2>2, <2>3, <2>4 DEF Enters
<1>16. PICK ws : ws = LoopEntries(l, C)
  OBVIOUS
<1>17. Laid(W, Q, A, ws) /\ LeavesRest(W) /\ Len(A) = 2 /\ ws[2].cont = Inside(l, C)
  <2>1. LoopSet(W, Q, l, C, A, ws)
    BY <1>0, <1>1, <1>4, <1>14, <1>15, <1>16, LoopLaid
  <2> QED
    BY <2>1 DEF LoopSet
<1>18. q = Point(cur', Len(blocks'[cur'].stmts) + 1, ws[Len(A)].cont, scope')
  <2>1. Len(blocks'[cur'].stmts) + 1 = 3
    <3>1. Len(blocks'[cur'].stmts) = 2
      BY <1>4, <1>9
    <3>2. \A k : k = 2 => k + 1 = 3
      OBVIOUS
    <3> QED
      BY <3>1, <3>2
  <2> QED
    BY <1>4, <1>12, <1>17, <2>1
<1>19. Coded(p, Q, blocks')
  <2>1. Begins(p, l, f)
    <3>1. l = LoopRec(S, n + 3, n + 4, nextLocal, Bound(scope, S.name, VarOf(l)), C)
      BY <1>0, <1>1, <1>11
    <3>2. S.k \in ForKinds
      BY <1>4 DEF ForKinds
    <3> QED
      BY <1>0, <1>4, <3>1, <3>2, ForBegins
  <2>2. x0.dst = f /\ x0 = [op |-> "size", dst |-> x0.dst]
    BY <1>2
  <2>3. On(p, <<Stage("init", l)>> \o R(p), l.sc) = qn
    BY <1>6, <1>7, <1>10, <1>12 DEF On
  <2>4. StepList(p, Q, x0)
    BY <1>4, <1>7, <1>14, <2>1, <2>2, <2>3 DEF StepList, Is
  <2>5. Steps(p, Q, x0)
    BY <2>4 DEF Steps
  <2> QED
    BY <1>7, <1>9, <2>5, CodedBy
<1>21. PICK gn, gr, gg, gs :
         gn = Stage("init", l) /\ gr = Stage("round", l) /\ gg = Stage("get", l) /\ gs = Stage("some", l)
  OBVIOUS
<1>22. /\ gn.k = "init" /\ gn.loop = l /\ gr.k = "round" /\ gr.loop = l /\ gg.k = "get" /\ gg.loop = l
       /\ gs.k = "some" /\ gs.loop = l
  BY <1>21 DEF Stage
<1>23. /\ Heads(qn, cur, m + 2, gn, C, sc) /\ Heads(qh, n + 1, 1, gr, C, sc)
       /\ Heads(qg, n + 2, 1, gg, C, sc) /\ Heads(qs, n + 2, 2, gs, C, sc)
  <2>1. PICK b : b = cur
    OBVIOUS
  <2>2. Heads(qn, b, m + 2, gn, C, sc)
    BY <1>6, <1>12, <1>21, <2>1, PointHeads
  <2>3. Heads(qh, n + 1, 1, gr, C, sc) /\ Heads(qg, n + 2, 1, gg, C, sc) /\ Heads(qs, n + 2, 2, gs, C, sc)
    BY <1>6, <1>12, <1>21, PointHeads
  <2> QED
    BY <2>1, <2>2, <2>3
<1>24. Coded(qn, Q, blocks')
  <2>1. /\ qn.cont # <<>> /\ H(qn) = gn /\ R(qn) = C /\ qn.b = cur /\ qn.i = m + 2 /\ qn.sc = sc
    BY <1>23 DEF Heads
  <2>2. On(qn, <<Stage("round", l)>> \o R(qn), qn.sc) = qr
    BY <1>6, <1>12, <2>1 DEF On
  <2>3. StepInit(qn, Q, y0)
    BY <1>2, <1>10, <1>14, <1>22, <2>1, <2>2 DEF StepInit, Is
  <2>4. Steps(qn, Q, y0)
    BY <2>3 DEF Steps
  <2> QED
    BY <1>9, <2>1, <2>4, CodedBy
<1>20. Coded(qr, Q, blocks')
  <2>1. qr.b = cur /\ qr.i = m + 3 /\ qr.cont = <<Stage("round", l)>> \o C /\ qr.sc = sc
    BY <1>12 DEF Point
  <2>2. s0.t = "goto" /\ s0 = Goto(s0.to) /\ s0.to = n + 1
    BY <1>2 DEF Goto
  <2>3. Closes(qr, Q, s0)
    BY <1>12, <1>14, <2>1, <2>2 DEF EndJump, Closes
  <2> QED
    BY <1>9, <2>1, <2>3, CodedBy
<1>25. Coded(qh, Q, blocks')
  <2>1. /\ qh.cont # <<>> /\ H(qh) = gr /\ R(qh) = C /\ qh.b = n + 1 /\ qh.i = 1 /\ qh.sc = sc
    BY <1>23 DEF Heads
  <2>2. s1.t = "cond" /\ s1.no = n + 2 /\ s1 = CondBr(<<"ge", l.l + 1, l.l>>, l.exit, s1.no)
    BY <1>2, <1>10 DEF CondBr
  <2>3. EndRound(qh, Q, s1)
    <3>1. Is(qh, {"round"}) /\ H(qh).loop = l /\ l.stmt.k = "list"
      BY <1>4, <1>10, <1>22, <2>1 DEF Is
    <3>2. ExitPoint(l) \in Q /\ Point(s1.no, 1, <<Stage("get", l)>> \o R(qh), qh.sc) \in Q
      BY <1>12, <1>13, <1>14, <2>1, <2>2
    <3> QED
      BY <2>2, <3>1, <3>2 DEF EndRound
  <2>4. Closes(qh, Q, s1)
    BY <2>3 DEF Closes
  <2> QED
    BY <1>9, <2>1, <2>4, CodedBy
<1>26. Coded(qg, Q, blocks')
  <2>1. /\ qg.cont # <<>> /\ H(qg) = gg /\ R(qg) = C /\ qg.b = n + 2 /\ qg.i = 1 /\ qg.sc = sc
    BY <1>23 DEF Heads
  <2>2. On(qg, <<Stage("some", l)>> \o R(qg), qg.sc) = qs
    BY <1>12, <2>1 DEF On
  <2>3. StepGet(qg, Q, x1)
    BY <1>2, <1>10, <1>14, <1>22, <2>1, <2>2 DEF StepGet, Is
  <2>4. Steps(qg, Q, x1)
    BY <2>3 DEF Steps
  <2> QED
    BY <1>9, <2>1, <2>4, CodedBy
<1>27. Coded(qs, Q, blocks')
  <2>1. /\ qs.cont # <<>> /\ H(qs) = gs /\ R(qs) = C /\ qs.b = n + 2 /\ qs.i = 2 /\ qs.sc = sc
    BY <1>23 DEF Heads
  <2>2. On(qs, Inside(l, R(qs)), qs.sc) = q
    BY <1>12, <2>1 DEF On
  <2>3. VarOf(l) - 1 = f + 2
    BY <1>6, <1>11
  <2>4. StepSome(qs, Q, x2)
    BY <1>2, <1>11, <1>14, <1>22, <2>1, <2>2, <2>3 DEF StepSome, Is
  <2>5. Steps(qs, Q, x2)
    BY <2>4 DEF Steps
  <2> QED
    BY <1>9, <2>1, <2>5, CodedBy
<1>28. S.body \in Seq(Stmt)
  <2>1. S \in Item
    BY <1>4, HeadFacts DEF CfgInv
  <2> QED
    BY <1>4, <2>1, ItemKinds
<1>29. Awaited(qx, a, ws[1], v, scope') /\ Awaited(qc, a, ws[1], v, scope')
  <2>1. PICK b, t, wl : b = S.body /\ t = scope' /\ wl = v
    OBVIOUS
  <2>4. a.k = "endlist"
    BY <1>1 DEF EndsList
  <2>2. l.k = "again" /\ a.k \in {"end", "endlist"} /\ b \in Seq(Stmt) /\ b = l.stmt.body
    BY <1>10, <1>28, <2>1, <2>4
  <2>3. AwaitsLoop(l, a, ws, wl, t)
    BY <1>6, <1>16, <2>2, LoopAwaits
  <2> QED
    BY <1>13, <2>1, <2>3, <2>4 DEF AwaitsLoop
<1>30. ASSUME NEW r \in Q \ P
       PROVE  Provided(r, W, Q, A, ws, q)
  <2>1. r.b \in DOMAIN blocks' /\ r.i \in Nat \ {0}
    BY <1>6, <1>9, <1>12 DEF Point
  <2>2. CASE r = q
    BY <2>1, <2>2 DEF Provided
  <2>3. CASE r = qx \/ r = qc
    <3>1. Back(A, 1) = a
      BY <1>1, TwoItems
    <3>2. 1 \in 1 .. Len(A) /\ Awaited(r, Back(A, 1), ws[1], IF 1 = 1 THEN v ELSE ws[1 - 1], scope')
      BY <1>17, <1>29, <2>3, <3>1
    <3> QED
      BY <1>0, <2>1, <3>2 DEF Provided
  <2>4. CASE r \in {qn, qr, qh, qg, qs}
    BY <1>20, <1>24, <1>25, <1>26, <1>27, <2>1, <2>4 DEF Provided
  <2> QED
    BY <1>12, <2>2, <2>3, <2>4
<1>31. Coded(Current(W[Len(agenda)]), Q, blocks')
  BY <1>0, <1>19
<1> QED
  BY <1>4, <1>5, <1>9, <1>14, <1>17, <1>18, <1>30, <1>31, LaidSplices

-----------------------------------------------------------------------------
(***************************************************************************)
(* Every step of the lowering keeps the points it has, and has code for them.   *)
(***************************************************************************)
LEMMA StmtLowers ==
  ASSUME CfgInv, LowerStmt, NEW P, NEW W, Lowering(P, W)
  PROVE  \E Q, V : P \subseteq Q /\ Lowering(Q, V)'
<1>1. \E Q, V : Splices(P, W, Q, V)
  <2>1. CASE LowerAct \/ LowerUse \/ LowerAssign
    BY <2>1, ActSplices
  <2>2. CASE LowerVar
    BY <2>2, VarSplices
  <2>3. CASE LowerReturn \/ LowerBreak \/ LowerContinue
    BY <2>3, JumpSplices
  <2>4. CASE LowerBlock
    BY <2>4, BlockSplices
  <2>5. CASE EndBlock
    BY <2>5, PopSplices
  <2>6. CASE LowerIf
    BY <2>6, IfSplices
  <2>7. CASE EndArm
    BY <2>7, ArmSplices
  <2>8. CASE LowerWhile
    BY <2>8, WhileSplices
  <2>9. CASE LowerIter
    BY <2>9, IterSplices
  <2>10. CASE LowerList
    BY <2>10, ListSplices
  <2>11. CASE EndLoop
    BY <2>11, EndSplices
  <2>12. CASE EndList
    BY <2>12, EndListSplices
  <2> QED
    BY <2>1, <2>2, <2>3, <2>4, <2>5, <2>6, <2>7, <2>8, <2>9, <2>10, <2>11, <2>12 DEF LowerStmt
<1>2. PICK Q, V : Splices(P, W, Q, V)
  BY <1>1
<1>3. P \subseteq Q /\ Lowering(Q, V)'
  BY <1>2, Spliced2
<1> QED
  BY <1>3

LEMMA FinishLowers ==
  ASSUME CfgInv, FinishFunction, NEW P, NEW W, Lowering(P, W)
  PROVE  Lowering(P, W)'
<1>1. /\ agenda = <<>> /\ IsOpen(blocks, cur) /\ blocks' = Terminate(blocks, cur, Return(0))
      /\ UNCHANGED <<agenda, cur, scope, loops, nextLocal>>
  BY DEF FinishFunction, TerminateIfOpen
<1>2. /\ Listed(blocks) /\ cur \in DOMAIN blocks
  BY DEF CfgInv, BlocksInv, Typed, TypeOK, Lowering, NothingYet, Listed
<1>3. PICK t, cs : t = Return(0) /\ cs = Terminate(blocks, cur, t)
  OBVIOUS
<1>4. t # Unreachable
  BY <1>3 DEF Return, Unreachable
<1>5. PICK bs, c : bs = blocks /\ c = cur
  OBVIOUS
<1>6. Seals(bs, cs, c, t)
  BY <1>1, <1>2, <1>3, <1>4, <1>5, SealedIn
<1>7. /\ blocks' = cs /\ Listed(blocks') /\ Extended(blocks, blocks') /\ DOMAIN blocks' = DOMAIN blocks
      /\ HasTerm(blocks', cur, Len(blocks[cur].stmts) + 1, t)
  BY <1>1, <1>3, <1>5, <1>6 DEF Seals
<1>8. Entries(P, W)' /\ Nesting(W)'
  BY <1>1 DEF Lowering, Entries, Nesting
<1>9. NothingYet'
  <2>1. agenda' = <<>> /\ 1 .. Len(agenda') = {}
    BY <1>1, AnyEmpty
  <2> QED
    BY <1>7, <2>1 DEF NothingYet, Listed
<1>10. Done'
  <2>1. blocks'[cur'].term # Unreachable
    BY <1>1, <1>7 DEF HasTerm
  <2> QED
    BY <1>1, <2>1 DEF Done, IsOpen
<1>11. ASSUME NEW p \in P
       PROVE  p.b \in DOMAIN blocks' /\ p.i \in Nat \ {0} /\ Coded(p, P, blocks')
  <2>1. p.b \in DOMAIN blocks /\ p.i \in Nat \ {0} /\ (Coded(p, P, blocks) \/ Opened(p, W))
    BY DEF Lowering, Points
  <2>2. CASE Coded(p, P, blocks)
    <3>1. p.b \in DOMAIN blocks /\ Extended(blocks, blocks') /\ P \subseteq P
      BY <1>7, <2>1
    <3>2. Coded(p, P, blocks')
      BY <2>2, <3>1, CodedStays
    <3> QED
      BY <1>7, <2>1, <3>2
  <2>3. CASE Opened(p, W)
    <3>1. Len(agenda) = 0 /\ 1 .. Len(agenda) = {}
      BY <1>1, AnyEmpty
    <3>2. p = Current(W[0]) /\ W[0].cont = <<>>
      BY <2>3, <3>1 DEF Opened, Lowering, Entries
    <3>3. p.cont = <<>> /\ p.b = cur /\ p.i = Len(blocks[cur].stmts) + 1
      BY <3>2 DEF Current, Point
    <3>4. Closes(p, P, t)
      BY <1>3, <3>3 DEF Closes, EndReturn
    <3>5. Coded(p, P, blocks')
      BY <1>7, <3>3, <3>4, CodedBy
    <3> QED
      BY <1>7, <2>1, <3>5
  <2> QED
    BY <2>1, <2>2, <2>3
<1>12. Points(P, W)'
  BY <1>10, <1>11 DEF Points
<1> QED
  BY <1>8, <1>9, <1>12 DEF Lowering

LEMMA NextLowers ==
  ASSUME CfgInv, [Next]_vars, NEW P, NEW W, Lowering(P, W)
  PROVE  \E Q, V : P \subseteq Q /\ Lowering(Q, V)'
<1>1. CASE LowerStmt
  BY <1>1, StmtLowers
<1>2. CASE FinishFunction
  <2>1. P \subseteq P /\ Lowering(P, W)'
    BY <1>2, FinishLowers
  <2> QED
    BY <2>1
<1>3. CASE UNCHANGED vars
  <2>1. Lowering(P, W)'
    BY <1>3 DEF vars, Lowering, Entries, Nesting, NothingYet, Points, Current, Opened, Done
  <2> QED
    BY <2>1
<1> QED
  BY <1>1, <1>2, <1>3 DEF Next

(* At the start there is one point, and all of its code is to come. *)
LEMMA FirstLowers ==
  ASSUME Init
  PROVE  \E W : Lowering({Point(1, 1, agenda, scope)}, W)
<1>1. PICK b \in Bodies : agenda = <<[k |-> "block", body |-> b]>>
  BY DEF Init
<1>2. PICK a, q, P, w, v, W, c : /\ a = [k |-> "block", body |-> b] /\ c = agenda
                              /\ q = Point(1, 1, agenda, scope) /\ P = {q}
                              /\ v = Todo(<<>>, 1, 0, 0) /\ w = Todo(agenda, 1, 0, 0)
                              /\ W = [k \in 0 .. 1 |-> IF k = 0 THEN v ELSE w]
  OBVIOUS
<1>3. /\ v.cont = <<>> /\ v.sd = 1 /\ v.ld = 0 /\ w.cont = agenda /\ w.sd = 1 /\ w.ld = 0
  BY <1>2 DEF Todo
<1>4. /\ agenda = <<a>> /\ AnySeq(agenda) /\ Len(agenda) = 1 /\ Back(agenda, 1) = a /\ agenda # <<>>
  <2>1. PICK s : s = <<a>>
    OBVIOUS
  <2>2. AnySeq(s) /\ Len(s) = 1 /\ s[1] = a
    BY <2>1, OneItem
  <2>3. Back(s, 1) = a /\ s # <<>>
    BY <2>2, AnyEmpty DEF Back
  <2> QED
    BY <1>1, <1>2, <2>1, <2>2, <2>3
<1>5. a.k = "block" /\ a.k \notin JumpKinds /\ a.k \notin {"pop", "arm", "end", "endlist"}
      /\ Reserves(a) = {} /\ Waiting(a) = {}
  BY <1>2 DEF JumpKinds, Reserves, Micro, Waiting
<1>6. /\ scope = <<[x \in {Param} |-> 0]>> /\ loops = <<>> /\ cur = 1 /\ blocks = <<Open>>
  BY DEF Init
<1>7. Len(scope) = 1 /\ Len(loops) = 0 /\ DOMAIN blocks = {1} /\ blocks[1] = Open
  <2>1. Len(scope) = 1
    BY <1>6, OneItem
  <2>2. Len(loops) = 0
    BY <1>6, AnyEmpty
  <2>3. DOMAIN blocks = {1} /\ blocks[1] = Open
    BY <1>6
  <2> QED
    BY <2>1, <2>2, <2>3
<1>8. blocks[1].stmts = <<>> /\ IsOpen(blocks, 1)
  BY <1>7 DEF Open, IsOpen
<1>9. W[0] = v /\ W[1] = w /\ DOMAIN W = 0 .. 1
  BY <1>2
<1>10. Entries(P, W)
  <2>1. EntryOK(P, v, loops, nextLocal)
    <3>1. 1 .. Len(v.cont) = {} /\ AnySeq(v.cont)
      BY <1>3, AnyEmpty
    <3> QED
      BY <1>3, <3>1 DEF EntryOK
  <2>2. EntryOK(P, w, loops, nextLocal)
    <3>1. \A k \in 1 .. Len(w.cont) : Reserves(Back(w.cont, k)) \subseteq 0 .. nextLocal - 1
      BY <1>3, <1>4, <1>5
    <3> QED
      BY <1>3, <1>4, <3>1 DEF EntryOK
  <2>3. ItemOK(P, a, w, v, scope)
    <3>1. <<a>> \o <<>> = <<a>>
      OBVIOUS
    <3>2. StmtOK(a, w, v)
      BY <1>3, <1>4, <3>1 DEF StmtOK
    <3> QED
      BY <1>5, <3>2 DEF ItemOK
  <2>4. \A k \in 0 .. Len(agenda) : EntryOK(P, W[k], loops, nextLocal)
    <3>1. \A k \in 0 .. 1 : k = 0 \/ k = 1
      OBVIOUS
    <3> QED
      BY <1>4, <1>9, <2>1, <2>2, <3>1
  <2>5. \A k \in 1 .. Len(agenda) : ItemOK(P, Back(agenda, k), W[k], W[k - 1], scope)
    <3>1. \A k \in 1 .. 1 : k = 1 /\ k - 1 = 0
      OBVIOUS
    <3> QED
      BY <1>4, <1>9, <2>3, <3>1
  <2> QED
    BY <1>3, <1>4, <1>7, <1>9, <2>4, <2>5 DEF Entries
<1>11. Nesting(W)
  <2>1. \A k \in 0 .. 1 : W[k].sd = 1 /\ W[k].ld = 0
    BY <1>3, <1>9
  <2>2. \A k \in 0 .. 1 : \A j \in k .. 1 : j \in 0 .. 1
    OBVIOUS
  <2>3. \A k \in 1 .. 1 : k = 1
    OBVIOUS
  <2> QED
    BY <1>4, <1>5, <2>1, <2>2, <2>3 DEF Nesting
<1>12. NothingYet
  <2>1. AnySeq(blocks[1].stmts)
    BY <1>8, AnyEmpty
  <2>2. \A k \in 1 .. 1 : k = 1
    OBVIOUS
  <2> QED
    BY <1>4, <1>5, <1>7, <2>1, <2>2 DEF NothingYet
<1>13. Current(W[Len(agenda)]) = q
  <2>1. Len(blocks[cur].stmts) + 1 = 1
    BY <1>6, <1>8, AnyEmpty
  <2> QED
    BY <1>2, <1>3, <1>4, <1>6, <1>9, <2>1 DEF Current
<1>14. Points(P, W)
  <2>1. ~ Done
    BY <1>4 DEF Done
  <2>2. q.b = 1 /\ q.i = 1
    BY <1>2 DEF Point
  <2>3. Opened(q, W)
    BY <1>13 DEF Opened
  <2> QED
    BY <1>2, <1>7, <1>13, <2>1, <2>2, <2>3 DEF Points
<1> QED
  BY <1>2, <1>10, <1>11, <1>12, <1>14 DEF Lowering
=============================================================================
