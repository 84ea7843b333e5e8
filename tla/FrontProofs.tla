----------------------------- MODULE FrontProofs ------------------------------
(***************************************************************************)
(* From files to names (Front), for all disks, preludes and orders of        *)
(* modules.  Four inductive invariants, each over the one before:            *)
(*   TypeInv: the types, and what has been done when the pass is where it is;   *)
(*   LoadInv: what is asked for is known, read or on the queue, and what was     *)
(*     read was asked for;                                                  *)
(*   NameInv: a request is pending or was granted, a scope holds nothing else,    *)
(*     and what was refused was refused rightly;                             *)
(*   OrderInv: requests are finalized in the order of their importers.          *)
(***************************************************************************)
EXTENDS Front, SeqSiftProofs, WellFoundedInduction

-----------------------------------------------------------------------------
(* Files are being read; afterwards of:core is the first of the modules.       *)
Reading == pc \in {"load", "unreadable"}

(* Each scope is a function from names to definitions: the module's own, and what  *)
(* it imported.                                                             *)
Scope == UNION {[N -> Meaning] : N \in SUBSET Symbol}

ScopesTyped ==
  /\ direct \in Seq(Scope) /\ imported \in Seq(SUBSET Symbol)
  /\ \A k \in DOMAIN direct : DOMAIN direct[k] = Defined(k) \cup imported[k]

(* What has been done when the pass is where it is. *)
Phases ==
  /\ pc \in {"load", "unreadable", "imports", "names", "finalize", "accepted", "rejected",
             "lowered", "panicked"}
  /\ Reading => globs = <<>> /\ pending = <<>> /\ direct = <<>> /\ imported = <<>> /\ errors = {}
  /\ ~ Reading => /\ modules # <<>> /\ queue = <<>>
                  /\ modules[1] = [name |-> Core, path |-> Core, items |-> CoreItems]
  /\ pc = "imports" => direct = <<>> /\ imported = <<>>
  /\ ~ Reading /\ pc # "imports" => Len(globs) = Len(modules)
  /\ ~ Reading /\ pc \notin {"imports", "names"} => Len(direct) = Len(modules)
  /\ pc = "accepted" => errors = {} /\ pending = <<>>

TypeInv == TypeOK /\ ScopesTyped /\ Phases

ModuleType == [name : Target, path : Path \cup {Core}, items : Seq(Item)]
ImportType == [importer : ModuleId, source : ModuleId, name : Symbol, as : Symbol]

FilesOK ==
  /\ DOMAIN disk \subseteq Path /\ \A f \in DOMAIN disk : disk[f] \in Seq(Item)
  /\ queue \in Seq(Path) /\ visited \subseteq Target /\ modules \in Seq(ModuleType)

ImportsOK ==
  globs \in Seq(Seq(ModuleId)) /\ Len(globs) <= Len(modules) /\ pending \in Seq(ImportType)

ScopesOK ==
  /\ Len(direct) <= Len(modules) /\ Len(imported) = Len(direct)
  /\ \A k \in DOMAIN direct :
       /\ imported[k] \subseteq DOMAIN direct[k] \ Defined(k)
       /\ \A n \in DOMAIN direct[k] :
            direct[k][n] \in Meaning /\ direct[k][n].name \in Defined(direct[k][n].mod)

LEMMA TypeParts == TypeInv <=> FilesOK /\ ImportsOK /\ ScopesOK /\ ScopesTyped /\ Phases
BY DEF TypeInv, TypeOK, FilesOK, ImportsOK, ScopesOK, ModuleType, ImportType


-----------------------------------------------------------------------------
(***************************************************************************)
(* Sequences.                                                               *)
(***************************************************************************)
LEMMA InRange ==
  ASSUME NEW f
  PROVE  \A x : x \in Range(f) <=> \E k \in DOMAIN f : f[k] = x
BY DEF Range

LEMMA Ranges ==
  ASSUME NEW T, NEW s \in Seq(T)
  PROVE  /\ Range(s) \subseteq T
         /\ \A k \in DOMAIN s : s[k] \in Range(s) /\ s[k] \in T
         /\ \A x \in Range(s) : \E k \in DOMAIN s : s[k] = x
         /\ DOMAIN s = 1 .. Len(s) /\ Len(s) \in Nat
BY LenProperties, ElementOfSeq DEF Range

LEMMA AppendFacts ==
  ASSUME NEW T, NEW s \in Seq(T), NEW x \in T
  PROVE  /\ Append(s, x) \in Seq(T) /\ Len(Append(s, x)) = Len(s) + 1
         /\ DOMAIN Append(s, x) = DOMAIN s \cup {Len(s) + 1} /\ Len(s) + 1 \notin DOMAIN s
         /\ \A k \in DOMAIN s : Append(s, x)[k] = s[k]
         /\ Append(s, x)[Len(s) + 1] = x
BY AppendProperties, LenProperties

LEMMA ConcatFacts ==
  ASSUME NEW T, NEW s \in Seq(T), NEW t \in Seq(T)
  PROVE  s \o t \in Seq(T) /\ Range(s \o t) = Range(s) \cup Range(t)
<1>1. /\ s \o t \in Seq(T) /\ Len(s \o t) = Len(s) + Len(t)
      /\ \A i \in 1 .. Len(s) + Len(t) :
           (s \o t)[i] = IF i <= Len(s) THEN s[i] ELSE t[i - Len(s)]
  BY ConcatProperties
<1>2. /\ Len(s) \in Nat /\ Len(t) \in Nat /\ DOMAIN s = 1 .. Len(s) /\ DOMAIN t = 1 .. Len(t)
      /\ DOMAIN (s \o t) = 1 .. Len(s) + Len(t)
  BY <1>1, LenProperties
<1> DEFINE u == s \o t
           m == Len(s)
           n == Len(t)
<1> HIDE DEF u, m, n
<1>3. /\ m \in Nat /\ n \in Nat /\ DOMAIN s = 1 .. m /\ DOMAIN t = 1 .. n /\ DOMAIN u = 1 .. m + n
      /\ \A i \in 1 .. m + n : u[i] = IF i <= m THEN s[i] ELSE t[i - m]
  BY <1>1, <1>2 DEF u, m, n
<1>4. \A i \in 1 .. m : i \in 1 .. m + n /\ u[i] = s[i]
  BY <1>3
<1>5. \A i \in 1 .. n : m + i \in 1 .. m + n /\ u[m + i] = t[i]
  BY <1>3
<1>6. \A i \in 1 .. m + n : i \in 1 .. m \/ i - m \in 1 .. n
  BY <1>3
<1>7. ASSUME NEW i \in 1 .. m + n
      PROVE  u[i] \in Range(s) \cup Range(t)
  <2>1. CASE i \in 1 .. m
    BY <1>3, <1>4, <2>1, InRange
  <2>2. CASE i - m \in 1 .. n
    <3>1. u[i] = t[i - m]
      BY <1>3, <2>2
    <3> QED
      BY <1>3, <2>2, <3>1, InRange
  <2> QED
    BY <1>6, <2>1, <2>2
<1>8. Range(s) \subseteq Range(u)
  BY ONLY <1>3, <1>4, InRange
<1>9. Range(t) \subseteq Range(u)
  BY ONLY <1>3, <1>5, InRange
<1>10. Range(u) \subseteq Range(s) \cup Range(t)
  BY ONLY <1>3, <1>7, InRange
<1>11. Range(u) = Range(s) \cup Range(t)
  BY <1>8, <1>9, <1>10
<1> QED
  BY <1>1, <1>11 DEF u

LEMMA HeadTailFacts ==
  ASSUME NEW T, NEW s \in Seq(T), s # <<>>
  PROVE  /\ Head(s) \in T /\ Tail(s) \in Seq(T)
         /\ Range(s) = {Head(s)} \cup Range(Tail(s))
<1> DEFINE t == Tail(s)
           n == Len(s)
<1>1. /\ Head(s) \in T /\ t \in Seq(T) /\ n \in Nat \ {0} /\ DOMAIN s = 1 .. n
      /\ DOMAIN t = 1 .. n - 1 /\ \A i \in 1 .. n - 1 : t[i] = s[i + 1]
      /\ Head(s) = s[1]
  BY HeadTailProperties, LenProperties, EmptySeq
<1> HIDE DEF t, n
<1>2. \A i \in 1 .. n : i = 1 \/ (i - 1 \in 1 .. n - 1 /\ t[i - 1] = s[i])
  BY <1>1
<1>3. \A i \in 1 .. n - 1 : i + 1 \in 1 .. n
  BY <1>1
<1>4. \A x \in Range(s) : x = Head(s) \/ x \in Range(t)
  BY ONLY <1>1, <1>2, InRange
<1>5. Head(s) \in Range(s) /\ Range(t) \subseteq Range(s)
  <2>1. 1 \in 1 .. n
    BY <1>1
  <2> QED
    BY ONLY <1>1, <1>3, <2>1, InRange
<1> QED
  BY <1>1, <1>4, <1>5 DEF t

(* queue.pop() *)
LEMMA PopFacts ==
  ASSUME queue \in Seq(Path), queue # <<>>
  PROVE  Popped \in Path /\ Below \in Seq(Path) /\ Range(queue) = Range(Below) \cup {Popped}
<1> DEFINE n == Len(queue)
           b == Below
<1>1. n \in Nat \ {0} /\ DOMAIN queue = 1 .. n /\ \A i \in 1 .. n : queue[i] \in Path
  BY EmptySeq, LenProperties, ElementOfSeq
<1>2. /\ b \in Seq(Path) /\ DOMAIN b = 1 .. n - 1
      /\ \A i \in 1 .. n - 1 : b[i] = queue[i]
  <2>1. 1 \in Int /\ n - 1 \in Int /\ \A i \in 1 .. n - 1 : queue[i] \in Path
    BY <1>1
  <2>2. /\ b \in Seq(Path) /\ Len(b) = IF 1 <= n - 1 THEN n - 1 - 1 + 1 ELSE 0
        /\ \A i \in 1 .. n - 1 - 1 + 1 : b[i] = queue[1 + i - 1]
    BY <2>1, SubSeqProperties DEF Below
  <2> HIDE DEF n, b
  <2>3. Len(b) = n - 1
    BY <1>1, <2>2
  <2>4. DOMAIN b = 1 .. n - 1
    BY <2>2, <2>3, LenProperties
  <2>5. \A i \in 1 .. n - 1 : i \in 1 .. n - 1 - 1 + 1 /\ 1 + i - 1 = i
    BY <1>1
  <2> QED
    BY <2>2, <2>4, <2>5
<1> HIDE DEF n, b
<1>3. Popped = queue[n]
  BY DEF Popped, n
<1>4. \A i \in 1 .. n : i = n \/ i \in 1 .. n - 1
  BY <1>1
<1>5. n \in 1 .. n /\ 1 .. n - 1 \subseteq 1 .. n
  BY <1>1
<1>6. Range(queue) \subseteq Range(b) \cup {Popped}
  BY ONLY <1>1, <1>2, <1>3, <1>4, InRange
<1>7. Range(b) \cup {Popped} \subseteq Range(queue)
  BY ONLY <1>1, <1>2, <1>3, <1>5, InRange
<1> QED
  BY <1>1, <1>2, <1>3, <1>5, <1>6, <1>7 DEF b

-----------------------------------------------------------------------------
(***************************************************************************)
(* Items.                                                                   *)
(***************************************************************************)
LEMMA ItemTypes ==
  ASSUME NEW i \in Item
  PROVE  /\ IsImport(i) => i.from \in Target
         /\ i.k = "named" => IsImport(i) /\ i.name \in Symbol /\ i.as \in Symbol
         /\ IsDef(i) => i.name \in Symbol
BY DEF Item, IsImport, IsDef

LEMMA CoreItemTypes ==
  /\ CoreItems \in Seq(Item)
  /\ \A i \in Range(CoreItems) : ~ IsImport(i)
<1> DEFINE D == [k : {"fn", "type", "method"}, name : Symbol]
<1>1. CoreItems \in Seq(D)
  BY PathsAssumption
<1>2. D \subseteq Item
  BY DEF Item
<1>3. CoreItems \in Seq(Item)
  BY <1>1, <1>2, SeqMonotonic
<1>4. \A i \in D : ~ IsImport(i)
  BY DEF IsImport
<1>5. Range(CoreItems) \subseteq D
  BY <1>1, Ranges
<1> QED
  BY <1>3, <1>4, <1>5

LEMMA ToLoadFacts ==
  ASSUME NEW items \in Seq(Item), NEW seen
  PROVE  /\ ToLoad(items, seen) \in Seq(Item)
         /\ Range(ToLoad(items, seen)) = {i \in Range(items) : IsImport(i) /\ i.from \notin seen}
<1> DEFINE I == {j \in DOMAIN items : IsImport(items[j]) /\ items[j].from \notin seen}
           t == ToLoad(items, seen)
<1>1. t = Picked(items, I)
  BY DEF ToLoad, Sift, Passing
<1>2. I \subseteq DOMAIN items
  OBVIOUS
<1> HIDE DEF t
<1>3. /\ t \in Seq(Item)
      /\ \A p \in DOMAIN t : Position(I, p) \in I /\ t[p] = items[Position(I, p)]
      /\ \A j \in I : \E p \in DOMAIN t : Position(I, p) = j
  <2> HIDE DEF I
  <2> QED
    BY ONLY <1>1, <1>2, items \in Seq(Item), PickedShape
<1> DEFINE Test(x) == IsImport(x) /\ x.from \notin seen
<1>4. \A j \in DOMAIN items : j \in I <=> Test(items[j])
  OBVIOUS
<1>5. t \in Seq(Item) /\ Range(t) = {i \in Range(items) : Test(i)}
  <2> HIDE DEF I, Test
  <2>1. \A x \in Range(t) : x \in Range(items) /\ Test(x)
    BY ONLY <1>2, <1>3, <1>4, InRange
  <2>2. \A x \in Range(items) : Test(x) => x \in Range(t)
    BY ONLY <1>3, <1>4, InRange
  <2> QED
    BY <1>3, <2>1, <2>2
<1> QED
  BY <1>5 DEF t

LEMMA ResolvableFacts ==
  ASSUME NEW k, modules[k].items \in Seq(Item), NEW kind
  PROVE  /\ Resolvable(k, kind) \in Seq(Item)
         /\ Range(Resolvable(k, kind))
              = {i \in Range(modules[k].items) :
                   i.k = kind /\ i.from # modules[k].name /\ i.from \in Names}
<1> DEFINE items == modules[k].items
           I == {j \in DOMAIN items :
                   items[j].k = kind /\ items[j].from # modules[k].name /\ items[j].from \in Names}
           t == Resolvable(k, kind)
<1>1. t = Picked(items, I)
  BY DEF Resolvable, Sift, Passing
<1>2. items \in Seq(Item) /\ I \subseteq DOMAIN items
  OBVIOUS
<1> HIDE DEF t
<1>3. /\ t \in Seq(Item)
      /\ \A p \in DOMAIN t : Position(I, p) \in I /\ t[p] = items[Position(I, p)]
      /\ \A j \in I : \E p \in DOMAIN t : Position(I, p) = j
  <2> HIDE DEF I, items
  <2> QED
    BY ONLY <1>1, <1>2, PickedShape
<1> DEFINE Test(x) == x.k = kind /\ x.from # modules[k].name /\ x.from \in Names
<1>4. \A j \in DOMAIN items : j \in I <=> Test(items[j])
  OBVIOUS
<1>5. t \in Seq(Item) /\ Range(t) = {i \in Range(items) : Test(i)}
  <2> HIDE DEF I, items, Test
  <2>1. \A x \in Range(t) : x \in Range(items) /\ Test(x)
    BY ONLY <1>2, <1>3, <1>4, InRange
  <2>2. \A x \in Range(items) : Test(x) => x \in Range(t)
    BY ONLY <1>3, <1>4, InRange
  <2> QED
    BY <1>3, <2>1, <2>2
<1> QED
  BY <1>5 DEF t

(* The paths a file puts on the queue. *)
Asks(p, new) == [j \in DOMAIN new |-> Join[p][new[j].from]]

LEMMA AsksFacts ==
  ASSUME NEW p \in Path, NEW items \in Seq(Item), NEW seen
  PROVE  /\ Asks(p, ToLoad(items, seen)) \in Seq(Path)
         /\ \A q \in Range(Asks(p, ToLoad(items, seen))) :
              \E i \in Range(items) : IsImport(i) /\ i.from \notin seen /\ q = Join[p][i.from]
         /\ \A i \in Range(items) : IsImport(i) /\ i.from \notin seen =>
              Join[p][i.from] \in Range(Asks(p, ToLoad(items, seen)))
<1> DEFINE new == ToLoad(items, seen)
           a == Asks(p, new)
<1>1. /\ new \in Seq(Item)
      /\ Range(new) = {i \in Range(items) : IsImport(i) /\ i.from \notin seen}
  BY ToLoadFacts
<1>2. Range(items) \subseteq Item
  BY Ranges
<1>3. \A i \in Range(new) : Join[p][i.from] \in Path
  BY <1>1, <1>2, ItemTypes, PathsAssumption
<1> HIDE DEF new
<1>4. Len(new) \in Nat /\ DOMAIN new = 1 .. Len(new)
  BY <1>1, LenProperties
<1>5. DOMAIN a = DOMAIN new /\ \A j \in DOMAIN new : a[j] = Join[p][new[j].from]
  BY DEF Asks
<1>6. \A j \in DOMAIN new : new[j] \in Range(new)
  BY DEF Range
<1>7. a \in [1 .. Len(new) -> Path]
  BY <1>3, <1>4, <1>6 DEF Asks
<1>8. a \in Seq(Path)
  BY <1>4, <1>7, SeqDef
<1> HIDE DEF a
<1>9. \A q \in Range(a) : \E i \in Range(new) : q = Join[p][i.from]
  BY <1>5, <1>6 DEF Range
<1>10. \A i \in Range(new) : Join[p][i.from] \in Range(a)
  BY <1>5 DEF Range
<1> QED
  BY <1>1, <1>8, <1>9, <1>10 DEF a, new

-----------------------------------------------------------------------------
(***************************************************************************)
(* What each step does to the files, the requests and the scopes.             *)
(***************************************************************************)
CoreModule == [name |-> Core, path |-> Core, items |-> CoreItems]

LEMMA InvFacts ==
  ASSUME TypeInv
  PROVE  /\ queue \in Seq(Path) /\ modules \in Seq(ModuleType) /\ visited \subseteq Target
         /\ ModuleId = 1 .. Len(modules) /\ Len(modules) \in Nat
         /\ \A k \in ModuleId :
              /\ modules[k] \in ModuleType /\ modules[k].items \in Seq(Item)
              /\ modules[k].name \in Target /\ modules[k].path \in Path \cup {Core}
              /\ Range(modules[k].items) \subseteq Item
<1>1. modules \in Seq(ModuleType) /\ queue \in Seq(Path) /\ visited \subseteq Target
  BY TypeParts DEF FilesOK
<1>2. DOMAIN modules = 1 .. Len(modules) /\ Len(modules) \in Nat
      /\ \A k \in DOMAIN modules : modules[k] \in ModuleType
  BY <1>1, Ranges
<1>3. \A m \in ModuleType : /\ m.items \in Seq(Item) /\ m.name \in Target
                            /\ m.path \in Path \cup {Core}
  BY DEF ModuleType
<1>4. \A s \in Seq(Item) : Range(s) \subseteq Item
  BY Ranges
<1> QED
  BY <1>1, <1>2, <1>3, <1>4 DEF ModuleId

LEMMA LoadFileEffect ==
  ASSUME TypeInv, LoadFile
  PROVE  /\ modules' \in Seq(ModuleType) /\ queue' \in Seq(Path) /\ Len(modules) + 1 \notin ModuleId
         /\ Popped \in Path /\ Popped \in Range(queue) /\ disk[Popped] \in Seq(Item)
         /\ ModuleId' = ModuleId \cup {Len(modules) + 1}
         /\ \A k \in ModuleId : modules'[k] = modules[k] /\ k < Len(modules) + 1
         /\ modules'[Len(modules) + 1]
              = [name |-> StemOf[Popped], path |-> Popped, items |-> disk[Popped]]
         /\ \A q \in Range(queue') : q \in Range(queue) \/
              \E i \in Range(disk[Popped]) :
                IsImport(i) /\ i.from \notin visited' /\ q = Join[Popped][i.from]
         /\ \A q \in Range(queue) : q = Popped \/ q \in Range(queue')
         /\ \A i \in Range(disk[Popped]) :
              IsImport(i) /\ i.from \notin visited' => Join[Popped][i.from] \in Range(queue')
<1> DEFINE m == [name |-> StemOf[Popped], path |-> Popped, items |-> disk[Popped]]
           a == Asks(Popped, ToLoad(disk[Popped], visited'))
<1>1. /\ queue # <<>> /\ Popped \in DOMAIN disk /\ modules' = Append(modules, m)
      /\ queue' = Below \o a
  BY DEF LoadFile, Asks
<1>2. /\ Popped \in Path /\ Below \in Seq(Path) /\ Range(queue) = Range(Below) \cup {Popped}
  BY <1>1, InvFacts, PopFacts
<1>3. disk[Popped] \in Seq(Item)
  BY <1>1, TypeParts DEF FilesOK
<1>4. m \in ModuleType
  BY <1>2, <1>3, PathsAssumption DEF ModuleType
<1>5. modules \in Seq(ModuleType) /\ ModuleId = 1 .. Len(modules) /\ Len(modules) \in Nat
  BY InvFacts
<1> HIDE DEF m
<1>6. /\ modules' \in Seq(ModuleType) /\ Len(modules) + 1 \notin ModuleId
      /\ ModuleId' = ModuleId \cup {Len(modules) + 1}
      /\ \A k \in ModuleId : modules'[k] = modules[k]
      /\ modules'[Len(modules) + 1] = m
  BY <1>1, <1>4, <1>5, AppendFacts DEF ModuleId
<1>7. \A k \in ModuleId : k < Len(modules) + 1
  BY <1>5
<1>8. /\ a \in Seq(Path)
      /\ \A q \in Range(a) : \E i \in Range(disk[Popped]) :
           IsImport(i) /\ i.from \notin visited' /\ q = Join[Popped][i.from]
      /\ \A i \in Range(disk[Popped]) :
           IsImport(i) /\ i.from \notin visited' => Join[Popped][i.from] \in Range(a)
  BY <1>2, <1>3, AsksFacts
<1> HIDE DEF a
<1>9. queue' \in Seq(Path) /\ Range(queue') = Range(Below) \cup Range(a)
  BY <1>1, <1>2, <1>8, ConcatFacts
<1> QED
  BY <1>2, <1>3, <1>6, <1>7, <1>8, <1>9 DEF m

LEMMA LoadedEffect ==
  ASSUME TypeInv, Loaded
  PROVE  /\ modules' \in Seq(ModuleType) /\ modules' # <<>>
         /\ 1 \in ModuleId' /\ modules'[1] = CoreModule
         /\ \A k \in ModuleId : k + 1 \in ModuleId' /\ modules'[k + 1] = modules[k]
         /\ \A k \in ModuleId' \ {1} : k - 1 \in ModuleId /\ modules'[k] = modules[k - 1]
         /\ ModuleId' \subseteq Nat \ {0}
<1> DEFINE c == <<CoreModule>>
           n == Len(modules)
<1>1. modules' = c \o modules
  BY DEF Loaded, CoreModule
<1>2. CoreModule \in ModuleType
  BY CoreItemTypes, PathsAssumption DEF CoreModule, ModuleType
<1>3. c \in Seq(ModuleType) /\ Len(c) = 1 /\ c[1] = CoreModule
  BY <1>2
<1> HIDE DEF c
<1>4. modules \in Seq(ModuleType) /\ ModuleId = 1 .. n /\ n \in Nat
  BY InvFacts
<1>5. /\ c \o modules \in Seq(ModuleType) /\ Len(c \o modules) = 1 + n
      /\ \A i \in 1 .. 1 + n : (c \o modules)[i] = IF i <= 1 THEN c[i] ELSE modules[i - 1]
  <2>1. c \in Seq(ModuleType) /\ modules \in Seq(ModuleType)
    BY <1>3, <1>4
  <2>2. /\ c \o modules \in Seq(ModuleType) /\ Len(c \o modules) = Len(c) + Len(modules)
        /\ \A i \in 1 .. Len(c) + Len(modules) :
             (c \o modules)[i] = IF i <= Len(c) THEN c[i] ELSE modules[i - Len(c)]
    BY ONLY <2>1, ConcatProperties
  <2> QED
    BY <1>3, <2>2
<1> HIDE DEF n
<1>6. /\ modules' \in Seq(ModuleType) /\ Len(modules') = 1 + n
      /\ \A i \in 1 .. 1 + n : modules'[i] = IF i <= 1 THEN c[i] ELSE modules[i - 1]
  BY <1>1, <1>5
<1>7. ModuleId' = 1 .. 1 + n
  BY <1>6, LenProperties DEF ModuleId
<1>8. 1 \in 1 .. 1 + n /\ modules'[1] = CoreModule
  BY <1>3, <1>4, <1>6
<1>9. \A k \in 1 .. n : k + 1 \in 1 .. 1 + n /\ modules'[k + 1] = modules[k]
  <2>1. \A k \in 1 .. n : k + 1 \in 1 .. 1 + n /\ ~ (k + 1 <= 1) /\ k + 1 - 1 = k
    BY <1>4
  <2> QED
    BY <1>6, <2>1
<1>10. \A k \in 1 .. 1 + n : k # 1 => k - 1 \in 1 .. n /\ modules'[k] = modules[k - 1]
  <2>1. \A k \in 1 .. 1 + n : k # 1 => k - 1 \in 1 .. n /\ ~ (k <= 1)
    BY <1>4
  <2> QED
    BY <1>6, <2>1
<1>11. modules' # <<>>
  BY <1>4, <1>6, EmptySeq
<1> QED
  BY <1>4, <1>6, <1>7, <1>8, <1>9, <1>10, <1>11

LEMMA CoreIsKnown ==
  ASSUME TypeInv, ~ Reading
  PROVE  /\ 1 \in ModuleId /\ modules[1] = CoreModule /\ Core \in Names
         /\ \A t \in Names : IdOf(t) \in ModuleId /\ modules[IdOf(t)].name = t
<1>1. modules # <<>> /\ modules[1] = CoreModule
  BY TypeParts DEF Phases, CoreModule
<1>2. 1 \in ModuleId
  <2>1. Len(modules) \in Nat \ {0}
    BY <1>1, InvFacts, EmptySeq
  <2> QED
    BY <2>1, InvFacts
<1>3. 1 \in ByName(Core)
  BY <1>1, <1>2 DEF ByName, CoreModule, ModuleId
<1>4. Core \in Names
  BY <1>3, PathsAssumption DEF Names
<1>5. \A t \in Names : IdOf(t) \in ByName(t)
  BY DEF Names, IdOf
<1> QED
  BY <1>1, <1>2, <1>4, <1>5 DEF ByName, ModuleId

LEMMA WantedTypes ==
  ASSUME TypeInv, ~ Reading, NEW k \in ModuleId
  PROVE  /\ Implicit(k) \in Seq(ImportType)
         /\ \A w \in Wanted(k) : w \in ImportType /\ w.importer = k
<1>1. IdOf(Core) \in ModuleId
  BY CoreIsKnown
<1>2. Prelude \in Seq(Symbol) /\ DOMAIN Prelude = 1 .. Len(Prelude) /\ Len(Prelude) \in Nat
      /\ \A j \in DOMAIN Prelude : Prelude[j] \in Symbol
  BY PathsAssumption, Ranges
<1>3. \A j \in DOMAIN Prelude : Import(k, IdOf(Core), Prelude[j], Prelude[j]) \in ImportType
  BY <1>1, <1>2 DEF Import, ImportType
<1>4. [j \in DOMAIN Prelude |-> Import(k, IdOf(Core), Prelude[j], Prelude[j])] \in Seq(ImportType)
  BY <1>2, <1>3, SeqDef
<1>5. <<>> \in Seq(ImportType)
  BY EmptySeq
<1>6. Implicit(k) \in Seq(ImportType)
  BY <1>4, <1>5 DEF Implicit
<1>7. \A w \in Range(Implicit(k)) : w \in ImportType /\ w.importer = k
  <2>1. Range(Implicit(k)) \subseteq ImportType
    BY <1>6, Ranges
  <2>2. \A j \in DOMAIN Implicit(k) : Implicit(k)[j].importer = k
    BY DEF Implicit, Import
  <2>3. \A w \in Range(Implicit(k)) : w.importer = k
    BY ONLY <2>2, InRange
  <2> QED
    BY <2>1, <2>3
<1>8. \A i \in Asked(k) : i.k = "named" /\ i.from \in Names =>
        Import(k, IdOf(i.from), i.name, i.as) \in ImportType
  <2>1. Asked(k) \subseteq Item
    BY InvFacts DEF Asked
  <2>2. \A i \in Item : i.k = "named" => i.name \in Symbol /\ i.as \in Symbol
    BY ItemTypes
  <2>3. \A t \in Names : IdOf(t) \in ModuleId
    BY CoreIsKnown
  <2> QED
    BY <2>1, <2>2, <2>3 DEF Import, ImportType
<1>9. \A s, n, a : Import(k, s, n, a).importer = k
  BY DEF Import
<1> QED
  BY <1>6, <1>7, <1>8, <1>9 DEF Wanted

(* What a module asks for by name, in order and as a set. *)
LEMMA RequestsFacts ==
  ASSUME TypeInv, ~ Reading, NEW k \in ModuleId
  PROVE  Requests(k) \in Seq(ImportType) /\ Range(Requests(k)) = Wanted(k)
<1> DEFINE named == Resolvable(k, "named")
           more  == [j \in DOMAIN named |-> Import(k, IdOf(named[j].from), named[j].name, named[j].as)]
<1>1. modules[k].items \in Seq(Item)
  BY InvFacts
<1>2. /\ named \in Seq(Item)
      /\ Range(named) = {i \in Range(modules[k].items) :
                          i.k = "named" /\ i.from # modules[k].name /\ i.from \in Names}
  BY <1>1, ResolvableFacts
<1>3. Requests(k) = Implicit(k) \o more
  BY DEF Requests
<1> HIDE DEF named
<1>4. \A i \in Range(named) : Import(k, IdOf(i.from), i.name, i.as) \in Wanted(k)
  <2>1. Range(named) \subseteq {x \in Asked(k) : x.k = "named" /\ x.from \in Names \ {modules[k].name}}
    BY <1>2 DEF Asked, IsImport
  <2> QED
    BY <2>1 DEF Wanted
<1>5. Range(more) = {Import(k, IdOf(i.from), i.name, i.as) : i \in Range(named)}
  BY DEF Range
<1>6. more \in Seq(ImportType)
  <2>1. \A w \in Wanted(k) : w \in ImportType
    BY WantedTypes
  <2>2. \A j \in DOMAIN named : named[j] \in Range(named)
    BY DEF Range
  <2>3. more \in [DOMAIN named -> ImportType]
    BY <1>4, <2>1, <2>2
  <2>4. DOMAIN named = 1 .. Len(named) /\ Len(named) \in Nat
    BY <1>2, Ranges
  <2> QED
    BY <2>3, <2>4, SeqDef
<1>7. Range(named) = {x \in Asked(k) : x.k = "named" /\ x.from \in Names \ {modules[k].name}}
  BY <1>2 DEF Asked, IsImport
<1>8. Wanted(k) = Range(Implicit(k)) \cup Range(more)
  BY <1>5, <1>7 DEF Wanted
<1> HIDE DEF more
<1>9. Implicit(k) \in Seq(ImportType)
  BY WantedTypes
<1> QED
  BY <1>3, <1>6, <1>8, <1>9, ConcatFacts

LEMMA CollectEffect ==
  ASSUME TypeInv, CollectImports
  PROVE  LET k == Len(globs) + 1 IN
         /\ k \in ModuleId /\ k \notin DOMAIN globs
         /\ globs' \in Seq(Seq(ModuleId)) /\ Len(globs') = k /\ DOMAIN globs' = DOMAIN globs \cup {k}
         /\ pending' \in Seq(ImportType) /\ Range(pending') = Range(pending) \cup Wanted(k)
         /\ errors \subseteq errors'
         /\ errors' = {} => \A i \in Asked(k) : i.from \in Names
         /\ \A e \in errors' : e \in errors \/ e.err \in {"self_import", "unknown_module"}
<1> DEFINE k     == Len(globs) + 1
           glob  == Resolvable(k, "glob")
           ids   == [j \in DOMAIN glob |-> IdOf(glob[j].from)]
           asked == {modules[k].items[j].from : j \in {i \in DOMAIN modules[k].items :
                                                         IsImport(modules[k].items[i])}}
<1>1. /\ ~ Reading /\ Len(globs) < Len(modules)
      /\ globs' = Append(globs, ids)
      /\ pending' = pending \o Requests(k)
      /\ errors' = errors
             \cup {Error("self_import", k, t) : t \in asked \cap {modules[k].name}}
             \cup {Error("unknown_module", k, t) : t \in asked \ Names}
  BY DEF CollectImports, Reading
<1>2. globs \in Seq(Seq(ModuleId)) /\ pending \in Seq(ImportType)
  BY TypeParts DEF ImportsOK
<1>3. k \in ModuleId
  <2>1. Len(globs) \in Nat
    BY <1>2, LenProperties
  <2> QED
    BY <1>1, <2>1, InvFacts
<1>4. modules[k].items \in Seq(Item) /\ Range(modules[k].items) \subseteq Item
  BY <1>3, InvFacts
<1>5. /\ glob \in Seq(Item)
      /\ Range(glob) = {i \in Range(modules[k].items) :
                          i.k = "glob" /\ i.from # modules[k].name /\ i.from \in Names}
  BY <1>4, ResolvableFacts
<1> HIDE DEF k, glob
<1>6. \A t \in Names : IdOf(t) \in ModuleId
  BY <1>1, CoreIsKnown
<1>7. ids \in Seq(ModuleId)
  <2>1. \A j \in DOMAIN glob : glob[j] \in Range(glob)
    BY DEF Range
  <2>2. ids \in [DOMAIN glob -> ModuleId]
    BY <1>5, <1>6, <2>1
  <2>3. DOMAIN glob = 1 .. Len(glob) /\ Len(glob) \in Nat
    BY <1>5, Ranges
  <2> QED
    BY <2>2, <2>3, SeqDef
<1> HIDE DEF ids
<1>8. pending' \in Seq(ImportType) /\ Range(pending') = Range(pending) \cup Wanted(k)
  <2>1. Requests(k) \in Seq(ImportType) /\ Range(Requests(k)) = Wanted(k)
    BY <1>1, <1>3, RequestsFacts
  <2> QED
    BY <1>1, <1>2, <2>1, ConcatFacts
<1>9. /\ globs' \in Seq(Seq(ModuleId)) /\ Len(globs') = k /\ DOMAIN globs' = DOMAIN globs \cup {k}
       /\ k \notin DOMAIN globs
  BY <1>1, <1>2, <1>7, AppendFacts DEF k
<1>10. errors' = {} => \A i \in Asked(k) : i.from \in Names
  <2>1. \A i \in Asked(k) : i.from \in asked
    BY DEF Asked, Range
  <2> HIDE DEF asked
  <2> QED
    BY <1>1, <2>1
<1>11. errors \subseteq errors'
  BY <1>1
<1>12. \A e \in errors' : e \in errors \/ e.err \in {"self_import", "unknown_module"}
  <2> HIDE DEF asked
  <2> QED
    BY <1>1 DEF Error
<1> QED
  BY <1>3, <1>8, <1>9, <1>10, <1>11, <1>12 DEF k

LEMMA RegisterEffect ==
  ASSUME TypeInv, RegisterNames
  PROVE  LET k == Len(direct) + 1 IN
         /\ k \in ModuleId /\ k \notin DOMAIN direct
         /\ direct' \in Seq(Scope) /\ imported' \in Seq(SUBSET Symbol)
         /\ Len(direct') = k /\ Len(imported') = k
         /\ DOMAIN direct' = DOMAIN direct \cup {k}
         /\ DOMAIN direct'[k] = Defined(k) /\ imported'[k] = {}
         /\ \A n \in Defined(k) : direct'[k][n] = [mod |-> k, name |-> n]
         /\ \A j \in DOMAIN direct : direct'[j] = direct[j] /\ imported'[j] = imported[j]
         /\ errors \subseteq errors'
         /\ \A e \in errors' : e \in errors \/ e.err = "duplicate_name"
<1> DEFINE k == Len(direct) + 1
           s == [n \in Defined(k) |-> [mod |-> k, name |-> n]]
<1>1. /\ Len(direct) < Len(modules) /\ direct' = Append(direct, s)
      /\ imported' = Append(imported, {})
      /\ errors' = errors \cup
           {Error("duplicate_name", k, n) : n \in {m \in Symbol : Cardinality(Defines(k, m)) > 1}}
  BY DEF RegisterNames
<1>2. /\ direct \in Seq(Scope) /\ imported \in Seq(SUBSET Symbol) /\ Len(imported) = Len(direct)
  BY TypeParts DEF ScopesTyped, ScopesOK
<1>3. Len(direct) \in Nat /\ DOMAIN imported = DOMAIN direct
  BY <1>2, LenProperties
<1>4. k \in ModuleId
  BY <1>1, <1>3, InvFacts
<1> HIDE DEF k
<1>5. s \in Scope
  <2>1. Defined(k) \in SUBSET Symbol
    BY DEF Defined
  <2>2. \A n \in Defined(k) : [mod |-> k, name |-> n] \in Meaning
    BY <1>4, <2>1 DEF Meaning
  <2>3. s \in [Defined(k) -> Meaning]
    BY <2>2
  <2> QED
    BY <2>1, <2>3 DEF Scope
<1>6. DOMAIN s = Defined(k) /\ \A n \in Defined(k) : s[n] = [mod |-> k, name |-> n]
  OBVIOUS
<1> HIDE DEF s
<1>7. /\ direct' \in Seq(Scope) /\ Len(direct') = k /\ DOMAIN direct' = DOMAIN direct \cup {k}
      /\ k \notin DOMAIN direct /\ direct'[k] = s
      /\ \A j \in DOMAIN direct : direct'[j] = direct[j]
  BY <1>1, <1>2, <1>5, AppendFacts DEF k
<1>8. /\ imported' \in Seq(SUBSET Symbol) /\ Len(imported') = k /\ imported'[k] = {}
      /\ \A j \in DOMAIN direct : imported'[j] = imported[j]
  <2>1. {} \in SUBSET Symbol
    OBVIOUS
  <2> QED
    BY <1>1, <1>2, <1>3, <2>1, AppendFacts DEF k
<1>9. errors \subseteq errors' /\ \A e \in errors' : e \in errors \/ e.err = "duplicate_name"
  BY <1>1 DEF Error
<1> QED
  BY <1>4, <1>6, <1>7, <1>8, <1>9 DEF k

(* The request that is finalized is typed, and both its modules have their scopes. *)
LEMMA HeadRequest ==
  ASSUME TypeInv, Finalizing
  PROVE  /\ P \in ImportType /\ P.importer \in ModuleId /\ P.source \in ModuleId
         /\ P.name \in Symbol /\ P.as \in Symbol
         /\ ~ Reading /\ DOMAIN direct = ModuleId /\ DOMAIN imported = ModuleId
         /\ P \in Range(pending) /\ Range(pending) = {P} \cup Range(Tail(pending))
         /\ Tail(pending) \in Seq(ImportType)
         /\ Found => Entry \in Meaning /\ Entry.name \in Defined(Entry.mod)
<1>1. pending \in Seq(ImportType) /\ pending # <<>>
  BY TypeParts DEF ImportsOK, Finalizing
<1>2. P \in ImportType /\ Tail(pending) \in Seq(ImportType)
      /\ Range(pending) = {P} \cup Range(Tail(pending))
  BY <1>1, HeadTailFacts DEF P
<1>3. /\ P.importer \in ModuleId /\ P.source \in ModuleId
      /\ P.name \in Symbol /\ P.as \in Symbol
  BY <1>2 DEF ImportType
<1>4. ~ Reading /\ Len(direct) = Len(modules) /\ Len(imported) = Len(direct)
      /\ direct \in Seq(Scope) /\ imported \in Seq(SUBSET Symbol)
  BY TypeParts DEF Phases, Finalizing, Reading, ScopesOK, ScopesTyped
<1>5. DOMAIN direct = ModuleId /\ DOMAIN imported = ModuleId
  BY <1>4, InvFacts, LenProperties
<1>6. Found => Entry \in Meaning /\ Entry.name \in Defined(Entry.mod)
  BY <1>3, <1>5, TypeParts DEF Found, Entry, ScopesOK
<1> QED
  BY <1>2, <1>3, <1>4, <1>5, <1>6

LEMMA ImportEffect ==
  ASSUME TypeInv, ImportSymbol
  PROVE  /\ Finalizing /\ Found /\ P.as \notin DOMAIN direct[P.importer]
         /\ direct' \in Seq(Scope) /\ imported' \in Seq(SUBSET Symbol)
         /\ Len(direct') = Len(direct) /\ Len(imported') = Len(imported)
         /\ DOMAIN direct' = DOMAIN direct
         /\ DOMAIN direct'[P.importer] = DOMAIN direct[P.importer] \cup {P.as}
         /\ imported'[P.importer] = imported[P.importer] \cup {P.as}
         /\ direct'[P.importer][P.as] = Entry
         /\ \A n \in DOMAIN direct[P.importer] : direct'[P.importer][n] = direct[P.importer][n]
         /\ \A j \in DOMAIN direct \ {P.importer} :
              direct'[j] = direct[j] /\ imported'[j] = imported[j]
<1> DEFINE k == P.importer
           s == Bind(k, P.as, Entry)
           i == imported[k] \cup {P.as}
<1>1. /\ Finalizing /\ Found /\ P.as \notin DOMAIN direct[k]
      /\ direct' = [direct EXCEPT ![k] = s] /\ imported' = [imported EXCEPT ![k] = i]
  BY DEF ImportSymbol, Taken
<1>2. /\ direct \in Seq(Scope) /\ imported \in Seq(SUBSET Symbol) /\ Len(imported) = Len(direct)
  BY TypeParts DEF ScopesTyped, ScopesOK
<1>3. k \in DOMAIN direct /\ k \in DOMAIN imported /\ P.as \in Symbol /\ Entry \in Meaning
  BY <1>1, HeadRequest
<1>4. PICK N \in SUBSET Symbol : direct[k] \in [N -> Meaning]
  <2>1. direct[k] \in Scope
    BY <1>2, <1>3, Ranges
  <2> QED
    BY ONLY <2>1 DEF Scope
<1>5. imported[k] \subseteq Symbol
  BY <1>2, <1>3, Ranges
<1>6. DOMAIN s = DOMAIN direct[k] \cup {P.as} /\ s[P.as] = Entry
      /\ \A n \in DOMAIN direct[k] : s[n] = direct[k][n]
  BY <1>1 DEF Bind
<1>7. s \in Scope
  <2>1. s \in [N \cup {P.as} -> Meaning]
    BY <1>3, <1>4 DEF Bind
  <2> QED
    BY <1>3, <2>1 DEF Scope
<1>8. i \in SUBSET Symbol
  BY <1>3, <1>5
<1> HIDE DEF k, s, i
<1>9. /\ direct' \in Seq(Scope) /\ Len(direct') = Len(direct) /\ DOMAIN direct' = DOMAIN direct
      /\ direct'[k] = s /\ \A j \in DOMAIN direct : j # k => direct'[j] = direct[j]
  <2>1. k \in 1 .. Len(direct)
    BY <1>2, <1>3, LenProperties
  <2>2. direct' \in Seq(Scope) /\ Len(direct') = Len(direct)
    BY <1>1, <1>2, <1>7, <2>1, ExceptSeq
  <2> QED
    BY <1>1, <1>3, <2>2
<1>10. /\ imported' \in Seq(SUBSET Symbol) /\ Len(imported') = Len(imported)
       /\ imported'[k] = i /\ \A j \in DOMAIN imported : j # k => imported'[j] = imported[j]
  <2>1. k \in 1 .. Len(imported)
    BY <1>2, <1>3, LenProperties
  <2>2. imported' \in Seq(SUBSET Symbol) /\ Len(imported') = Len(imported)
    BY <1>1, <1>2, <1>8, <2>1, ExceptSeq
  <2> QED
    BY <1>1, <1>3, <2>2
<1>11. DOMAIN imported = DOMAIN direct
  BY <1>2, LenProperties
<1> QED
  BY <1>1, <1>6, <1>9, <1>10, <1>11 DEF k, i

-----------------------------------------------------------------------------
(***************************************************************************)
(* The types.                                                               *)
(***************************************************************************)
LEMMA StepCases ==
  ASSUME [Next]_vars
  PROVE  \/ SkipFile \/ MissingFile \/ LoadFile \/ Loaded
         \/ UNCHANGED files /\ (Reading' <=> Reading)
BY DEF Next, vars, CollectImports, NamesNext, RegisterNames, FinalizeNext, UnknownSymbol,
       DuplicateImport, KeepEntry, ImportSymbol, Verdict, LowerCall, LowerCallPanics, Reading,
       Finalizing

LEMMA InitTypes == Init => TypeInv
<1> SUFFICES ASSUME Init PROVE TypeInv
  OBVIOUS
<1>1. FilesOK
  <2>1. /\ disk \in Disks /\ queue = <<Start>> /\ visited = {Core} /\ modules = <<>>
    BY DEF Init
  <2>2. <<Start>> \in Seq(Path) /\ <<>> \in Seq(ModuleType)
    BY EmptySeq, PathsAssumption
  <2> QED
    BY <2>1, <2>2, DisksAssumption, PathsAssumption DEF FilesOK
<1>2. /\ globs = <<>> /\ pending = <<>> /\ direct = <<>> /\ imported = <<>> /\ modules = <<>>
      /\ errors = {} /\ pc = "load"
  BY DEF Init
<1>3. /\ <<>> \in Seq(Seq(ModuleId)) /\ <<>> \in Seq(ImportType) /\ <<>> \in Seq(Scope)
      /\ <<>> \in Seq(SUBSET Symbol)
  BY EmptySeq
<1>4. Len(<<>>) = 0 /\ DOMAIN <<>> = {}
  OBVIOUS
<1>5. ImportsOK
  BY <1>2, <1>3, <1>4 DEF ImportsOK
<1>6. ScopesOK
  BY <1>2, <1>4 DEF ScopesOK
<1>7. ScopesTyped
  BY <1>2, <1>3, <1>4 DEF ScopesTyped
<1>8. Phases
  BY <1>2 DEF Phases, Reading
<1> QED
  BY <1>1, <1>5, <1>6, <1>7, <1>8, TypeParts

LEMMA FilesStep == TypeInv /\ [Next]_vars => FilesOK'
<1> SUFFICES ASSUME TypeInv, [Next]_vars PROVE FilesOK'
  OBVIOUS
<1>0. FilesOK
  BY TypeParts
<1>1. CASE UNCHANGED files
  BY <1>0, <1>1 DEF FilesOK, files, ModuleType
<1>2. CASE SkipFile
  <2>1. queue # <<>> /\ queue' = Below /\ UNCHANGED <<disk, visited, modules>>
    BY <1>2 DEF SkipFile
  <2>2. Below \in Seq(Path)
    BY <1>0, <2>1, PopFacts DEF FilesOK
  <2> QED
    BY <1>0, <2>1, <2>2 DEF FilesOK, ModuleType
<1>3. CASE LoadFile
  <2>1. modules' \in Seq(ModuleType) /\ queue' \in Seq(Path) /\ Popped \in Path
    BY <1>3, LoadFileEffect
  <2>2. visited' = visited \cup {StemOf[Popped]} /\ disk' = disk
    BY <1>3 DEF LoadFile
  <2> QED
    BY <1>0, <2>1, <2>2, PathsAssumption DEF FilesOK, ModuleType
<1>4. CASE Loaded
  <2>1. modules' \in Seq(ModuleType) /\ UNCHANGED <<disk, queue, visited>>
    BY <1>4, LoadedEffect DEF Loaded
  <2> QED
    BY <1>0, <2>1 DEF FilesOK, ModuleType
<1> QED
  BY <1>1, <1>2, <1>3, <1>4, StepCases DEF MissingFile

(* While the files are read there is nothing else. *)
LEMMA NothingYet ==
  ASSUME TypeInv, [Next]_vars, SkipFile \/ MissingFile \/ LoadFile \/ Loaded
  PROVE  /\ globs' = <<>> /\ pending' = <<>> /\ direct' = <<>> /\ imported' = <<>> /\ errors' = {}
         /\ Reading
<1>1. Reading /\ UNCHANGED <<scopes, errors>>
  BY DEF SkipFile, MissingFile, LoadFile, Loaded, Reading
<1> QED
  BY <1>1, TypeParts DEF Phases, scopes

LEMMA ImportsStep == TypeInv /\ [Next]_vars => ImportsOK'
<1> SUFFICES ASSUME TypeInv, [Next]_vars PROVE ImportsOK'
  OBVIOUS
<1>0. ImportsOK
  BY TypeParts
<1>1. CASE SkipFile \/ MissingFile \/ LoadFile \/ Loaded
  <2>1. globs' = <<>> /\ pending' = <<>>
    BY <1>1, NothingYet
  <2>2. modules' \in Seq(ModuleType)'
    BY FilesStep DEF FilesOK
  <2>3. Len(modules') \in Nat
    BY <2>2, LenProperties DEF ModuleType
  <2>4. <<>> \in Seq(Seq(ModuleId')) /\ <<>> \in Seq(ImportType') /\ Len(<<>>) = 0
    BY EmptySeq
  <2> QED
    BY <2>1, <2>3, <2>4 DEF ImportsOK
<1>2. CASE UNCHANGED files /\ UNCHANGED <<globs, pending>>
  BY <1>0, <1>2 DEF ImportsOK, ImportType, ModuleId, files
<1>3. CASE CollectImports
  <2>1. UNCHANGED modules
    BY <1>3 DEF CollectImports, files
  <2>2. /\ globs' \in Seq(Seq(ModuleId)) /\ Len(globs') \in ModuleId
        /\ pending' \in Seq(ImportType)
    BY <1>3, CollectEffect
  <2>3. Len(globs') <= Len(modules)
    BY <2>2, InvFacts
  <2> QED
    BY <2>1, <2>2, <2>3 DEF ImportsOK, ImportType, ModuleId
<1>4. CASE UnknownSymbol \/ DuplicateImport \/ KeepEntry \/ ImportSymbol
  <2>1. UNCHANGED <<modules, globs>> /\ pending' = Tail(pending) /\ Finalizing
    BY <1>4 DEF UnknownSymbol, DuplicateImport, KeepEntry, ImportSymbol, files
  <2>2. Tail(pending) \in Seq(ImportType)
    BY <2>1, HeadRequest
  <2> QED
    BY <1>0, <2>1, <2>2 DEF ImportsOK, ImportType, ModuleId
<1> QED
  BY <1>1, <1>2, <1>3, <1>4 DEF Next, vars, NamesNext, RegisterNames, FinalizeNext, Verdict,
     LowerCall, LowerCallPanics, scopes

LEMMA ScopesStep == TypeInv /\ [Next]_vars => ScopesOK' /\ ScopesTyped'
<1> SUFFICES ASSUME TypeInv, [Next]_vars PROVE ScopesOK' /\ ScopesTyped'
  OBVIOUS
<1>0. ScopesOK /\ ScopesTyped
  BY TypeParts
<1>1. CASE SkipFile \/ MissingFile \/ LoadFile \/ Loaded
  <2>1. direct' = <<>> /\ imported' = <<>>
    BY <1>1, NothingYet
  <2>2. modules' \in Seq(ModuleType)'
    BY FilesStep DEF FilesOK
  <2>3. Len(modules') \in Nat
    BY <2>2, LenProperties DEF ModuleType
  <2>4. <<>> \in Seq(Scope') /\ <<>> \in Seq(SUBSET Symbol) /\ Len(<<>>) = 0 /\ DOMAIN <<>> = {}
    BY EmptySeq
  <2> QED
    BY <2>1, <2>3, <2>4 DEF ScopesOK, ScopesTyped
<1>2. CASE UNCHANGED files /\ UNCHANGED <<direct, imported>>
  <2>1. modules' = modules /\ direct' = direct /\ imported' = imported
    BY <1>2 DEF files
  <2>2. ModuleId' = ModuleId /\ \A k : Defined(k)' = Defined(k)
    BY <2>1 DEF ModuleId, Defined, Defines
  <2>3. Meaning' = Meaning
    BY <2>2 DEF Meaning
  <2>4. Scope' = Scope
    BY <2>3 DEF Scope
  <2>5. ScopesOK'
    BY <1>0, <2>1, <2>2, <2>3 DEF ScopesOK
  <2>6. ScopesTyped'
    BY <1>0, <2>1, <2>2, <2>4 DEF ScopesTyped
  <2> QED
    BY <2>5, <2>6
<1>3. CASE UNCHANGED files /\ (RegisterNames \/ ImportSymbol)
  <2>1. modules' = modules
    BY <1>3 DEF files
  <2>2. ModuleId' = ModuleId /\ \A k : Defined(k)' = Defined(k)
    BY <2>1 DEF ModuleId, Defined, Defines
  <2>3. Meaning' = Meaning
    BY <2>2 DEF Meaning
  <2>4. Scope' = Scope
    BY <2>3 DEF Scope
  <2>5. ASSUME Len(direct') <= Len(modules), Len(imported') = Len(direct'),
               direct' \in Seq(Scope), imported' \in Seq(SUBSET Symbol),
               \A j \in DOMAIN direct' :
                 /\ imported'[j] \subseteq DOMAIN direct'[j] \ Defined(j)
                 /\ DOMAIN direct'[j] = Defined(j) \cup imported'[j]
                 /\ \A n \in DOMAIN direct'[j] :
                      direct'[j][n] \in Meaning /\ direct'[j][n].name \in Defined(direct'[j][n].mod)
        PROVE  ScopesOK' /\ ScopesTyped'
    <3>1. ScopesOK'
      BY <2>1, <2>2, <2>3, <2>5 DEF ScopesOK
    <3>2. ScopesTyped'
      BY <2>2, <2>4, <2>5 DEF ScopesTyped
    <3> QED
      BY <3>1, <3>2
  <2>6. \A j \in DOMAIN direct :
          /\ imported[j] \subseteq DOMAIN direct[j] \ Defined(j)
          /\ DOMAIN direct[j] = Defined(j) \cup imported[j]
          /\ \A n \in DOMAIN direct[j] :
               direct[j][n] \in Meaning /\ direct[j][n].name \in Defined(direct[j][n].mod)
    BY <1>0 DEF ScopesOK, ScopesTyped
  <2>7. CASE RegisterNames
    <3> DEFINE k == Len(direct) + 1
    <3>1. /\ k \in ModuleId /\ k \notin DOMAIN direct
          /\ direct' \in Seq(Scope) /\ imported' \in Seq(SUBSET Symbol)
          /\ Len(direct') = k /\ Len(imported') = k
          /\ DOMAIN direct' = DOMAIN direct \cup {k}
          /\ DOMAIN direct'[k] = Defined(k) /\ imported'[k] = {}
          /\ \A n \in Defined(k) : direct'[k][n] = [mod |-> k, name |-> n]
          /\ \A j \in DOMAIN direct : direct'[j] = direct[j] /\ imported'[j] = imported[j]
      BY <2>7, RegisterEffect
    <3> HIDE DEF k
    <3>2. k <= Len(modules)
      BY <3>1, InvFacts
    <3>3. \A n \in Defined(k) : [mod |-> k, name |-> n] \in Meaning
      BY <3>1 DEF Meaning, Defined
    <3>4. /\ imported'[k] \subseteq DOMAIN direct'[k] \ Defined(k)
          /\ DOMAIN direct'[k] = Defined(k) \cup imported'[k]
          /\ \A n \in DOMAIN direct'[k] :
               direct'[k][n] \in Meaning /\ direct'[k][n].name \in Defined(direct'[k][n].mod)
      <4>1. \A n \in Defined(k) :
              [mod |-> k, name |-> n].name = n /\ [mod |-> k, name |-> n].mod = k
        OBVIOUS
      <4>2. /\ DOMAIN direct'[k] = Defined(k) /\ imported'[k] = {}
            /\ \A n \in Defined(k) : direct'[k][n] = [mod |-> k, name |-> n]
        BY <3>1
      <4>3. ASSUME NEW n \in Defined(k)
            PROVE  direct'[k][n] \in Meaning /\ direct'[k][n].name = n /\ direct'[k][n].mod = k
        <5> DEFINE r == [mod |-> k, name |-> n]
        <5>1. direct'[k][n] = r
          BY <4>2
        <5>2. r \in Meaning /\ r.name = n /\ r.mod = k
          BY <3>3
        <5> HIDE DEF r
        <5> QED
          BY ONLY <5>1, <5>2
      <4> QED
        BY ONLY <4>2, <4>3
    <3>5. \A j \in DOMAIN direct' :
            /\ imported'[j] \subseteq DOMAIN direct'[j] \ Defined(j)
            /\ DOMAIN direct'[j] = Defined(j) \cup imported'[j]
            /\ \A n \in DOMAIN direct'[j] :
                 direct'[j][n] \in Meaning /\ direct'[j][n].name \in Defined(direct'[j][n].mod)
      BY <2>6, <3>1, <3>4
    <3> QED
      BY <2>5, <3>1, <3>2, <3>5
  <2>8. CASE ImportSymbol
    <3> DEFINE k == P.importer
               a == P.as
    <3>1. /\ a \notin DOMAIN direct[k]
          /\ direct' \in Seq(Scope) /\ imported' \in Seq(SUBSET Symbol)
          /\ Len(direct') = Len(direct) /\ Len(imported') = Len(imported)
          /\ DOMAIN direct' = DOMAIN direct
          /\ DOMAIN direct'[k] = DOMAIN direct[k] \cup {a}
          /\ imported'[k] = imported[k] \cup {a}
          /\ direct'[k][a] = Entry
          /\ \A n \in DOMAIN direct[k] : direct'[k][n] = direct[k][n]
          /\ \A j \in DOMAIN direct \ {k} : direct'[j] = direct[j] /\ imported'[j] = imported[j]
      BY <2>8, ImportEffect
    <3>2. k \in DOMAIN direct /\ Entry \in Meaning /\ Entry.name \in Defined(Entry.mod)
      BY <2>8, ImportEffect, HeadRequest
    <3> HIDE DEF k, a
    <3>3. /\ imported'[k] \subseteq DOMAIN direct'[k] \ Defined(k)
          /\ DOMAIN direct'[k] = Defined(k) \cup imported'[k]
      <4>1. /\ imported[k] \subseteq DOMAIN direct[k] \ Defined(k)
            /\ DOMAIN direct[k] = Defined(k) \cup imported[k]
        BY <2>6, <3>2
      <4>2. a \notin Defined(k)
        BY <3>1, <4>1
      <4> QED
        BY <3>1, <4>1, <4>2
    <3>4. \A n \in DOMAIN direct'[k] :
            direct'[k][n] \in Meaning /\ direct'[k][n].name \in Defined(direct'[k][n].mod)
      BY <2>6, <3>1, <3>2
    <3>5. \A j \in DOMAIN direct' :
            /\ imported'[j] \subseteq DOMAIN direct'[j] \ Defined(j)
            /\ DOMAIN direct'[j] = Defined(j) \cup imported'[j]
            /\ \A n \in DOMAIN direct'[j] :
                 direct'[j][n] \in Meaning /\ direct'[j][n].name \in Defined(direct'[j][n].mod)
      <4>1. \A j \in DOMAIN direct \ {k} : direct'[j] = direct[j] /\ imported'[j] = imported[j]
        BY <3>1
      <4>2. DOMAIN direct' = DOMAIN direct
        BY <3>1
      <4> QED
        BY ONLY <2>6, <3>3, <3>4, <4>1, <4>2
    <3>6. Len(direct') <= Len(modules) /\ Len(imported') = Len(direct')
      BY <1>0, <3>1 DEF ScopesOK
    <3> QED
      BY <2>5, <3>1, <3>5, <3>6
  <2> QED
    BY <1>3, <2>7, <2>8
<1> QED
  BY <1>1, <1>2, <1>3 DEF Next, vars, CollectImports, NamesNext, RegisterNames, FinalizeNext,
     UnknownSymbol, DuplicateImport, KeepEntry, ImportSymbol, Verdict, LowerCall, LowerCallPanics,
     scopes

LEMMA PhasesStep == TypeInv /\ [Next]_vars => Phases'
<1> SUFFICES ASSUME TypeInv, [Next]_vars PROVE Phases'
  OBVIOUS
<1>0. Phases
  BY TypeParts
<1>1. CASE SkipFile \/ MissingFile \/ LoadFile
  <2>1. pc' \in {"load", "unreadable"}
    BY <1>1 DEF SkipFile, MissingFile, LoadFile
  <2> QED
    BY <1>1, <2>1, NothingYet DEF Phases, Reading
<1>2. CASE Loaded
  <2>1. pc' = "imports" /\ queue' = <<>>
    BY <1>2 DEF Loaded
  <2> QED
    BY <1>2, <2>1, NothingYet, LoadedEffect DEF Phases, Reading, CoreModule
<1>3. CASE CollectImports
  BY <1>0, <1>3 DEF CollectImports, Phases, Reading, files
<1>4. CASE NamesNext \/ FinalizeNext \/ Verdict \/ LowerCall \/ LowerCallPanics
  BY <1>0, <1>4 DEF NamesNext, FinalizeNext, Verdict, LowerCall, LowerCallPanics, Phases, Reading,
     files, scopes
<1>5. CASE RegisterNames
  BY <1>0, <1>5 DEF RegisterNames, Phases, Reading, files
<1>6. CASE UnknownSymbol \/ DuplicateImport \/ KeepEntry
  BY <1>0, <1>6 DEF UnknownSymbol, DuplicateImport, KeepEntry, Finalizing, Phases, Reading, files
<1>7. CASE ImportSymbol
  <2>1. Len(direct') = Len(direct)
    BY <1>7, ImportEffect
  <2> QED
    BY <1>0, <1>7, <2>1 DEF ImportSymbol, Finalizing, Phases, Reading, files
<1>8. CASE UNCHANGED vars
  BY <1>0, <1>8 DEF vars, files, scopes, Phases, Reading
<1> QED
  BY <1>1, <1>2, <1>3, <1>4, <1>5, <1>6, <1>7, <1>8 DEF Next

LEMMA TypeStep == TypeInv /\ [Next]_vars => TypeInv'
<1> SUFFICES ASSUME TypeInv, [Next]_vars PROVE TypeInv'
  OBVIOUS
<1>1. FilesOK' /\ ImportsOK' /\ ScopesOK' /\ ScopesTyped' /\ Phases'
  BY FilesStep, ImportsStep, ScopesStep, PhasesStep
<1> QED
  BY <1>1, TypeParts DEF TypeInv, TypeOK, FilesOK, ImportsOK, ScopesOK, ModuleType, ImportType

(***************************************************************************)
(* Every entry of a scope leads to a definition that is there, and the        *)
(* requests and scopes name modules that exist, whatever the files (Front,      *)
(* TypeOK).                                                                 *)
(***************************************************************************)
THEOREM TypeCorrect == Spec => []TypeOK
<1>1. TypeInv => TypeOK
  BY DEF TypeInv
<1> QED
  BY <1>1, InitTypes, TypeStep, PTL DEF Spec

-----------------------------------------------------------------------------
(***************************************************************************)
(* Loading.  A module has the stem of its file for a name, and the stems that *)
(* have been visited are the names; what is asked for is known by name, or    *)
(* read under its stem, or on the queue; and what is read or on the queue was  *)
(* asked for.                                                               *)
(***************************************************************************)
Imports(m)  == {i \in Range(m.items) : IsImport(i)}
Comes(q, m) == \E i \in Imports(m) : Join[m.path][i.from] = q

Files ==
  /\ visited = {Core} \cup {modules[k].name : k \in ModuleId}
  /\ \A k \in ModuleId : modules[k].path = Core <=> (k = 1 /\ ~ Reading)
  /\ \A k \in ModuleId : modules[k].path # Core =>
       modules[k].name = StemOf[modules[k].path] /\ modules[k].name # Core

DistinctNames == \A i, j \in ModuleId : modules[i].name = modules[j].name => i = j

NothingMissed ==
  \A k \in ModuleId : \A i \in Imports(modules[k]) :
    \/ i.from \in visited
    \/ StemOf[Join[modules[k].path][i.from]] \in visited
    \/ Join[modules[k].path][i.from] \in Range(queue)

NothingExtra ==
  /\ \A k \in ModuleId :
       modules[k].path \in {Start, Core} \/ \E j \in 1 .. k - 1 : Comes(modules[k].path, modules[j])
  /\ \A q \in Range(queue) : q = Start \/ \E k \in ModuleId : Comes(q, modules[k])

(* A path in the directory of the first file.  As long as nobody has imported a    *)
(* text that is no stem, only such paths are met.                              *)
Stems     == {StemOf[r] : r \in Path}
Beside(q) == Join[Start][StemOf[q]] = q /\ \A u \in Target : Join[q][u] = Join[Start][u]
Elsewhere == \E k \in ModuleId : \E i \in Imports(modules[k]) : i.from \notin Stems \cup {Core}

Places ==
  StartIsOf =>
    \/ Elsewhere
    \/ /\ \A k \in ModuleId : modules[k].path # Core => Beside(modules[k].path)
       /\ \A q \in Range(queue) : Beside(q)

LoadInv == TypeInv /\ Files /\ DistinctNames /\ NothingMissed /\ NothingExtra /\ Places

LEMMA AskedIs == \A k : Asked(k) = Imports(modules[k])
BY DEF Asked, Imports

LEMMA CoreAsksNothing == Imports(CoreModule) = {}
BY CoreItemTypes DEF Imports, CoreModule

LEMMA ImportFacts ==
  ASSUME TypeInv, Files, NEW k \in ModuleId, NEW i \in Imports(modules[k])
  PROVE  /\ i \in Item /\ IsImport(i) /\ i.from \in Target
         /\ modules[k].path \in Path /\ Join[modules[k].path][i.from] \in Path
<1>1. i \in Item /\ IsImport(i)
  BY InvFacts DEF Imports
<1>2. i.from \in Target
  BY <1>1, ItemTypes
<1>3. modules[k].path # Core
  <2> SUFFICES ASSUME modules[k].path = Core PROVE FALSE
    OBVIOUS
  <2>1. k = 1 /\ ~ Reading
    BY DEF Files
  <2>2. modules[k] = CoreModule
    BY <2>1, CoreIsKnown
  <2> QED
    BY <2>2, CoreAsksNothing
<1>4. modules[k].path \in Path
  BY <1>3, InvFacts
<1> QED
  BY <1>1, <1>2, <1>4, PathsAssumption

LEMMA NoneLeft ==
  /\ Range(<<>>) = {}
  /\ \A x : Range(<<x>>) = {x}
<1>1. DOMAIN <<>> = {}
  OBVIOUS
<1>2. Range(<<>>) = {}
  BY <1>1, InRange
<1>3. ASSUME NEW x
      PROVE  Range(<<x>>) = {x}
  <2>1. DOMAIN <<x>> = {1} /\ <<x>>[1] = x
    OBVIOUS
  <2> DEFINE s == <<x>>
  <2>2. DOMAIN s = {1} /\ s[1] = x
    BY <2>1
  <2> HIDE DEF s
  <2>3. \A y : y \in Range(s) <=> y = x
    BY ONLY <2>2, InRange
  <2>4. Range(s) = {x}
    BY ONLY <2>3
  <2> QED
    BY <2>4 DEF s
<1> QED
  BY <1>2, <1>3

LEMMA InitLoad == Init => LoadInv
<1> SUFFICES ASSUME Init PROVE LoadInv
  OBVIOUS
<1>1. /\ queue = <<Start>> /\ visited = {Core} /\ modules = <<>> /\ TypeInv
  BY InitTypes DEF Init
<1>2. ModuleId = {} /\ Range(queue) = {Start}
  BY <1>1, NoneLeft DEF ModuleId
<1>3. Files /\ DistinctNames /\ NothingMissed /\ NothingExtra
  BY <1>1, <1>2 DEF Files, DistinctNames, NothingMissed, NothingExtra
<1>4. StartIsOf => Beside(Start)
  BY DEF StartIsOf, Beside
<1>5. Places
  BY <1>2, <1>4 DEF Places
<1> QED
  BY <1>1, <1>3, <1>5 DEF LoadInv

LEMMA SkipLoad ==
  ASSUME LoadInv, SkipFile
  PROVE  Files' /\ DistinctNames' /\ NothingMissed' /\ NothingExtra' /\ Places'
<1>1. /\ queue # <<>> /\ StemOf[Popped] \in visited /\ queue' = Below
      /\ visited' = visited /\ modules' = modules /\ pc' = pc
  BY DEF SkipFile
<1>2. Range(queue) = Range(queue') \cup {Popped}
  BY <1>1, PopFacts, InvFacts DEF LoadInv
<1>3. ModuleId' = ModuleId /\ (Reading' <=> Reading)
  BY <1>1 DEF ModuleId, Reading
<1>4. Files' /\ DistinctNames'
  BY <1>1, <1>3 DEF LoadInv, Files, DistinctNames
<1>5. NothingMissed'
  BY <1>1, <1>2, <1>3 DEF LoadInv, NothingMissed
<1>6. NothingExtra'
  BY <1>1, <1>2, <1>3 DEF LoadInv, NothingExtra
<1>7. Places'
  BY <1>1, <1>2, <1>3 DEF LoadInv, Places, Elsewhere
<1> QED
  BY <1>4, <1>5, <1>6, <1>7

LEMMA FileLoad ==
  ASSUME LoadInv, LoadFile
  PROVE  Files' /\ DistinctNames' /\ NothingMissed' /\ NothingExtra' /\ Places'
<1> DEFINE n == Len(modules) + 1
           m == modules'[n]
           s == StemOf[Popped]
<1>1. /\ Popped \in Path /\ Popped \in Range(queue) /\ n \notin ModuleId
      /\ ModuleId' = ModuleId \cup {n}
      /\ \A k \in ModuleId : modules'[k] = modules[k] /\ k < n
      /\ m = [name |-> s, path |-> Popped, items |-> disk[Popped]]
      /\ \A q \in Range(queue') : q \in Range(queue) \/
           \E i \in Range(disk[Popped]) :
             IsImport(i) /\ i.from \notin visited' /\ q = Join[Popped][i.from]
      /\ \A q \in Range(queue) : q = Popped \/ q \in Range(queue')
      /\ \A i \in Range(disk[Popped]) :
           IsImport(i) /\ i.from \notin visited' => Join[Popped][i.from] \in Range(queue')
  BY LoadFileEffect DEF LoadInv
<1>2. s \notin visited /\ visited' = visited \cup {s} /\ pc' = pc /\ pc = "load"
  BY DEF LoadFile
<1>3. Reading /\ Reading'
  BY <1>2 DEF Reading
<1>4. /\ visited = {Core} \cup {modules[k].name : k \in ModuleId}
      /\ \A k \in ModuleId : /\ modules[k].path # Core /\ modules[k].name # Core
                             /\ modules[k].name = StemOf[modules[k].path]
  BY <1>3 DEF LoadInv, Files
<1>5. ModuleId \subseteq Nat \ {0} /\ n \in Nat /\ \A k \in ModuleId : k \in 1 .. n - 1
  BY InvFacts DEF LoadInv
<1> HIDE DEF n, s
<1>6. m.name = s /\ m.path = Popped /\ m.items = disk[Popped]
  BY <1>1
<1> HIDE DEF m
<1>7. Imports(m) = {i \in Range(disk[Popped]) : IsImport(i)}
  BY <1>6 DEF Imports
<1>8. n \in ModuleId' /\ modules'[n] = m /\ \A k \in ModuleId' : k \in ModuleId \/ k = n
  BY <1>1 DEF m
<1>9. Popped # Core /\ s # Core
  BY <1>1, <1>2, <1>4, PathsAssumption
<1>10. Files'
  <2>1. \A x : x \in visited' <=> x = Core \/ \E k \in ModuleId' : x = modules'[k].name
    BY <1>1, <1>2, <1>4, <1>6, <1>8
  <2>2. visited' = {Core} \cup {modules'[k].name : k \in ModuleId'}
    BY ONLY <2>1
  <2>3. \A k \in ModuleId' : /\ modules'[k].path # Core /\ modules'[k].name # Core
                             /\ modules'[k].name = StemOf[modules'[k].path]
    BY <1>1, <1>4, <1>6, <1>8, <1>9 DEF s
  <2> QED
    BY <1>3, <2>2, <2>3 DEF Files
<1>11. DistinctNames'
  <2>1. \A k \in ModuleId : modules'[k].name = modules[k].name /\ modules[k].name # s
    BY <1>1, <1>2, <1>4
  <2>2. \A i, j \in ModuleId : modules[i].name = modules[j].name => i = j
    BY DEF LoadInv, DistinctNames
  <2>3. \A i, j \in ModuleId' : modules'[i].name = modules'[j].name => i = j
    BY <1>6, <1>8, <2>1, <2>2
  <2> QED
    BY <2>3 DEF DistinctNames
<1>12. NothingMissed'
  <2>1. ASSUME NEW k \in ModuleId, NEW i \in Imports(modules[k])
        PROVE  \/ i.from \in visited'
               \/ StemOf[Join[modules[k].path][i.from]] \in visited'
               \/ Join[modules[k].path][i.from] \in Range(queue')
    <3>1. \/ i.from \in visited
          \/ StemOf[Join[modules[k].path][i.from]] \in visited
          \/ Join[modules[k].path][i.from] \in Range(queue)
      BY DEF LoadInv, NothingMissed
    <3>2. Join[modules[k].path][i.from] = Popped \/ Join[modules[k].path][i.from] \in Range(queue')
          \/ ~ (Join[modules[k].path][i.from] \in Range(queue))
      BY <1>1
    <3> QED
      BY <1>2, <3>1, <3>2 DEF s
  <2>2. \A i \in Imports(m) : i.from \in visited' \/ Join[Popped][i.from] \in Range(queue')
    BY <1>1, <1>7
  <2>3. \A k \in ModuleId' : \A i \in Imports(modules'[k]) :
          \/ i.from \in visited'
          \/ StemOf[Join[modules'[k].path][i.from]] \in visited'
          \/ Join[modules'[k].path][i.from] \in Range(queue')
    <3> SUFFICES ASSUME NEW k \in ModuleId', NEW i \in Imports(modules'[k])
                 PROVE  \/ i.from \in visited'
                        \/ StemOf[Join[modules'[k].path][i.from]] \in visited'
                        \/ Join[modules'[k].path][i.from] \in Range(queue')
      OBVIOUS
    <3>1. CASE k \in ModuleId
      <4>1. modules'[k] = modules[k]
        BY <1>1, <3>1
      <4> QED
        BY <2>1, <3>1, <4>1
    <3>2. CASE k = n
      BY <1>6, <1>8, <2>2, <3>2
    <3> QED
      BY <1>8, <3>1, <3>2
  <2> QED
    BY <2>3 DEF NothingMissed
<1>13. NothingExtra'
  <2>1. /\ \A k \in ModuleId :
             modules[k].path \in {Start, Core} \/ \E j \in 1 .. k - 1 : Comes(modules[k].path, modules[j])
        /\ \A q \in Range(queue) : q = Start \/ \E k \in ModuleId : Comes(q, modules[k])
    BY DEF LoadInv, NothingExtra
  <2>2. \A k \in ModuleId : \A j \in 1 .. k - 1 : j \in ModuleId
    BY InvFacts DEF LoadInv
  <2>3. ASSUME NEW k \in ModuleId'
        PROVE  modules'[k].path \in {Start, Core}
               \/ \E j \in 1 .. k - 1 : Comes(modules'[k].path, modules'[j])
    <3>1. CASE k \in ModuleId
      BY <1>1, <2>1, <2>2, <3>1
    <3>2. CASE k = n
      <4>1. Popped = Start \/ \E j \in ModuleId : Comes(Popped, modules[j])
        BY <1>1, <2>1
      <4>2. \A j \in ModuleId : j \in 1 .. n - 1 /\ modules'[j] = modules[j]
        BY <1>1, <1>5
      <4>3. modules'[k].path = Popped
        BY <1>6, <1>8, <3>2
      <4> QED
        BY <3>2, <4>1, <4>2, <4>3
    <3> QED
      BY <1>8, <3>1, <3>2
  <2>4. ASSUME NEW q \in Range(queue')
        PROVE  q = Start \/ \E k \in ModuleId' : Comes(q, modules'[k])
    <3>1. CASE q \in Range(queue)
      BY <1>1, <2>1, <3>1
    <3>2. ASSUME NEW i \in Range(disk[Popped]), IsImport(i), q = Join[Popped][i.from]
          PROVE  Comes(q, m)
      BY <1>6, <1>7, <3>2 DEF Comes
    <3> QED
      BY <1>1, <1>8, <3>1, <3>2
  <2> QED
    BY <2>3, <2>4 DEF NothingExtra
<1>14. Places'
  <2> SUFFICES ASSUME StartIsOf, ~ Elsewhere'
               PROVE  /\ \A k \in ModuleId' : modules'[k].path # Core => Beside(modules'[k].path)
                      /\ \A q \in Range(queue') : Beside(q)
    BY DEF Places, Beside, StartIsOf
  <2>1. /\ \A k \in ModuleId : \A i \in Imports(modules[k]) : i.from \in Stems \cup {Core}
        /\ \A i \in Imports(m) : i.from \in Stems \cup {Core}
    BY <1>1, <1>8 DEF Elsewhere, Stems
  <2>2. /\ \A k \in ModuleId : modules[k].path # Core => Beside(modules[k].path)
        /\ \A q \in Range(queue) : Beside(q)
    BY <2>1 DEF LoadInv, Places, Elsewhere
  <2>3. Beside(Popped)
    BY <1>1, <2>2
  <2>4. ASSUME NEW i \in Imports(m), i.from \notin visited'
        PROVE  Beside(Join[Popped][i.from])
    <3>1. i.from \in Stems
      BY <1>2, <1>4, <2>1, <2>4
    <3>2. i.from \in Target
      BY <3>1, PathsAssumption DEF Stems
    <3>3. /\ StemOf[Join[Popped][i.from]] = i.from
          /\ \A u \in Target : Join[Join[Popped][i.from]][u] = Join[Popped][u]
      BY <1>1, <3>1, JoinAssumption DEF Stems
    <3>4. \A u \in Target : Join[Popped][u] = Join[Start][u]
      BY <2>3 DEF Beside
    <3> QED
      BY <3>2, <3>3, <3>4 DEF Beside
  <2>5. \A k \in ModuleId' : modules'[k].path # Core => Beside(modules'[k].path)
    BY <1>1, <1>6, <1>8, <2>2, <2>3
  <2>6. \A q \in Range(queue') : Beside(q)
    BY <1>1, <1>7, <2>2, <2>4
  <2> QED
    BY <2>5, <2>6
<1> QED
  BY <1>10, <1>11, <1>12, <1>13, <1>14

LEMMA CoreLoad ==
  ASSUME LoadInv, Loaded
  PROVE  Files' /\ DistinctNames' /\ NothingMissed' /\ NothingExtra' /\ Places'
<1>1. /\ 1 \in ModuleId' /\ modules'[1] = CoreModule
      /\ \A k \in ModuleId : k + 1 \in ModuleId' /\ modules'[k + 1] = modules[k]
      /\ \A k \in ModuleId' \ {1} : k - 1 \in ModuleId /\ modules'[k] = modules[k - 1]
      /\ ModuleId' \subseteq Nat \ {0}
  BY LoadedEffect DEF LoadInv
<1>2. queue = <<>> /\ queue' = queue /\ visited' = visited /\ Reading /\ ~ Reading'
  BY DEF Loaded, Reading
<1>3. Range(queue) = {}
  BY <1>2, NoneLeft
<1>4. /\ visited = {Core} \cup {modules[k].name : k \in ModuleId}
      /\ \A k \in ModuleId : /\ modules[k].path # Core /\ modules[k].name # Core
                             /\ modules[k].name = StemOf[modules[k].path]
  BY <1>2 DEF LoadInv, Files
<1>5. CoreModule.name = Core /\ CoreModule.path = Core /\ Imports(CoreModule) = {}
  BY CoreAsksNothing DEF CoreModule
<1>6. ModuleId \subseteq Nat \ {0}
  BY InvFacts DEF LoadInv
<1>7. Files'
  <2>1. ASSUME NEW k \in ModuleId
        PROVE  modules[k].name \in {modules'[j].name : j \in ModuleId'}
    <3>1. k + 1 \in ModuleId' /\ modules'[k + 1].name = modules[k].name
      BY <1>1
    <3> QED
      BY ONLY <3>1
  <2>2. ASSUME NEW k \in ModuleId' \ {1}
        PROVE  /\ modules'[k].name \in visited
               /\ modules'[k].path # Core /\ modules'[k].name # Core
               /\ modules'[k].name = StemOf[modules'[k].path]
    <3>1. k - 1 \in ModuleId /\ modules'[k] = modules[k - 1]
      BY <1>1
    <3> DEFINE j == k - 1
    <3>2. j \in ModuleId /\ modules'[k] = modules[j]
      BY <3>1
    <3> HIDE DEF j
    <3> QED
      BY <1>4, <3>2
  <2>3. visited' = {Core} \cup {modules'[k].name : k \in ModuleId'}
    BY <1>1, <1>2, <1>4, <1>5, <2>1, <2>2
  <2> QED
    BY <1>1, <1>2, <1>5, <2>2, <2>3 DEF Files
<1>8. DistinctNames'
  <2>1. \A i, j \in ModuleId : modules[i].name = modules[j].name => i = j
    BY DEF LoadInv, DistinctNames
  <2>2. ASSUME NEW i \in ModuleId' \ {1}, NEW j \in ModuleId' \ {1},
               modules'[i].name = modules'[j].name
        PROVE  i = j
    <3>1. i - 1 = j - 1
      BY <1>1, <2>1, <2>2
    <3>2. i \in Nat /\ j \in Nat
      BY <1>1
    <3> QED
      BY ONLY <3>1, <3>2
  <2>3. ASSUME NEW i \in ModuleId' \ {1}
        PROVE  modules'[i].name # modules'[1].name
    <3>1. PICK k \in ModuleId : modules'[i] = modules[k]
      BY <1>1
    <3>2. modules[k].name # Core
      BY <1>4
    <3>3. modules'[1].name = Core
      BY <1>1, <1>5
    <3> QED
      BY <3>1, <3>2, <3>3
  <2>4. \A i, j \in ModuleId' : modules'[i].name = modules'[j].name => i = j
    BY <2>2, <2>3
  <2> QED
    BY <2>4 DEF DistinctNames
<1>9. NothingMissed'
  <2>1. \A k \in ModuleId : \A i \in Imports(modules[k]) :
          i.from \in visited \/ StemOf[Join[modules[k].path][i.from]] \in visited
    BY <1>3 DEF LoadInv, NothingMissed
  <2>2. \A k \in ModuleId' : \A i \in Imports(modules'[k]) :
          i.from \in visited' \/ StemOf[Join[modules'[k].path][i.from]] \in visited'
    BY <1>1, <1>2, <1>5, <2>1
  <2> QED
    BY <2>2 DEF NothingMissed
<1>10. NothingExtra'
  <2>1. \A k \in ModuleId :
          modules[k].path \in {Start, Core} \/ \E j \in 1 .. k - 1 : Comes(modules[k].path, modules[j])
    BY DEF LoadInv, NothingExtra
  <2>2. ASSUME NEW k \in ModuleId' \ {1}, modules'[k].path \notin {Start, Core}
        PROVE  \E j \in 1 .. k - 1 : Comes(modules'[k].path, modules'[j])
    <3>1. k - 1 \in ModuleId /\ modules'[k] = modules[k - 1] /\ k \in Nat
      BY <1>1
    <3>2. PICK j \in 1 .. k - 1 - 1 : Comes(modules[k - 1].path, modules[j])
      BY <2>1, <2>2, <3>1
    <3>3. j \in ModuleId /\ j + 1 \in 1 .. k - 1
      BY <3>1, <3>2, InvFacts DEF LoadInv
    <3>4. Comes(modules'[k].path, modules'[j + 1])
      BY <1>1, <3>1, <3>2, <3>3
    <3> QED
      BY <3>3, <3>4
  <2>3. modules'[1].path \in {Start, Core}
    BY <1>1, <1>5
  <2> QED
    BY <1>2, <1>3, <2>2, <2>3 DEF NothingExtra
<1>11. Places'
  <2> SUFFICES ASSUME StartIsOf, ~ Elsewhere'
               PROVE  /\ \A k \in ModuleId' : modules'[k].path # Core => Beside(modules'[k].path)
                      /\ \A q \in Range(queue') : Beside(q)
    BY DEF Places, Beside, StartIsOf
  <2>1. ~ Elsewhere
    BY <1>1 DEF Elsewhere, Stems
  <2>2. \A k \in ModuleId : modules[k].path # Core => Beside(modules[k].path)
    BY <2>1 DEF LoadInv, Places
  <2> QED
    BY <1>1, <1>2, <1>3, <1>5, <2>2
<1> QED
  BY <1>7, <1>8, <1>9, <1>10, <1>11

LEMMA StepLoad == LoadInv /\ [Next]_vars => LoadInv'
<1> SUFFICES ASSUME LoadInv, [Next]_vars PROVE LoadInv'
  OBVIOUS
<1>1. TypeInv'
  BY TypeStep DEF LoadInv
<1>2. CASE UNCHANGED files /\ (Reading' <=> Reading)
  <2>1. modules' = modules /\ visited' = visited /\ queue' = queue /\ ModuleId' = ModuleId
    BY <1>2 DEF files, ModuleId
  <2>2. Files' /\ DistinctNames' /\ NothingMissed' /\ NothingExtra' /\ Places'
    BY <1>2, <2>1 DEF LoadInv, Files, DistinctNames, NothingMissed, NothingExtra, Places, Elsewhere
  <2> QED
    BY <1>1, <2>2 DEF LoadInv
<1>3. CASE MissingFile
  <2>1. UNCHANGED files /\ Reading /\ Reading'
    BY <1>3 DEF MissingFile, Reading
  <2> QED
    BY <1>2, <2>1
<1>4. CASE SkipFile
  BY <1>1, <1>4, SkipLoad DEF LoadInv
<1>5. CASE LoadFile
  BY <1>1, <1>5, FileLoad DEF LoadInv
<1>6. CASE Loaded
  BY <1>1, <1>6, CoreLoad DEF LoadInv
<1> QED
  BY <1>2, <1>3, <1>4, <1>5, <1>6, StepCases

LEMMA LoadInvariant == Spec => []LoadInv
BY InitLoad, StepLoad, PTL DEF Spec

(* A name is a stem, and known under itself from anywhere.                      *)
LEMMA NamesAreStems ==
  ASSUME LoadInv, NEW k \in ModuleId
  PROVE  modules[k].name \in Stems \cup {Core}
<1>1. CASE modules[k].path = Core
  <2>1. k = 1 /\ ~ Reading
    BY <1>1 DEF LoadInv, Files
  <2>2. modules[k] = CoreModule
    BY <2>1, CoreIsKnown DEF LoadInv
  <2> QED
    BY <2>2 DEF CoreModule
<1>2. CASE modules[k].path # Core
  <2>1. modules[k].name = StemOf[modules[k].path]
    BY <1>2 DEF LoadInv, Files
  <2>2. modules[k].path \in Path
    BY <1>2, InvFacts DEF LoadInv
  <2> QED
    BY <2>1, <2>2 DEF Stems
<1> QED
  BY <1>1, <1>2

(***************************************************************************)
(* Loading stops having read each stem once, all that is imported and nothing  *)
(* else, however imports run in circles (load_modules_recursively).           *)
(***************************************************************************)
THEOREM LoadsTheReachable == Spec => []LoadedIsReachable
<1>1. LoadInv => LoadedIsReachable
  <2> SUFFICES ASSUME LoadInv, ~ Reading
               PROVE  /\ \A i, j \in ModuleId : modules[i].name = modules[j].name => i = j
                      /\ \A k \in ModuleId : \A i \in Asked(k) :
                           i.from = Core \/ ByName(StemOf[Join[modules[k].path][i.from]]) # {}
                      /\ \A k \in ModuleId \ {1} :
                           \/ modules[k].path = Start
                           \/ \E j \in 2 .. k - 1 : \E i \in Asked(j) :
                                Join[modules[j].path][i.from] = modules[k].path
    BY DEF LoadedIsReachable, Reading
  <2>1. /\ TypeInv /\ Files /\ visited = {Core} \cup {modules[k].name : k \in ModuleId}
        /\ 1 \in ModuleId /\ modules[1] = CoreModule /\ queue = <<>>
    BY CoreIsKnown, TypeParts DEF LoadInv, Files, Phases
  <2>2. \A t : t \in visited => ByName(t) # {}
    <3>1. CoreModule.name = Core
      BY DEF CoreModule
    <3> QED
      BY <2>1, <3>1 DEF ByName, ModuleId
  <2>3. ASSUME NEW k \in ModuleId, NEW i \in Asked(k), i.from # Core
        PROVE  ByName(StemOf[Join[modules[k].path][i.from]]) # {}
    <3>1. i \in Imports(modules[k])
      BY AskedIs
    <3>2. modules[k].path \in Path
      BY <2>1, <3>1, ImportFacts
    <3>3. i.from \in visited \/ StemOf[Join[modules[k].path][i.from]] \in visited
      BY <2>1, <3>1, NoneLeft DEF LoadInv, NothingMissed
    <3>4. ASSUME i.from \in visited
          PROVE  StemOf[Join[modules[k].path][i.from]] = i.from
      <4>1. i.from \in Stems
        BY <2>1, <2>3, <3>4, NamesAreStems
      <4> QED
        BY <3>2, <4>1, JoinAssumption DEF Stems
    <3> QED
      BY <2>2, <3>3, <3>4
  <2>4. ASSUME NEW k \in ModuleId \ {1}, modules[k].path # Start
        PROVE  \E j \in 2 .. k - 1 : \E i \in Asked(j) :
                 Join[modules[j].path][i.from] = modules[k].path
    <3>1. modules[k].path # Core
      BY <2>1 DEF Files
    <3>2. PICK j \in 1 .. k - 1 : Comes(modules[k].path, modules[j])
      BY <2>4, <3>1 DEF LoadInv, NothingExtra
    <3>3. j # 1
      BY <2>1, <3>2, CoreAsksNothing DEF Comes
    <3>4. j \in 2 .. k - 1
      BY <3>2, <3>3
    <3> QED
      BY <3>2, <3>4, AskedIs DEF Comes
  <2> QED
    BY <2>3, <2>4 DEF LoadInv, DistinctNames
<1> QED
  BY <1>1, LoadInvariant, PTL

-----------------------------------------------------------------------------
(***************************************************************************)
(* What the scopes mean.  A request that is no longer pending was granted, as  *)
(* long as nothing was refused; a name of a scope is the module's own or what   *)
(* one of its imports gives; and a refusal has its reason.                     *)
(***************************************************************************)
Known(k) == \A i \in Asked(k) : i.from \in Names
Means(w) == w.source \in DOMAIN direct /\ w.name \in DOMAIN direct[w.source]
Given(w) ==
  /\ w.importer \in DOMAIN direct /\ w.as \in DOMAIN direct[w.importer] /\ Means(w)
  /\ w.as \in Defined(w.importer) \/ direct[w.importer][w.as] = direct[w.source][w.name]

TextsKnown  == errors = {} => \A k \in DOMAIN globs : Known(k)
ArePending  == \A w \in Range(pending) : w \in Wanted(w.importer)
NoneDropped == errors = {} =>
  \A k \in DOMAIN globs : \A w \in Wanted(k) : w \in Range(pending) \/ Given(w)

Brings(w, k, n) ==
  w.importer = k /\ w.as = n /\ Means(w) /\ direct[k][n] = direct[w.source][w.name]

Origins ==
  \A k \in DOMAIN direct :
    /\ \A n \in Defined(k) : direct[k][n] = [mod |-> k, name |-> n]
    /\ \A n \in imported[k] : \E w \in Wanted(k) : Brings(w, k, n)

Rightly(e) ==
  /\ e.err = "unknown_symbol" => e.name \notin Defined(e.from)
  /\ e.err = "duplicate_import" =>
       /\ e.mod \in ModuleId /\ e.name \notin Defined(e.mod)
       /\ \E v, w \in Wanted(e.mod) : v # w /\ v.as = e.name /\ w.as = e.name

Refusals == \A e \in errors : Rightly(e)

NameInv == TypeInv /\ TextsKnown /\ ArePending /\ NoneDropped /\ Origins /\ Refusals

(* One step of ScopesGrow. *)
Grow == \A k \in DOMAIN direct : \A n \in DOMAIN direct[k] :
          n \in DOMAIN direct'[k] /\ direct'[k][n] = direct[k][n]

LEMMA StepGrow == TypeInv /\ [Next]_vars => Grow /\ DOMAIN direct \subseteq DOMAIN direct'
<1> SUFFICES ASSUME TypeInv, [Next]_vars PROVE Grow /\ DOMAIN direct \subseteq DOMAIN direct'
  OBVIOUS
<1>1. CASE UNCHANGED direct
  BY <1>1 DEF Grow
<1>2. CASE RegisterNames
  <2>1. /\ \A j \in DOMAIN direct : direct'[j] = direct[j]
        /\ DOMAIN direct \subseteq DOMAIN direct'
    BY <1>2, RegisterEffect
  <2> QED
    BY <2>1 DEF Grow
<1>3. CASE ImportSymbol
  <2>1. /\ DOMAIN direct' = DOMAIN direct
        /\ DOMAIN direct'[P.importer] = DOMAIN direct[P.importer] \cup {P.as}
        /\ \A n \in DOMAIN direct[P.importer] : direct'[P.importer][n] = direct[P.importer][n]
        /\ \A j \in DOMAIN direct \ {P.importer} : direct'[j] = direct[j]
    BY <1>3, ImportEffect
  <2> QED
    BY <2>1 DEF Grow
<1> QED
  BY <1>1, <1>2, <1>3 DEF Next, vars, files, scopes, SkipFile, MissingFile, LoadFile, Loaded,
     CollectImports, NamesNext, FinalizeNext, UnknownSymbol, DuplicateImport, KeepEntry, Verdict,
     LowerCall, LowerCallPanics

(* A name never changes its meaning once a module has it (register_type_names and  *)
(* the finalization of its imports only ever add names).                      *)
THEOREM MeaningsStay == Spec => ScopesGrow
<1>1. Grow => [Grow]_vars
  OBVIOUS
<1> QED
  BY <1>1, InitTypes, TypeStep, StepGrow, PTL DEF Spec, ScopesGrow, Grow

(* As long as the modules stay and the scopes grow, what was so remains so. *)
LEMMA TextStays ==
  ASSUME modules' = modules
  PROVE  /\ ModuleId' = ModuleId /\ Names' = Names
         /\ \A k : Defined(k)' = Defined(k) /\ Asked(k)' = Asked(k) /\ Wanted(k)' = Wanted(k)
         /\ \A k : Known(k)' <=> Known(k)
<1>1. \A t : ByName(t)' = ByName(t)
  BY DEF ByName
<1>2. Names' = Names
  BY <1>1 DEF Names
<1>3. \A t : IdOf(t)' = IdOf(t)
  BY <1>1 DEF IdOf
<1>4. \A k : Asked(k)' = Asked(k) /\ Defined(k)' = Defined(k)
  BY DEF Asked, Defined, Defines
<1>5. \A k : Implicit(k)' = Implicit(k)
  BY <1>3 DEF Implicit
<1>6. \A k : Wanted(k)' = Wanted(k)
  BY <1>2, <1>3, <1>4, <1>5 DEF Wanted
<1> QED
  BY <1>2, <1>4, <1>6 DEF ModuleId, Known

LEMMA MeaningStays ==
  ASSUME modules' = modules, Grow, DOMAIN direct \subseteq DOMAIN direct'
  PROVE  /\ \A w : Means(w) => Means(w)' /\ direct'[w.source][w.name] = direct[w.source][w.name]
         /\ \A w : Given(w) => Given(w)'
         /\ \A w, k, n : k \in DOMAIN direct /\ n \in DOMAIN direct[k] /\ Brings(w, k, n) =>
              Brings(w, k, n)'
         /\ \A e : Rightly(e) => Rightly(e)'
<1>1. \A k : Defined(k)' = Defined(k) /\ Wanted(k)' = Wanted(k)
  BY TextStays
<1>2. \A w : Means(w) => Means(w)' /\ direct'[w.source][w.name] = direct[w.source][w.name]
  BY DEF Means, Grow
<1>3. \A w : Given(w) => Given(w)'
  BY <1>1, <1>2 DEF Given, Grow
<1>4. \A w, k, n : k \in DOMAIN direct /\ n \in DOMAIN direct[k] /\ Brings(w, k, n) =>
        Brings(w, k, n)'
  BY <1>2 DEF Brings, Grow
<1>5. \A e : Rightly(e) => Rightly(e)'
  BY <1>1, TextStays DEF Rightly
<1> QED
  BY <1>2, <1>3, <1>4, <1>5

LEMMA NamesAtFirst ==
  ASSUME globs = <<>>, pending = <<>>, direct = <<>>, errors = {}
  PROVE  TextsKnown /\ ArePending /\ NoneDropped /\ Origins /\ Refusals
<1>1. DOMAIN <<>> = {} /\ Range(<<>>) = {}
  BY NoneLeft
<1> QED
  BY <1>1 DEF TextsKnown, ArePending, NoneDropped, Origins, Refusals

LEMMA InitNames == Init => NameInv
<1> SUFFICES ASSUME Init PROVE NameInv
  OBVIOUS
<1>1. globs = <<>> /\ pending = <<>> /\ direct = <<>> /\ errors = {} /\ TypeInv
  BY InitTypes DEF Init
<1> QED
  BY <1>1, NamesAtFirst DEF NameInv

LEMMA CollectNames ==
  ASSUME NameInv, CollectImports, TypeInv'
  PROVE  NameInv'
<1> DEFINE k == Len(globs) + 1
<1>1. /\ k \in ModuleId /\ DOMAIN globs' = DOMAIN globs \cup {k}
      /\ Range(pending') = Range(pending) \cup Wanted(k) /\ errors \subseteq errors'
      /\ errors' = {} => \A i \in Asked(k) : i.from \in Names
      /\ \A e \in errors' : e \in errors \/ e.err \in {"self_import", "unknown_module"}
  BY CollectEffect DEF NameInv
<1>2. modules' = modules /\ direct' = direct /\ imported' = imported /\ ~ Reading
  BY DEF CollectImports, files, Reading
<1>3. Grow /\ DOMAIN direct \subseteq DOMAIN direct'
  BY <1>2 DEF Grow
<1>4. /\ \A j : Wanted(j)' = Wanted(j) /\ Defined(j)' = Defined(j) /\ (Known(j)' <=> Known(j))
      /\ \A w : Given(w) => Given(w)'
      /\ \A e : Rightly(e) => Rightly(e)'
  BY <1>2, <1>3, TextStays, MeaningStays
<1>5. \A w \in Wanted(k) : w.importer = k
  BY <1>1, <1>2, WantedTypes DEF NameInv
<1> HIDE DEF k
<1>6. TextsKnown'
  BY <1>1, <1>4 DEF NameInv, TextsKnown, Known
<1>7. ArePending'
  BY <1>1, <1>4, <1>5 DEF NameInv, ArePending
<1>8. NoneDropped'
  <2> SUFFICES ASSUME errors' = {}, NEW j \in DOMAIN globs', NEW w \in Wanted(j)'
               PROVE  w \in Range(pending') \/ Given(w)'
    BY DEF NoneDropped
  <2>1. errors = {} /\ w \in Wanted(j)
    BY <1>1, <1>4
  <2>2. CASE j = k
    BY <1>1, <2>1, <2>2
  <2>3. CASE j \in DOMAIN globs
    BY <1>1, <1>4, <2>1, <2>3 DEF NameInv, NoneDropped
  <2> QED
    BY <1>1, <2>2, <2>3
<1>9. Origins'
  <2>1. \A w, j, n : Brings(w, j, n) => Brings(w, j, n)'
    BY <1>2 DEF Brings, Means
  <2> QED
    BY <1>2, <1>4, <2>1 DEF NameInv, Origins
<1>10. Refusals'
  <2>1. ASSUME NEW e \in errors', e \notin errors PROVE Rightly(e)'
    BY <1>1, <2>1 DEF Rightly
  <2> QED
    BY <1>4, <2>1 DEF NameInv, Refusals
<1> QED
  BY <1>6, <1>7, <1>8, <1>9, <1>10 DEF NameInv

LEMMA RegisterKeepsNames ==
  ASSUME NameInv, RegisterNames, TypeInv', Grow, DOMAIN direct \subseteq DOMAIN direct'
  PROVE  NameInv'
<1> DEFINE k == Len(direct) + 1
<1>1. /\ k \in ModuleId /\ DOMAIN direct' = DOMAIN direct \cup {k}
      /\ DOMAIN direct'[k] = Defined(k) /\ imported'[k] = {}
      /\ \A n \in Defined(k) : direct'[k][n] = [mod |-> k, name |-> n]
      /\ \A j \in DOMAIN direct : direct'[j] = direct[j] /\ imported'[j] = imported[j]
      /\ errors \subseteq errors' /\ \A e \in errors' : e \in errors \/ e.err = "duplicate_name"
  BY RegisterEffect DEF NameInv
<1> HIDE DEF k
<1>2. modules' = modules /\ globs' = globs /\ pending' = pending
  BY DEF RegisterNames, files
<1>3. /\ \A j : Wanted(j)' = Wanted(j) /\ Defined(j)' = Defined(j) /\ (Known(j)' <=> Known(j))
      /\ \A w : Given(w) => Given(w)'
      /\ \A e : Rightly(e) => Rightly(e)'
      /\ \A w, j, n : j \in DOMAIN direct /\ n \in DOMAIN direct[j] /\ Brings(w, j, n) =>
           Brings(w, j, n)'
  BY <1>2, TextStays, MeaningStays
<1>4. TextsKnown' /\ ArePending'
  BY <1>1, <1>2, <1>3 DEF NameInv, TextsKnown, ArePending
<1>5. NoneDropped'
  BY <1>1, <1>2, <1>3 DEF NameInv, NoneDropped
<1>6. Origins'
  <2> SUFFICES ASSUME NEW j \in DOMAIN direct'
               PROVE  /\ \A n \in Defined(j) : direct'[j][n] = [mod |-> j, name |-> n]
                      /\ \A n \in imported'[j] : \E w \in Wanted(j) : Brings(w, j, n)'
    BY <1>3 DEF Origins
  <2>1. CASE j = k
    BY <1>1, <2>1
  <2>2. CASE j \in DOMAIN direct
    <3>1. imported[j] \subseteq DOMAIN direct[j]
      BY <2>2, TypeParts DEF NameInv, ScopesOK
    <3>2. /\ \A n \in Defined(j) : direct[j][n] = [mod |-> j, name |-> n]
          /\ \A n \in imported[j] : \E w \in Wanted(j) : Brings(w, j, n)
      BY <2>2 DEF NameInv, Origins
    <3> QED
      BY <1>1, <1>3, <2>2, <3>1, <3>2
  <2> QED
    BY <1>1, <2>1, <2>2
<1>7. Refusals'
  <2>1. ASSUME NEW e \in errors', e \notin errors PROVE Rightly(e)'
    BY <1>1, <2>1 DEF Rightly
  <2> QED
    BY <1>3, <2>1 DEF NameInv, Refusals
<1> QED
  BY <1>4, <1>5, <1>6, <1>7 DEF NameInv

(* The request that is finalized is one the text makes. *)
LEMMA HeadIsWanted ==
  ASSUME NameInv, Finalizing
  PROVE  P \in Wanted(P.importer)
BY HeadRequest DEF NameInv, ArePending

LEMMA RefuseKeepsNames ==
  ASSUME NameInv, UnknownSymbol \/ DuplicateImport, TypeInv'
  PROVE  NameInv'
<1>1. /\ Finalizing /\ pending' = Tail(pending)
      /\ modules' = modules /\ globs' = globs /\ direct' = direct /\ imported' = imported
  BY DEF UnknownSymbol, DuplicateImport, files
<1>2. /\ P.importer \in ModuleId /\ P.source \in ModuleId /\ DOMAIN direct = ModuleId
      /\ P \in Range(pending) /\ Range(pending) = {P} \cup Range(pending')
  BY <1>1, HeadRequest DEF NameInv
<1>3. /\ \A j : Wanted(j)' = Wanted(j) /\ Defined(j)' = Defined(j)
      /\ \A e : Rightly(e) => Rightly(e)'
  <2>1. Grow /\ DOMAIN direct \subseteq DOMAIN direct'
    BY <1>1 DEF Grow
  <2> QED
    BY <1>1, <2>1, TextStays, MeaningStays
<1>4. errors' # {}
  BY DEF UnknownSymbol, DuplicateImport
<1>5. TextsKnown' /\ NoneDropped'
  BY <1>4 DEF TextsKnown, NoneDropped
<1>6. ArePending'
  BY <1>2, <1>3 DEF NameInv, ArePending
<1>7. Origins'
  <2>1. \A w, j, n : Brings(w, j, n) => Brings(w, j, n)'
    BY <1>1 DEF Brings, Means
  <2> QED
    BY <1>1, <1>3, <2>1 DEF NameInv, Origins
<1>8. /\ imported[P.importer] \subseteq DOMAIN direct[P.importer] \ Defined(P.importer)
      /\ \A k \in ModuleId : DOMAIN direct[k] = Defined(k) \cup imported[k]
  BY <1>2, TypeParts DEF NameInv, ScopesOK, ScopesTyped
<1>9. ASSUME NEW e \in errors', e \notin errors
      PROVE  Rightly(e)
  <2>1. CASE UnknownSymbol
    <3>1. e = [err |-> "unknown_symbol", mod |-> P.importer, name |-> P.name, from |-> P.source]
      BY <1>9, <2>1 DEF UnknownSymbol
    <3>2. P.name \notin Defined(P.source)
      BY <1>2, <1>8, <2>1 DEF UnknownSymbol, Found
    <3> QED
      BY <3>1, <3>2 DEF Rightly
  <2>2. CASE DuplicateImport
    <3>1. e = [err |-> "duplicate_import", mod |-> P.importer, name |-> P.as]
      BY <1>9, <2>2 DEF DuplicateImport, Error
    <3>2. /\ P.as \in imported[P.importer] /\ direct[P.importer][P.as] # Entry
          /\ P.name \in DOMAIN direct[P.source]
      BY <2>2 DEF DuplicateImport, Clashes, Found
    <3>3. PICK v \in Wanted(P.importer) : Brings(v, P.importer, P.as)
      BY <1>2, <3>2 DEF NameInv, Origins
    <3>4. P \in Wanted(P.importer) /\ Means(P)
      BY <1>1, <1>2, <3>2, HeadIsWanted DEF Means
    <3>5. v.as = P.as /\ v # P
      BY <3>2, <3>3 DEF Brings, Entry
    <3>6. P.as \notin Defined(P.importer)
      BY <1>8, <3>2
    <3> QED
      BY <1>2, <3>1, <3>3, <3>4, <3>5, <3>6 DEF Rightly
  <2> QED
    BY <2>1, <2>2
<1>10. Refusals'
  BY <1>3, <1>9 DEF NameInv, Refusals
<1> QED
  BY <1>5, <1>6, <1>7, <1>10 DEF NameInv

LEMMA KeepKeepsNames ==
  ASSUME NameInv, KeepEntry, TypeInv'
  PROVE  NameInv'
<1>1. /\ Finalizing /\ pending' = Tail(pending) /\ errors' = errors
      /\ modules' = modules /\ globs' = globs /\ direct' = direct /\ imported' = imported
  BY DEF KeepEntry, files
<1>2. /\ P.importer \in ModuleId /\ P.source \in ModuleId /\ DOMAIN direct = ModuleId
      /\ P \in Range(pending) /\ Range(pending) = {P} \cup Range(pending')
  BY <1>1, HeadRequest DEF NameInv
<1>3. /\ \A j : Wanted(j)' = Wanted(j) /\ Defined(j)' = Defined(j) /\ (Known(j)' <=> Known(j))
      /\ \A e : Rightly(e) => Rightly(e)'
      /\ \A w : Given(w) => Given(w)'
  <2>1. Grow /\ DOMAIN direct \subseteq DOMAIN direct'
    BY <1>1 DEF Grow
  <2> QED
    BY <1>1, <2>1, TextStays, MeaningStays
<1>4. Given(P)
  <2>1. /\ P.name \in DOMAIN direct[P.source] /\ P.as \in DOMAIN direct[P.importer]
        /\ P.as \in imported[P.importer] => direct[P.importer][P.as] = direct[P.source][P.name]
    BY DEF KeepEntry, Found, Taken, Clashes, Entry
  <2>2. DOMAIN direct[P.importer] = Defined(P.importer) \cup imported[P.importer]
    BY <1>2, TypeParts DEF NameInv, ScopesTyped
  <2> QED
    BY <1>2, <2>1, <2>2 DEF Given, Means
<1>5. TextsKnown' /\ ArePending'
  BY <1>1, <1>2, <1>3 DEF NameInv, TextsKnown, ArePending
<1>6. NoneDropped'
  BY <1>1, <1>2, <1>3, <1>4 DEF NameInv, NoneDropped
<1>7. Origins'
  <2>1. \A w, j, n : Brings(w, j, n) => Brings(w, j, n)'
    BY <1>1 DEF Brings, Means
  <2> QED
    BY <1>1, <1>3, <2>1 DEF NameInv, Origins
<1>8. Refusals'
  BY <1>1, <1>3 DEF NameInv, Refusals
<1> QED
  BY <1>5, <1>6, <1>7, <1>8 DEF NameInv

LEMMA ImportKeepsNames ==
  ASSUME NameInv, ImportSymbol, TypeInv', Grow, DOMAIN direct \subseteq DOMAIN direct'
  PROVE  NameInv'
<1>0. PICK p : p = P
  OBVIOUS
<1> DEFINE k == p.importer
           a == p.as
<1>1. /\ Finalizing /\ pending' = Tail(pending) /\ errors' = errors
      /\ modules' = modules /\ globs' = globs
  BY DEF ImportSymbol, files
<1>2. /\ k \in ModuleId /\ p.source \in ModuleId /\ DOMAIN direct = ModuleId
      /\ p \in Range(pending) /\ Range(pending) = {p} \cup Range(pending')
  BY <1>0, <1>1, HeadRequest DEF NameInv
<1>3. /\ Found /\ DOMAIN direct' = DOMAIN direct
      /\ DOMAIN direct'[k] = DOMAIN direct[k] \cup {a}
      /\ imported'[k] = imported[k] \cup {a}
      /\ direct'[k][a] = direct[p.source][p.name]
      /\ \A j \in DOMAIN direct \ {k} : direct'[j] = direct[j] /\ imported'[j] = imported[j]
  BY <1>0, ImportEffect DEF NameInv, Entry
<1>4. /\ \A j : Wanted(j)' = Wanted(j) /\ Defined(j)' = Defined(j) /\ (Known(j)' <=> Known(j))
      /\ \A e : Rightly(e) => Rightly(e)'
      /\ \A w : Given(w) => Given(w)'
      /\ \A w : Means(w) => Means(w)' /\ direct'[w.source][w.name] = direct[w.source][w.name]
      /\ \A w, j, n : j \in DOMAIN direct /\ n \in DOMAIN direct[j] /\ Brings(w, j, n) =>
           Brings(w, j, n)'
  BY <1>1, TextStays, MeaningStays
<1>5. Means(p)
  BY <1>0, <1>2, <1>3 DEF Means, Found
<1>6. Brings(p, k, a)' /\ Given(p)'
  <2>1. direct'[k][a] = direct'[p.source][p.name] /\ Means(p)'
    BY <1>3, <1>4, <1>5
  <2>2. k \in DOMAIN direct' /\ a \in DOMAIN direct'[k]
    BY <1>2, <1>3
  <2> QED
    BY <2>1, <2>2 DEF Brings, Given
<1> HIDE DEF k, a
<1>7. TextsKnown' /\ ArePending'
  BY <1>1, <1>2, <1>4 DEF NameInv, TextsKnown, ArePending
<1>8. NoneDropped'
  BY <1>1, <1>2, <1>4, <1>6 DEF NameInv, NoneDropped
<1>9. Origins'
  <2> SUFFICES ASSUME NEW j \in DOMAIN direct'
               PROVE  /\ \A n \in Defined(j) : direct'[j][n] = [mod |-> j, name |-> n]
                      /\ \A n \in imported'[j] : \E w \in Wanted(j) : Brings(w, j, n)'
    BY <1>4 DEF Origins
  <2>0. j \in DOMAIN direct
    BY <1>3
  <2>1. /\ imported[j] \subseteq DOMAIN direct[j] /\ Defined(j) \subseteq DOMAIN direct[j]
        /\ \A n \in Defined(j) : direct[j][n] = [mod |-> j, name |-> n]
        /\ \A n \in imported[j] : \E w \in Wanted(j) : Brings(w, j, n)
    <3>1. Origins /\ ScopesOK /\ ScopesTyped
      BY TypeParts DEF NameInv
    <3>2. DOMAIN direct[j] = Defined(j) \cup imported[j]
      BY <2>0, <3>1 DEF ScopesTyped
    <3> QED
      BY <2>0, <3>1, <3>2 DEF Origins
  <2>2. \A n \in Defined(j) : direct'[j][n] = [mod |-> j, name |-> n]
    BY <1>3, <2>1 DEF Grow
  <2>3. \A n \in imported[j] : \E w \in Wanted(j) : Brings(w, j, n)'
    BY <1>3, <1>4, <2>1
  <2>4. \A n \in imported'[j] : n \in imported[j] \/ (j = k /\ n = a)
    BY <1>3
  <2>5. j = k => \E w \in Wanted(j) : Brings(w, k, a)'
    <3>1. p \in Wanted(k)
      BY <1>0, <1>1, HeadIsWanted DEF k
    <3> QED
      BY <1>6, <3>1
  <2> QED
    BY <2>2, <2>3, <2>4, <2>5
<1>10. Refusals'
  BY <1>1, <1>4 DEF NameInv, Refusals
<1> QED
  BY <1>7, <1>8, <1>9, <1>10 DEF NameInv

LEMMA StepNames == NameInv /\ [Next]_vars => NameInv'
<1> SUFFICES ASSUME NameInv, [Next]_vars PROVE NameInv'
  OBVIOUS
<1>1. TypeInv /\ TypeInv' /\ Grow /\ DOMAIN direct \subseteq DOMAIN direct'
  BY TypeStep, StepGrow DEF NameInv
<1>2. CASE SkipFile \/ MissingFile \/ LoadFile \/ Loaded
  <2>1. globs' = <<>> /\ pending' = <<>> /\ direct' = <<>> /\ errors' = {}
    BY <1>1, <1>2, NothingYet
  <2>2. DOMAIN <<>> = {} /\ Range(<<>>) = {}
    BY NoneLeft
  <2>3. TextsKnown' /\ ArePending' /\ NoneDropped' /\ Origins' /\ Refusals'
    BY <2>1, <2>2 DEF TextsKnown, ArePending, NoneDropped, Origins, Refusals
  <2> QED
    BY <1>1, <2>3 DEF NameInv
<1>3. CASE UNCHANGED <<files, scopes, errors>>
  <2>1. /\ modules' = modules /\ globs' = globs /\ pending' = pending /\ direct' = direct
        /\ imported' = imported /\ errors' = errors
    BY <1>3 DEF files, scopes
  <2>2. /\ \A j : Wanted(j)' = Wanted(j) /\ Defined(j)' = Defined(j) /\ (Known(j)' <=> Known(j))
        /\ \A w : Given(w) => Given(w)'
        /\ \A e : Rightly(e) => Rightly(e)'
    BY <1>1, <2>1, TextStays, MeaningStays
  <2>3. \A w, j, n : Brings(w, j, n) => Brings(w, j, n)'
    BY <2>1 DEF Brings, Means
  <2>4. TextsKnown' /\ ArePending' /\ NoneDropped'
    BY <2>1, <2>2 DEF NameInv, TextsKnown, ArePending, NoneDropped
  <2>5. Origins' /\ Refusals'
    BY <2>1, <2>2, <2>3 DEF NameInv, Origins, Refusals
  <2> QED
    BY <1>1, <2>4, <2>5 DEF NameInv
<1>4. CASE CollectImports
  BY <1>1, <1>4, CollectNames
<1>5. CASE RegisterNames
  BY <1>1, <1>5, RegisterKeepsNames
<1>6. CASE UnknownSymbol \/ DuplicateImport
  BY <1>1, <1>6, RefuseKeepsNames
<1>7. CASE KeepEntry
  BY <1>1, <1>7, KeepKeepsNames
<1>8. CASE ImportSymbol
  BY <1>1, <1>8, ImportKeepsNames
<1>9. CASE NamesNext \/ FinalizeNext \/ Verdict \/ LowerCall \/ LowerCallPanics
  <2>1. UNCHANGED <<files, scopes, errors>>
    BY <1>9 DEF NamesNext, FinalizeNext, Verdict, LowerCall, LowerCallPanics
  <2> QED
    BY <1>3, <2>1
<1>10. CASE UNCHANGED vars
  BY <1>3, <1>10 DEF vars
<1> QED
  BY <1>2, <1>4, <1>5, <1>6, <1>7, <1>8, <1>9, <1>10 DEF Next

LEMMA NameInvariant == Spec => []NameInv
BY InitNames, StepNames, PTL DEF Spec

(* The requests and scopes of a program that got its verdict are those of its      *)
(* modules.                                                                 *)
LEMMA AtTheVerdict ==
  ASSUME TypeInv, pc \in {"accepted", "rejected", "lowered", "panicked"}
  PROVE  /\ DOMAIN globs = ModuleId /\ DOMAIN direct = ModuleId
         /\ pc = "accepted" => errors = {} /\ Range(pending) = {}
         /\ \A k \in ModuleId : /\ DOMAIN direct[k] = Defined(k) \cup imported[k]
                                /\ imported[k] \cap Defined(k) = {}
<1>1. Len(globs) = Len(modules) /\ Len(direct) = Len(modules)
      /\ (pc = "accepted" => errors = {} /\ pending = <<>>)
  BY TypeParts DEF Phases, Reading
<1>2. globs \in Seq(Seq(ModuleId)) /\ direct \in Seq(Scope)
  BY TypeParts DEF ImportsOK, ScopesTyped
<1>3. DOMAIN globs = ModuleId /\ DOMAIN direct = ModuleId
  BY <1>1, <1>2, InvFacts, LenProperties
<1>4. \A k \in ModuleId : /\ DOMAIN direct[k] = Defined(k) \cup imported[k]
                          /\ imported[k] \cap Defined(k) = {}
  BY <1>3, TypeParts DEF ScopesTyped, ScopesOK
<1> QED
  BY <1>1, <1>3, <1>4, NoneLeft

(***************************************************************************)
(* An accepted program's scopes mean what its text says, whatever the order     *)
(* the modules and their imports came in (finalization of named imports).      *)
(***************************************************************************)
THEOREM ScopesMean == Spec => []ImportsMean
<1>1. NameInv => ImportsMean
  <2> SUFFICES ASSUME NameInv, pc = "accepted", NEW k \in ModuleId
               PROVE  /\ \A n \in Defined(k) : direct[k][n] = [mod |-> k, name |-> n]
                      /\ \A w \in Wanted(k) : w.as \notin Defined(k) =>
                           w.as \in DOMAIN direct[k] /\ direct[k][w.as] = direct[w.source][w.name]
                      /\ DOMAIN direct[k] = Defined(k) \cup {w.as : w \in Wanted(k)}
    BY DEF ImportsMean
  <2>1. /\ DOMAIN globs = ModuleId /\ DOMAIN direct = ModuleId /\ errors = {} /\ Range(pending) = {}
        /\ DOMAIN direct[k] = Defined(k) \cup imported[k] /\ ~ Reading
    BY AtTheVerdict DEF NameInv, Reading
  <2>2. \A n \in Defined(k) : direct[k][n] = [mod |-> k, name |-> n]
    BY <2>1 DEF NameInv, Origins
  <2>3. \A w \in Wanted(k) : Given(w) /\ w.importer = k
    BY <2>1, WantedTypes DEF NameInv, NoneDropped
  <2>4. \A w \in Wanted(k) :
          /\ w.as \in DOMAIN direct[k]
          /\ w.as \in Defined(k) \/ direct[k][w.as] = direct[w.source][w.name]
    BY <2>3 DEF Given
  <2>5. \A n \in imported[k] : \E w \in Wanted(k) : w.as = n
    BY <2>1 DEF NameInv, Origins, Brings
  <2>6. DOMAIN direct[k] = Defined(k) \cup {w.as : w \in Wanted(k)}
    BY <2>1, <2>4, <2>5
  <2> QED
    BY <2>2, <2>4, <2>6
<1> QED
  BY <1>1, NameInvariant, PTL

(***************************************************************************)
(* The order of the requests.  They are finalized importer by importer, so a    *)
(* symbol that was not there can turn up in the scope it was asked of only      *)
(* while a later module's requests are finalized.                            *)
(***************************************************************************)
Ordered(s) == \A i, j \in DOMAIN s : i < j => s[i].importer <= s[j].importer

Early(e) ==
  e.err = "unknown_symbol" =>
    /\ e.from \in DOMAIN direct /\ e.from \in Nat /\ e.mod \in Nat /\ e.mod # e.from
    /\ \A w \in Range(pending) : e.mod <= w.importer
    /\ e.name \in DOMAIN direct[e.from] => e.mod < e.from

OrderInv ==
  /\ Ordered(pending)
  /\ pc = "imports" => \A w \in Range(pending) : w.importer <= Len(globs)
  /\ \A e \in errors : Early(e)

LEMMA TailOrdered ==
  ASSUME NEW T, NEW s \in Seq(T), s # <<>>, \A w \in T : w.importer \in Nat, Ordered(s)
  PROVE  Ordered(Tail(s)) /\ \A w \in Range(s) : Head(s).importer <= w.importer
<1> DEFINE t == Tail(s)
           n == Len(s)
<1>1. /\ t \in Seq(T) /\ Len(t) = n - 1 /\ \A i \in 1 .. Len(t) : t[i] = s[i + 1]
      /\ n \in Nat \ {0} /\ DOMAIN s = 1 .. n /\ DOMAIN t = 1 .. Len(t)
      /\ Head(s) = s[1] /\ \A i \in 1 .. n : s[i] \in T
  <2>1. t \in Seq(T) /\ Len(t) = n - 1 /\ \A i \in 1 .. Len(t) : t[i] = s[i + 1]
    BY HeadTailProperties
  <2>2. n \in Nat \ {0} /\ DOMAIN s = 1 .. n
    BY LenProperties, EmptySeq
  <2>3. DOMAIN t = 1 .. Len(t)
    BY <2>1, LenProperties
  <2>4. \A i \in 1 .. n : s[i] \in T
    BY <2>2, Ranges
  <2> QED
    BY <2>1, <2>2, <2>3, <2>4
<1> HIDE DEF t, n
<1>2. \A i \in DOMAIN t : i + 1 \in 1 .. n /\ t[i] = s[i + 1] /\ i \in Nat
  BY <1>1
<1>3. \A i, j \in 1 .. n : i < j => s[i].importer <= s[j].importer
  BY <1>1 DEF Ordered
<1>4. Ordered(t)
  <2> SUFFICES ASSUME NEW i \in DOMAIN t, NEW j \in DOMAIN t, i < j
               PROVE  t[i].importer <= t[j].importer
    BY DEF Ordered
  <2>1. i + 1 < j + 1
    BY <1>2
  <2> QED
    BY <1>2, <1>3, <2>1
<1>5. \A i \in 1 .. n : s[1].importer <= s[i].importer
  <2> SUFFICES ASSUME NEW i \in 1 .. n PROVE s[1].importer <= s[i].importer
    OBVIOUS
  <2>1. 1 \in 1 .. n /\ (i = 1 \/ 1 < i)
    BY <1>1
  <2>2. s[1].importer \in Nat
    BY <1>1, <2>1
  <2>3. s[1].importer <= s[1].importer
    BY <2>2
  <2> QED
    BY <1>3, <2>1, <2>3
<1> QED
  BY <1>1, <1>4, <1>5, InRange DEF t

LEMMA ConcatOrdered ==
  ASSUME NEW T, NEW s \in Seq(T), NEW t \in Seq(T), NEW k \in Nat, Ordered(s),
         \A w \in T : w.importer \in Nat,
         \A w \in Range(s) : w.importer <= k, \A w \in Range(t) : w.importer = k
  PROVE  Ordered(s \o t)
<1> DEFINE u == s \o t
           m == Len(s)
           n == Len(t)
<1>1. /\ m \in Nat /\ n \in Nat /\ DOMAIN s = 1 .. m /\ DOMAIN t = 1 .. n /\ DOMAIN u = 1 .. m + n
      /\ \A i \in 1 .. m + n : u[i] = IF i <= m THEN s[i] ELSE t[i - m]
  <2>1. /\ u \in Seq(T) /\ Len(u) = m + n
        /\ \A i \in 1 .. m + n : u[i] = IF i <= m THEN s[i] ELSE t[i - m]
    BY ConcatProperties
  <2>2. m \in Nat /\ n \in Nat /\ DOMAIN s = 1 .. m /\ DOMAIN t = 1 .. n
    BY LenProperties
  <2>3. DOMAIN u = 1 .. Len(u)
    BY <2>1, LenProperties
  <2> QED
    BY <2>1, <2>2, <2>3
<1>2. \A i \in 1 .. m : s[i].importer <= k /\ s[i].importer \in Nat
  BY <1>1, Ranges
<1>3. \A i \in 1 .. n : t[i].importer = k
  BY <1>1, Ranges
<1> HIDE DEF u, m, n
<1>4. \A i \in 1 .. m + n :
        \/ i \in 1 .. m /\ u[i] = s[i]
        \/ ~ (i <= m) /\ i - m \in 1 .. n /\ u[i] = t[i - m]
  BY <1>1
<1>5. ASSUME NEW i \in DOMAIN u, NEW j \in DOMAIN u, i < j
      PROVE  u[i].importer <= u[j].importer
  <2>0. i \in 1 .. m + n /\ j \in 1 .. m + n
    BY <1>1
  <2>1. CASE j \in 1 .. m /\ u[j] = s[j]
    <3>1. i \in 1 .. m
      BY <1>1, <1>5, <2>0, <2>1
    <3>2. u[i] = s[i]
      BY <1>1, <2>0, <3>1
    <3> QED
      BY <1>1, <1>5, <2>1, <3>1, <3>2 DEF Ordered
  <2>2. CASE j - m \in 1 .. n /\ u[j] = t[j - m]
    <3>1. u[j].importer = k
      BY <1>3, <2>2
    <3>2. u[i].importer <= k
      <4>1. CASE i \in 1 .. m /\ u[i] = s[i]
        BY <1>2, <4>1
      <4>2. CASE i - m \in 1 .. n /\ u[i] = t[i - m]
        <5>1. u[i].importer = k
          BY <1>3, <4>2
        <5> QED
          BY <5>1
      <4> QED
        BY <1>4, <2>0, <4>1, <4>2
    <3> QED
      BY <3>1, <3>2
  <2> QED
    BY <1>4, <2>0, <2>1, <2>2
<1>6. Ordered(u)
  BY <1>5 DEF Ordered
<1> QED
  BY <1>6 DEF u

(* A module asks nothing of itself. *)
LEMMA AsksOthers ==
  ASSUME TypeInv, ~ Reading, NEW k \in ModuleId, NEW w \in Wanted(k)
  PROVE  w.source # k
<1>1. /\ Core \in Names /\ \A t \in Names : modules[IdOf(t)].name = t
  BY CoreIsKnown
<1>2. CASE w \in Range(Implicit(k))
  <2>1. PICK j \in DOMAIN Implicit(k) : Implicit(k)[j] = w
    BY <1>2, InRange
  <2>2. CASE modules[k].name = Core
    <3>1. DOMAIN Implicit(k) = {}
      BY <2>2, NoneLeft DEF Implicit
    <3> QED
      BY <2>1, <3>1
  <2>3. CASE modules[k].name # Core
    <3>1. w.source = IdOf(Core)
      BY <2>1, <2>3 DEF Implicit, Import
    <3> QED
      BY <1>1, <2>3, <3>1
  <2> QED
    BY <2>2, <2>3
<1>3. CASE w \notin Range(Implicit(k))
  <2>1. PICK i \in Asked(k) : i.from \in Names \ {modules[k].name}
                              /\ w = Import(k, IdOf(i.from), i.name, i.as)
    BY <1>3 DEF Wanted
  <2>2. w.source = IdOf(i.from)
    BY <2>1 DEF Import
  <2> QED
    BY <1>1, <2>1, <2>2
<1> QED
  BY <1>2, <1>3

LEMMA ImportersAreNumbers ==
  ASSUME TypeInv
  PROVE  pending \in Seq(ImportType) /\ \A w \in ImportType : w.importer \in Nat
BY TypeParts, InvFacts DEF ImportsOK, ImportType

LEMMA CollectOrder ==
  ASSUME NameInv, OrderInv, CollectImports
  PROVE  OrderInv'
<1>0. PICK k : k = Len(globs) + 1
  OBVIOUS
<1>1. /\ ~ Reading /\ pc = "imports" /\ pc' = pc /\ pending' = pending \o Requests(k)
      /\ direct = <<>> /\ TypeInv
  BY <1>0, TypeParts DEF NameInv, Phases, CollectImports, Reading
<1>2. /\ k \in ModuleId /\ Len(globs') = k /\ Range(pending') = Range(pending) \cup Wanted(k)
      /\ \A e \in errors' : e \in errors \/ e.err \in {"self_import", "unknown_module"}
  BY <1>0, <1>1, CollectEffect
<1>3. Len(globs) \in Nat /\ k \in Nat
  <2>1. globs \in Seq(Seq(ModuleId))
    BY <1>1, TypeParts DEF ImportsOK
  <2> QED
    BY <1>0, <2>1, LenProperties
<1>4. /\ \A w \in Range(pending) : w.importer \in Nat /\ w.importer <= k
      /\ \A w \in Wanted(k) : w.importer = k
  <2>1. \A w \in Range(pending) : w.importer \in Nat /\ w.importer <= Len(globs)
    BY <1>1, ImportersAreNumbers, Ranges DEF OrderInv
  <2> QED
    BY <1>0, <1>1, <1>2, <1>3, <2>1, WantedTypes
<1>5. Ordered(pending')
  <2>1. Requests(k) \in Seq(ImportType) /\ Range(Requests(k)) = Wanted(k)
    BY <1>1, <1>2, RequestsFacts
  <2>2. Ordered(pending \o Requests(k))
    BY <1>1, <1>3, <1>4, <2>1, ImportersAreNumbers, ConcatOrdered DEF OrderInv
  <2> QED
    BY <1>1, <2>2
<1>6. \A w \in Range(pending') : w.importer <= Len(globs')
  BY <1>2, <1>3, <1>4
<1>7. \A e \in errors' : Early(e)'
  <2>1. \A e \in errors : e.err # "unknown_symbol"
    <3>1. DOMAIN direct = {}
      BY <1>1, NoneLeft
    <3> QED
      BY <3>1 DEF OrderInv, Early
  <2> QED
    BY <1>2, <2>1 DEF Early
<1> QED
  BY <1>5, <1>6, <1>7 DEF OrderInv

LEMMA RegisterOrder ==
  ASSUME NameInv, OrderInv, RegisterNames
  PROVE  OrderInv'
<1>1. /\ \A j \in DOMAIN direct : direct'[j] = direct[j]
      /\ DOMAIN direct \subseteq DOMAIN direct'
      /\ \A e \in errors' : e \in errors \/ e.err = "duplicate_name"
  BY RegisterEffect DEF NameInv
<1>2. pending' = pending /\ pc' = "names"
  BY DEF RegisterNames
<1>3. \A e \in errors' : Early(e)'
  BY <1>1, <1>2 DEF OrderInv, Early
<1> QED
  BY <1>2, <1>3 DEF OrderInv

LEMMA FinalizeOrder ==
  ASSUME NameInv, OrderInv, UnknownSymbol \/ DuplicateImport \/ KeepEntry \/ ImportSymbol
  PROVE  OrderInv'
<1>0. PICK q : q = P
  OBVIOUS
<1>1. /\ Finalizing /\ pc = "finalize" /\ pc' = pc /\ pending' = Tail(pending) /\ pending # <<>>
      /\ TypeInv
  BY DEF NameInv, UnknownSymbol, DuplicateImport, KeepEntry, ImportSymbol, Finalizing
<1>2. /\ q.importer \in ModuleId /\ q.source \in ModuleId /\ DOMAIN direct = ModuleId
      /\ Range(pending) = {q} \cup Range(pending') /\ ~ Reading /\ ModuleId \subseteq Nat
  BY <1>0, <1>1, HeadRequest, InvFacts
<1>3. Ordered(pending') /\ \A w \in Range(pending) : q.importer <= w.importer
  <2>1. Ordered(Tail(pending)) /\ \A w \in Range(pending) : Head(pending).importer <= w.importer
    BY <1>1, ImportersAreNumbers, TailOrdered DEF OrderInv
  <2> QED
    BY <1>0, <1>1, <2>1 DEF P
<1>4. CASE UNCHANGED <<direct, errors>>
  <2>1. \A e \in errors' : Early(e)'
    BY <1>2, <1>4 DEF OrderInv, Early
  <2> QED
    BY <1>1, <1>3, <2>1 DEF OrderInv
<1>5. CASE UnknownSymbol
  <2>1. direct' = direct /\ errors' = errors \cup {[err |-> "unknown_symbol", mod |-> q.importer,
                                                    name |-> q.name, from |-> q.source]}
    BY <1>0, <1>5 DEF UnknownSymbol
  <2>2. q.name \notin DOMAIN direct[q.source]
    BY <1>0, <1>5 DEF UnknownSymbol, Found
  <2>3. q.importer # q.source
    <3>1. q \in Wanted(q.importer)
      BY <1>0, <1>1, HeadIsWanted
    <3> QED
      BY <1>1, <1>2, <3>1, AsksOthers
  <2>4. \A e \in errors : Early(e)'
    BY <1>2, <2>1 DEF OrderInv, Early
  <2>5. \A e : e.err = "unknown_symbol" /\ e.mod = q.importer /\ e.name = q.name /\ e.from = q.source =>
          Early(e)'
    BY <1>2, <1>3, <2>1, <2>2, <2>3 DEF Early
  <2>6. \A e \in errors' : Early(e)'
    BY <2>1, <2>4, <2>5
  <2> QED
    BY <1>1, <1>3, <2>6 DEF OrderInv
<1>6. CASE DuplicateImport
  <2>1. direct' = direct /\ \A e \in errors' : e \in errors \/ e.err = "duplicate_import"
    BY <1>6 DEF DuplicateImport, Error
  <2>2. \A e \in errors' : Early(e)'
    BY <1>2, <2>1 DEF OrderInv, Early
  <2> QED
    BY <1>1, <1>3, <2>2 DEF OrderInv
<1>7. CASE ImportSymbol
  <2>1. /\ errors' = errors /\ DOMAIN direct' = DOMAIN direct
        /\ DOMAIN direct'[q.importer] = DOMAIN direct[q.importer] \cup {q.as}
        /\ \A j \in DOMAIN direct \ {q.importer} : direct'[j] = direct[j]
    BY <1>0, <1>1, <1>7, ImportEffect DEF ImportSymbol
  <2>2. ASSUME NEW e \in errors', e.err = "unknown_symbol"
        PROVE  Early(e)'
    <3>1. /\ e.from \in DOMAIN direct /\ e.from \in Nat /\ e.mod \in Nat /\ e.mod # e.from
          /\ \A w \in Range(pending) : e.mod <= w.importer
          /\ e.name \in DOMAIN direct[e.from] => e.mod < e.from
      BY <2>1, <2>2 DEF OrderInv, Early
    <3>2. e.mod <= q.importer
      BY <1>2, <3>1
    <3>3. e.from = q.importer => e.mod < e.from
      BY <3>1, <3>2
    <3>4. e.name \in DOMAIN direct'[e.from] => e.mod < e.from
      BY <2>1, <3>1, <3>3
    <3> QED
      BY <1>2, <2>1, <3>1, <3>4 DEF Early
  <2>3. \A e \in errors' : Early(e)'
    BY <2>2 DEF Early
  <2> QED
    BY <1>1, <1>3, <2>3 DEF OrderInv
<1> QED
  BY <1>4, <1>5, <1>6, <1>7 DEF KeepEntry

LEMMA StepOrder == NameInv /\ OrderInv /\ [Next]_vars => OrderInv'
<1> SUFFICES ASSUME NameInv, OrderInv, [Next]_vars PROVE OrderInv'
  OBVIOUS
<1>1. CASE SkipFile \/ MissingFile \/ LoadFile \/ Loaded
  <2>1. pending' = <<>> /\ errors' = {}
    BY <1>1, NothingYet DEF NameInv
  <2>2. DOMAIN <<>> = {} /\ Range(<<>>) = {}
    BY NoneLeft
  <2> QED
    BY <2>1, <2>2 DEF OrderInv, Ordered
<1>2. CASE UNCHANGED <<globs, pending, direct, errors>> /\ (pc' = "imports" => pc = "imports")
  BY <1>2 DEF OrderInv, Ordered, Early
<1>3. CASE CollectImports
  BY <1>3, CollectOrder
<1>4. CASE RegisterNames
  BY <1>4, RegisterOrder
<1>5. CASE UnknownSymbol \/ DuplicateImport \/ KeepEntry \/ ImportSymbol
  BY <1>5, FinalizeOrder
<1>6. CASE NamesNext \/ FinalizeNext \/ Verdict \/ LowerCall \/ LowerCallPanics
  BY <1>2, <1>6 DEF NamesNext, FinalizeNext, Verdict, LowerCall, LowerCallPanics, scopes
<1>7. CASE UNCHANGED vars
  BY <1>2, <1>7 DEF vars, scopes
<1> QED
  BY <1>1, <1>3, <1>4, <1>5, <1>6, <1>7 DEF Next

LEMMA OrderInvariant == Spec => []OrderInv
<1>1. Init => OrderInv
  BY NoneLeft DEF Init, OrderInv, Ordered
<1> QED
  BY <1>1, NameInvariant, StepOrder, PTL DEF Spec

(***************************************************************************)
(* What is refused is refused for a reason in the text, and the order of the     *)
(* modules tells only where a symbol is asked of a later module that imports it   *)
(* itself (finalization of named imports).                                   *)
(***************************************************************************)
THEOREM RefusedRightly == Spec => []RefusalsAreRight
<1>1. NameInv /\ OrderInv => RefusalsAreRight
  <2> SUFFICES ASSUME NameInv, OrderInv, pc = "rejected", NEW e \in errors
               PROVE  /\ e.err = "unknown_symbol" =>
                           /\ e.name \notin Defined(e.from)
                           /\ e.name \in DOMAIN direct[e.from] => e.mod < e.from
                      /\ e.err = "duplicate_import" =>
                           /\ e.name \notin Defined(e.mod)
                           /\ \E i, j \in DOMAIN Requests(e.mod) :
                                i # j /\ Requests(e.mod)[i].as = e.name /\ Requests(e.mod)[j].as = e.name
    BY DEF RefusalsAreRight
  <2>1. Rightly(e) /\ Early(e)
    BY DEF NameInv, Refusals, OrderInv
  <2>2. ASSUME e.err = "duplicate_import"
        PROVE  \E i, j \in DOMAIN Requests(e.mod) :
                 i # j /\ Requests(e.mod)[i].as = e.name /\ Requests(e.mod)[j].as = e.name
    <3>1. PICK v \in Wanted(e.mod), w \in Wanted(e.mod) : v # w /\ v.as = e.name /\ w.as = e.name
      BY <2>1, <2>2 DEF Rightly
    <3>2. Range(Requests(e.mod)) = Wanted(e.mod)
      BY <2>1, <2>2, RequestsFacts DEF NameInv, Reading, Rightly
    <3>3. PICK i \in DOMAIN Requests(e.mod), j \in DOMAIN Requests(e.mod) :
            Requests(e.mod)[i] = v /\ Requests(e.mod)[j] = w
      BY <3>1, <3>2, InRange
    <3> QED
      BY <3>1, <3>3
  <2> QED
    BY <2>1, <2>2 DEF Rightly, Early
<1> QED
  BY <1>1, NameInvariant, OrderInvariant, PTL

(***************************************************************************)
(* In an accepted program an import stands for the module of the file it points *)
(* at.  No text in it is anything but a stem or of:core, so all its files lie   *)
(* beside the first one, and there a stem is the file.                        *)
(***************************************************************************)
THEOREM ImportsFindTheirFile == StartIsOf => (Spec => []ImportsGetTheirFile)
<1> SUFFICES ASSUME StartIsOf PROVE Spec => []ImportsGetTheirFile
  OBVIOUS
<1>1. LoadInv /\ NameInv => ImportsGetTheirFile
  <2> SUFFICES ASSUME LoadInv, NameInv, pc = "accepted", NEW k \in ModuleId, NEW i \in Asked(k),
                      NEW m \in ByName(i.from), i.from # Core
               PROVE  modules[m].path = Join[modules[k].path][i.from]
    BY DEF ImportsGetTheirFile
  <2>1. /\ TypeInv /\ Files /\ DOMAIN globs = ModuleId /\ errors = {} /\ ~ Reading
        /\ 1 \in ModuleId /\ modules[1] = CoreModule
    BY AtTheVerdict, CoreIsKnown DEF LoadInv, Reading
  <2>2. \A j \in ModuleId : \A x \in Imports(modules[j]) : x.from \in Names
    BY <2>1, AskedIs DEF NameInv, TextsKnown, Known
  <2>3. \A t \in Names : t \in Stems \cup {Core}
    <3>1. \A t \in Names : \E j \in ModuleId : modules[j].name = t
      BY DEF Names, ByName, ModuleId
    <3> QED
      BY <3>1, NamesAreStems
  <2>4. ~ Elsewhere
    BY <2>2, <2>3 DEF Elsewhere
  <2>5. \A j \in ModuleId : modules[j].path # Core => Beside(modules[j].path)
    BY <2>4 DEF LoadInv, Places
  <2>6. modules[m].path = Join[Start][i.from]
    <3>1. m \in ModuleId /\ modules[m].name = i.from
      BY DEF ByName, ModuleId
    <3>2. modules[m].path # Core
      <4>1. CoreModule.name = Core
        BY DEF CoreModule
      <4> QED
        BY <2>1, <3>1, <4>1 DEF Files
    <3>3. modules[m].name = StemOf[modules[m].path]
      BY <2>1, <3>1, <3>2 DEF Files
    <3> QED
      BY <2>5, <3>1, <3>2, <3>3 DEF Beside
  <2>7. Join[modules[k].path][i.from] = Join[Start][i.from]
    <3>1. i \in Imports(modules[k])
      BY AskedIs
    <3>2. i.from \in Target /\ modules[k].path \in Path
      BY <2>1, <3>1, ImportFacts
    <3>3. modules[k].path # Core
      BY <3>2, PathsAssumption
    <3> QED
      BY <2>5, <3>2, <3>3 DEF Beside
  <2> QED
    BY <2>6, <2>7
<1> QED
  BY <1>1, LoadInvariant, NameInvariant, PTL

-----------------------------------------------------------------------------
(***************************************************************************)
(* Calls.                                                                   *)
(***************************************************************************)
LEMMA FirstIsThere ==
  ASSUME NEW js \in SUBSET Nat, js # {}
  PROVE  First(js) \in js
<1> DEFINE R == OpToRel(<, Nat)
<1>1. IsWellFoundedOn(R, Nat)
  BY NatLessThanWellFounded
<1>2. \A x, y \in Nat : <<y, x>> \in R <=> y < x
  BY DEF OpToRel
<1> HIDE DEF R
<1>3. PICK x \in js : \A y \in js : ~ (<<y, x>> \in R)
  BY <1>1, WFMin
<1>4. x \in Nat /\ \A y \in js : y \in Nat /\ ~ (y < x)
  BY <1>2, <1>3
<1>5. \A y \in js : x <= y
  BY <1>4
<1>6. \E m \in js : \A y \in js : m <= y
  BY <1>5
<1> QED
  BY <1>6 DEF First

(* A name is looked up in the scope of one module, under itself. *)
LEMMA LookedUp ==
  ASSUME TypeInv, DOMAIN globs = ModuleId, DOMAIN direct = ModuleId,
         NEW k \in ModuleId, NEW n, NEW e \in LookupInScope(k, n)
  PROVE  /\ LookupInScope(k, n) = {e}
         /\ \E j \in ModuleId : n \in DOMAIN direct[j] /\ e = direct[j][n]
<1>1. CASE n \in DOMAIN direct[k]
  BY <1>1 DEF LookupInScope
<1>2. CASE n \notin DOMAIN direct[k]
  <2> DEFINE js == Offering(k, n)
             g  == globs[k]
  <2>1. js # {} /\ LookupInScope(k, n) = {direct[g[First(js)]][n]}
    BY <1>2 DEF LookupInScope
  <2>2. g \in Seq(ModuleId)
    BY TypeParts, Ranges DEF ImportsOK
  <2>3. DOMAIN g = 1 .. Len(g) /\ Len(g) \in Nat /\ \A j \in DOMAIN g : g[j] \in ModuleId
    BY <2>2, Ranges
  <2>4. js = {j \in DOMAIN g : n \in DOMAIN direct[g[j]]}
    BY DEF Offering
  <2>5. js \in SUBSET Nat
    BY <2>3, <2>4
  <2> HIDE DEF js, g
  <2>6. First(js) \in js
    BY <2>1, <2>5, FirstIsThere
  <2> QED
    BY <2>1, <2>3, <2>4, <2>6
<1> QED
  BY <1>1, <1>2

(* Where names are plain, what the validator found is the one function of the name. *)
LEMMA TheFunctionIsFound ==
  ASSUME TypeInv, DOMAIN globs = ModuleId, DOMAIN direct = ModuleId, PlainNames,
         NEW k \in ModuleId, NEW n, NEW e \in LookupInScope(k, n), KindOf(e) = "fn"
  PROVE  TheFunction(e) \in FreeFunctions(n) /\ \A f \in FreeFunctions(n) : f = TheFunction(e)
<1>1. PICK j \in ModuleId : n \in DOMAIN direct[j] /\ e = direct[j][n]
  BY LookedUp
<1>2. e \in Meaning /\ e.name \in Defined(e.mod)
  BY <1>1, TypeParts DEF ScopesOK
<1>3. e.name = n
  BY <1>1 DEF PlainNames
<1> DEFINE f == TheFunction(e)
<1>4. f.mod = e.mod /\ f.name = n /\ f.k = "fn"
  BY <1>3 DEF TheFunction
<1>5. f \in [mod : DOMAIN modules, name : Symbol, k : {"fn", "method"}]
  BY <1>2 DEF TheFunction, Meaning, ModuleId
<1>6. KindOf(f) = KindOf(e)
  BY <1>3, <1>4 DEF KindOf
<1>7. Defines(f.mod, f.name) # {}
  BY <1>2, <1>3, <1>4 DEF Defined
<1> HIDE DEF f
<1>8. f \in Functions
  BY <1>4, <1>5, <1>6, <1>7 DEF Functions
<1>9. f \in FreeFunctions(n)
  BY <1>4, <1>8 DEF FreeFunctions
<1>10. \A g \in FreeFunctions(n) : g = f
  BY <1>4, <1>8 DEF FreeFunctions, PlainNames
<1> QED
  BY <1>9, <1>10 DEF f

LEMMA PlainStays ==
  ASSUME modules' = modules, direct' = direct
  PROVE  PlainNames' <=> PlainNames
<1> DEFINE A == \A f, g \in Functions : f.k = "fn" /\ g.k = "fn" /\ f.name = g.name => f = g
           B == \A k \in ModuleId : \A n \in DOMAIN direct[k] :
                  KindOf(direct[k][n]) = "fn" => direct[k][n].name = n
<1>1. /\ \A e : KindOf(e)' = KindOf(e)
      /\ \A k, n : Defines(k, n)' = Defines(k, n)
  BY DEF KindOf, Defines
<1>2. Functions' = Functions
  BY <1>1 DEF Functions
<1>3. A' <=> A
  BY <1>2
<1>4. \A k, n : KindOf(direct[k][n])' = KindOf(direct[k][n])
  BY DEF KindOf, Defines
<1>5. B' <=> B
  BY <1>4 DEF ModuleId
<1>6. (PlainNames <=> A /\ B) /\ (PlainNames' <=> A' /\ B')
  BY DEF PlainNames
<1> HIDE DEF A, B
<1> QED
  BY <1>3, <1>5, <1>6

LEMMA StepCallees == TypeInv /\ CalleesAgree /\ [Next]_vars => CalleesAgree'
<1> SUFFICES ASSUME TypeInv, CalleesAgree, [Next]_vars, pc' \in {"lowered", "panicked"}, PlainNames'
             PROVE  pc' = "lowered" /\ Lowered'
  BY DEF CalleesAgree
<1>1. CASE UNCHANGED vars
  <2>1. /\ modules' = modules /\ globs' = globs /\ direct' = direct /\ call' = call /\ pc' = pc
    BY <1>1 DEF vars, files, scopes
  <2>2. PlainNames' <=> PlainNames
    BY <2>1, PlainStays
  <2>3. Lowered' = Lowered
    BY <2>1 DEF Lowered, LookupInScope, Offering
  <2> QED
    BY <2>1, <2>2, <2>3 DEF CalleesAgree
<1>2. CASE LowerCall \/ LowerCallPanics
  <2>1. pc = "accepted" /\ modules' = modules /\ direct' = direct /\ globs' = globs
    BY <1>2 DEF LowerCall, LowerCallPanics, files, scopes
  <2>2. DOMAIN globs = ModuleId /\ DOMAIN direct = ModuleId
    BY <2>1, AtTheVerdict
  <2>3. \A k, n : LookupInScope(k, n)' = LookupInScope(k, n)
    BY <2>1 DEF LookupInScope, Offering
  <2>4. PlainNames' <=> PlainNames
    BY <2>1, PlainStays
  <2>5. PlainNames
    BY <2>4
  <2>6. CASE LowerCallPanics
    <3>0. PICK k \in DOMAIN modules \ {1} : \E n \in Callable(k) : FreeFunctions(n) = {}
      BY <2>6 DEF LowerCallPanics
    <3>1. PICK n \in Callable(k) : FreeFunctions(n) = {}
      BY <3>0
    <3>2. PICK e \in LookupInScope(k, n) : KindOf(e) = "fn"
      BY <3>1 DEF Callable
    <3>3. TheFunction(e) \in FreeFunctions(n)
      BY <2>2, <2>5, <3>2, TheFunctionIsFound DEF ModuleId
    <3> QED
      BY <3>1, <3>3
  <2>7. CASE LowerCall
    <3>0. PICK k \in DOMAIN modules \ {1} : \E n \in Callable(k) : \E f \in FreeFunctions(n) :
            call' = {[mod |-> k, name |-> n, target |-> f]}
      BY <2>7 DEF LowerCall
    <3>1. PICK n \in Callable(k) : \E f \in FreeFunctions(n) :
            call' = {[mod |-> k, name |-> n, target |-> f]}
      BY <3>0
    <3>2. PICK f \in FreeFunctions(n) : call' = {[mod |-> k, name |-> n, target |-> f]}
      BY <3>1
    <3>3. PICK e \in LookupInScope(k, n) : KindOf(e) = "fn"
      BY <3>1 DEF Callable
    <3>4. f = TheFunction(e)
      BY <2>2, <2>5, <3>3, TheFunctionIsFound DEF ModuleId
    <3>5. LookupInScope(k, n) = {e}
      BY <2>2, <3>3, LookedUp DEF ModuleId
    <3>6. {f} = {TheFunction(x) : x \in LookupInScope(k, n)}
      BY <3>4, <3>5
    <3>7. \A c \in call' : {c.target} = {TheFunction(x) : x \in LookupInScope(c.mod, c.name)}
      BY <3>2, <3>6
    <3>8. Lowered'
      BY <2>3, <3>7 DEF Lowered
    <3> QED
      BY <2>7, <3>8 DEF LowerCall
  <2> QED
    BY <1>2, <2>6, <2>7
<1>3. pc \in {"accepted", "lowered", "panicked"} => LowerCall \/ LowerCallPanics \/ UNCHANGED vars
  BY DEF Next, SkipFile, MissingFile, LoadFile, Loaded, CollectImports, NamesNext, RegisterNames,
     FinalizeNext, UnknownSymbol, DuplicateImport, KeepEntry, ImportSymbol, Finalizing, Verdict
<1>4. pc \notin {"accepted", "lowered", "panicked"} => UNCHANGED vars
  BY DEF Next, SkipFile, MissingFile, LoadFile, Loaded, CollectImports, NamesNext, RegisterNames,
     FinalizeNext, UnknownSymbol, DuplicateImport, KeepEntry, ImportSymbol, Verdict, LowerCall,
     LowerCallPanics
<1> QED
  BY <1>1, <1>2, <1>3, <1>4

(***************************************************************************)
(* Where functions have names of their own and are imported under them, a call   *)
(* reaches the function the validator resolved (check_call, lookup_free_function, *)
(* lower_call).                                                             *)
(***************************************************************************)
THEOREM CallsReachTheirFunction == Spec => []CalleesAgree
<1>1. Init => CalleesAgree
  BY DEF Init, CalleesAgree
<1> QED
  BY <1>1, InitTypes, TypeStep, StepCallees, PTL DEF Spec
==============================================================================
