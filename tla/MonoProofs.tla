------------------------------ MODULE MonoProofs ------------------------------
(***************************************************************************)
(* Theorems about Mono for every set of instances and every set of programs *)
(* over them, infinite ones included.                                       *)
(***************************************************************************)
EXTENDS Mono, SequenceTheorems, TLAPS

(***************************************************************************)
(* The script of a unit is a sequence of well-formed operations, and only a *)
(* vtable's script seals: itself, right after its slots.                    *)
(***************************************************************************)
MentionOp == [op : {"mention"}, unit : FnInst \cup TypeInst]
TaskOp    == [op : {"task", "task_unless_built"}, unit : VTableKey]
PlainOp   == MentionOp \cup TaskOp

LEMMA MentionType ==
  ASSUME NEW xs \in Seq(FnInst \cup TypeInst)
  PROVE  /\ Mention(xs) \in Seq(PlainOp)
         /\ Len(Mention(xs)) = Len(xs)
         /\ \A k \in 1 .. Len(xs) :
              Mention(xs)[k] = [op |-> "mention", unit |-> xs[k]]
<1>1. Len(xs) \in Nat /\ DOMAIN xs = 1 .. Len(xs)
  OBVIOUS
<1>2. \A k \in 1 .. Len(xs) : [op |-> "mention", unit |-> xs[k]] \in PlainOp
  BY DEF PlainOp, MentionOp
<1>3. Mention(xs) \in [1 .. Len(xs) -> PlainOp]
  BY <1>1, <1>2 DEF Mention
<1>4. Mention(xs) \in Seq(PlainOp)
  BY <1>1, <1>3, SeqDef
<1>5. Len(Mention(xs)) = Len(xs)
  BY <1>1, <1>3, <1>4, LenProperties
<1> QED
  BY <1>1, <1>4, <1>5 DEF Mention

LEMMA VTableOpsType ==
  ASSUME NEW s \in StructInst, NEW ifaces \in Seq(IfaceInst),
         NEW op \in {"task", "task_unless_built"}
  PROVE  VTableOps(s, ifaces, op) \in Seq(PlainOp)
<1> DEFINE n == Len(ifaces)
<1>1. n \in Nat /\ 2 * n \in Nat
  OBVIOUS
<1>2. ASSUME NEW k \in 1 .. 2 * n
      PROVE  (k + 1) \div 2 \in 1 .. n
  BY <1>1
<1>3. ASSUME NEW k \in 1 .. 2 * n
      PROVE  ifaces[(k + 1) \div 2] \in IfaceInst
  BY <1>2
<1>4. ASSUME NEW k \in 1 .. 2 * n, NEW i \in IfaceInst
      PROVE  (IF k % 2 = 1 THEN [op |-> "mention", unit |-> i]
                           ELSE [op |-> op, unit |-> <<s, i>>]) \in PlainOp
  BY DEF PlainOp, MentionOp, TaskOp, TypeInst, VTableKey
<1>5. VTableOps(s, ifaces, op) \in [1 .. 2 * n -> PlainOp]
  BY <1>3, <1>4 DEF VTableOps
<1> QED
  BY <1>1, <1>5, SeqDef

LEMMA PlainScript ==
  ASSUME NEW p \in Programs, NEW u \in FnInst \cup TypeInst
  PROVE  Script(p, u) \in Seq(PlainOp)
<1>1. p \in Program
  BY ProgramsAssumption
<1>2. CASE u \in FnInst
  <2>1. p.uses[u] \in Seq(FnInst \cup TypeInst)
    BY <1>1, <1>2 DEF Program
  <2> QED
    BY <2>1, MentionType, <1>2 DEF Script
<1>3. CASE u \in StructInst
  <2>1. p.fields[u] \in Seq(TypeInst) /\ p.implements[u] \in Seq(IfaceInst)
    BY <1>1, <1>3 DEF Program, TypeInst
  <2>2. Mention(p.fields[u]) \in Seq(PlainOp)
    BY <2>1, SeqMonotonic, MentionType
  <2>3. VTableOps(u, p.implements[u], "task") \in Seq(PlainOp)
    BY <1>3, <2>1, VTableOpsType
  <2>4. StructScript(p, u) \in Seq(PlainOp)
    BY <2>2, <2>3, ConcatProperties DEF StructScript
  <2> QED
    BY <2>4, <1>3, KindsAssumption DEF Script, TypeInst
<1>4. CASE u \in IfaceInst
  <2>1. p.fields[u] \in Seq(TypeInst) /\ p.extends[u] \in Seq(IfaceInst)
    BY <1>1, <1>4 DEF Program, TypeInst
  <2>2. p.fields[u] \in Seq(FnInst \cup TypeInst) /\ p.extends[u] \in Seq(FnInst \cup TypeInst)
    BY <2>1, SeqMonotonic DEF TypeInst
  <2>3. p.fields[u] \o p.extends[u] \in Seq(FnInst \cup TypeInst)
    BY <2>2, ConcatProperties
  <2> QED
    BY <2>3, MentionType, <1>4, KindsAssumption DEF Script, TypeInst
<1>5. CASE u \in UnionInst
  <2>1. p.fields[u] \in Seq(TypeInst)
    BY <1>1, <1>5 DEF Program, TypeInst
  <2>2. p.fields[u] \in Seq(FnInst \cup TypeInst)
    BY <2>1, SeqMonotonic
  <2> QED
    BY <2>2, MentionType, <1>5, KindsAssumption DEF Script, TypeInst
<1> QED
  BY <1>2, <1>3, <1>4, <1>5 DEF TypeInst

(***************************************************************************)
(* A sequence with one element put between two others.                      *)
(***************************************************************************)
LEMMA Sandwich ==
  ASSUME NEW S, NEW a \in Seq(S), NEW e \in S, NEW c \in Seq(S)
  PROVE  /\ a \o <<e>> \o c \in Seq(S)
         /\ Len(a \o <<e>> \o c) = Len(a) + 1 + Len(c)
         /\ \A i \in 1 .. Len(a) : (a \o <<e>> \o c)[i] = a[i]
         /\ (a \o <<e>> \o c)[Len(a) + 1] = e
         /\ \A i \in Len(a) + 2 .. Len(a) + 1 + Len(c) :
              /\ i - (Len(a) + 1) \in 1 .. Len(c)
              /\ (a \o <<e>> \o c)[i] = c[i - (Len(a) + 1)]
OBVIOUS

LEMMA SealingScript ==
  ASSUME NEW p \in Programs, NEW v \in VTableKey
  PROVE  /\ p.impl[v] \in Seq(FnInst)
         /\ Script(p, v) \in Seq(Op)
         /\ Len(Script(p, v)) > Len(p.impl[v])
         /\ \A k \in 1 .. Len(Script(p, v)) :
              Script(p, v)[k].op = "seal" <=> k = Len(p.impl[v]) + 1
         /\ Script(p, v)[Len(p.impl[v]) + 1].unit = v
         /\ \A k \in 1 .. Len(p.impl[v]) :
              Script(p, v)[k] = [op |-> "mention", unit |-> p.impl[v][k]]
<1> DEFINE a == Mention(p.impl[v])
           e == [op |-> "seal", unit |-> v]
           c == VTableOps(v[1], p.extends[v[2]], "task_unless_built")
           n == Len(p.impl[v])
           s == Script(p, v)
<1>1. /\ v[1] \in StructInst /\ v[2] \in IfaceInst
      /\ p.impl[v] \in Seq(FnInst) /\ p.extends[v[2]] \in Seq(IfaceInst)
  BY ProgramsAssumption DEF Program, VTableKey
<1>2. p.impl[v] \in Seq(FnInst \cup TypeInst)
  BY <1>1, SeqMonotonic
<1>3. /\ a \in Seq(PlainOp) /\ Len(a) = n
      /\ \A k \in 1 .. n : a[k] = [op |-> "mention", unit |-> p.impl[v][k]]
  BY <1>2, MentionType
<1>4. c \in Seq(PlainOp)
  BY <1>1, VTableOpsType
<1>5. PlainOp \subseteq Op
  BY DEF PlainOp, MentionOp, TaskOp, Op
<1>6. e \in Op /\ e.op = "seal" /\ e.unit = v
  BY DEF Op
<1>7. a \in Seq(Op) /\ c \in Seq(Op)
  BY <1>3, <1>4, <1>5, SeqMonotonic
<1>8. n \in Nat /\ Len(c) \in Nat
  BY <1>1, <1>4, LenProperties
<1>9. s = a \o <<e>> \o c
  BY KindsAssumption DEF Script, VTableScript, TypeInst
<1>10. \A i \in 1 .. n : a[i].op # "seal"
  <2> HIDE DEF a, n
  <2> QED
    BY <1>3
<1>11. \A i \in 1 .. Len(c) : c[i].op # "seal"
  BY <1>4, ElementOfSeq DEF PlainOp, MentionOp, TaskOp
<1> HIDE DEF a, e, c, n, s
<1>12. /\ s \in Seq(Op)
       /\ Len(s) = n + 1 + Len(c)
       /\ \A i \in 1 .. n : s[i] = a[i]
       /\ s[n + 1] = e
       /\ \A i \in n + 2 .. n + 1 + Len(c) :
            i - (n + 1) \in 1 .. Len(c) /\ s[i] = c[i - (n + 1)]
  <2> DEFINE t == a \o <<e>> \o c
  <2>1. /\ t \in Seq(Op)
        /\ Len(t) = Len(a) + 1 + Len(c)
        /\ \A i \in 1 .. Len(a) : t[i] = a[i]
        /\ t[Len(a) + 1] = e
        /\ \A i \in Len(a) + 2 .. Len(a) + 1 + Len(c) :
             i - (Len(a) + 1) \in 1 .. Len(c) /\ t[i] = c[i - (Len(a) + 1)]
    BY <1>6, <1>7, Sandwich
  <2> HIDE DEF t
  <2> QED
    BY <2>1, <1>3, <1>9 DEF t
<1>13. \A k \in 1 .. Len(s) : s[k].op = "seal" <=> k = n + 1
  <2> TAKE k \in 1 .. Len(s)
  <2>1. CASE k \in 1 .. n
    BY <2>1, <1>8, <1>10, <1>12
  <2>2. CASE k = n + 1
    BY <2>2, <1>6, <1>12
  <2>3. CASE k \in n + 2 .. n + 1 + Len(c)
    <3>1. s[k].op # "seal"
      BY <2>3, <1>11, <1>12
    <3> QED
      BY <3>1, <2>3, <1>8
  <2> QED
    BY <2>1, <2>2, <2>3, <1>8, <1>12
<1>14. Len(s) > n
  BY <1>8, <1>12
<1>15. s[n + 1].unit = v
  BY <1>6, <1>12
<1>16. \A k \in 1 .. n : s[k] = [op |-> "mention", unit |-> p.impl[v][k]]
  BY <1>3, <1>12
<1> QED
  BY <1>1, <1>12, <1>13, <1>14, <1>15, <1>16 DEF n, s

LEMMA ScriptType ==
  ASSUME NEW p \in Programs, NEW u \in Unit
  PROVE  Script(p, u) \in Seq(Op)
<1>1. CASE u \in VTableKey
  BY <1>1, SealingScript
<1>2. CASE u \in FnInst \cup TypeInst
  <2>1. PlainOp \subseteq Op
    BY DEF PlainOp, MentionOp, TaskOp, Op
  <2> QED
    BY <1>2, <2>1, PlainScript, SeqMonotonic
<1> QED
  BY <1>1, <1>2 DEF Unit

(***************************************************************************)
(* Only a vtable seals, and it seals itself when all its slots are behind.  *)
(***************************************************************************)
LEMMA SealIsOwn ==
  ASSUME NEW p \in Programs, NEW u \in Unit,
         NEW k \in 1 .. Len(Script(p, u)), Script(p, u)[k].op = "seal"
  PROVE  /\ u \in VTableKey /\ Script(p, u)[k].unit = u
         /\ k = Len(p.impl[u]) + 1
<1>1. u \in VTableKey
  <2> SUFFICES ASSUME u \in FnInst \cup TypeInst
               PROVE  FALSE
    BY DEF Unit
  <2>1. Script(p, u)[k] \in PlainOp
    BY PlainScript, ElementOfSeq
  <2> QED
    BY <2>1 DEF PlainOp, MentionOp, TaskOp
<1> QED
  BY <1>1, SealingScript

(***************************************************************************)
(* The call stack: advancing, pushing and popping an activation.            *)
(***************************************************************************)
LEMMA TopType ==
  ASSUME prog \in Programs, stack \in Seq(Activation), Running
  PROVE  /\ Len(stack) \in Nat \ {0} /\ DOMAIN stack = 1 .. Len(stack)
         /\ Top \in Activation /\ Top = stack[Len(stack)]
         /\ Top.unit \in Unit /\ Top.next \in Nat \ {0}
         /\ Script(prog, Top.unit) \in Seq(Op)
         /\ Len(Script(prog, Top.unit)) \in Nat
<1>1. Len(stack) \in Nat \ {0} /\ DOMAIN stack = 1 .. Len(stack)
  BY EmptySeq, LenProperties DEF Running
<1>2. Top \in Activation
  BY <1>1, ElementOfSeq DEF Top
<1>3. Top.unit \in Unit /\ Top.next \in Nat \ {0}
  BY <1>2 DEF Activation
<1>4. Script(prog, Top.unit) \in Seq(Op)
  BY <1>3, ScriptType
<1> QED
  BY <1>1, <1>2, <1>3, <1>4, LenProperties DEF Top

LEMMA AdvancedType ==
  ASSUME prog \in Programs, stack \in Seq(Activation), Running
  PROVE  /\ Advanced \in Seq(Activation)
         /\ Len(Advanced) = Len(stack) /\ DOMAIN Advanced = DOMAIN stack
         /\ \A k \in DOMAIN stack : k # Len(stack) => Advanced[k] = stack[k]
         /\ Advanced[Len(stack)] = [unit |-> Top.unit, next |-> Top.next + 1]
         /\ \A k \in DOMAIN stack : Advanced[k].unit = stack[k].unit
<1> DEFINE a == [unit |-> Top.unit, next |-> Top.next + 1]
<1>1. /\ Len(stack) \in DOMAIN stack /\ Top = stack[Len(stack)]
      /\ Top.unit \in Unit /\ Top.next \in Nat \ {0}
  BY TopType
<1>2. a \in Activation /\ a.unit = Top.unit
  BY <1>1 DEF Activation
<1> HIDE DEF a
<1>3. Advanced = [stack EXCEPT ![Len(stack)] = a]
  BY DEF Advanced, a
<1>4. /\ Advanced \in Seq(Activation) /\ Len(Advanced) = Len(stack)
      /\ \A k \in 1 .. Len(stack) : Advanced[k] = IF k = Len(stack) THEN a ELSE stack[k]
  BY <1>1, <1>2, <1>3, ExceptSeq
<1>5. DOMAIN Advanced = DOMAIN stack /\ DOMAIN stack = 1 .. Len(stack)
  BY <1>3, LenProperties
<1>6. Advanced[Len(stack)] = a
  BY <1>1, <1>4, <1>5
<1> QED
  BY <1>1, <1>2, <1>4, <1>5, <1>6 DEF a

LEMMA FrameType ==
  ASSUME NEW u \in Unit
  PROVE  Frame(u) \in Activation /\ Frame(u).unit = u /\ Frame(u).next = 1
BY DEF Frame, Activation

LEMMA PushType ==
  ASSUME NEW s \in Seq(Activation), NEW a \in Activation
  PROVE  /\ Append(s, a) \in Seq(Activation)
         /\ DOMAIN s = 1 .. Len(s) /\ Len(s) \in Nat
         /\ DOMAIN Append(s, a) = DOMAIN s \cup {Len(s) + 1}
         /\ Len(Append(s, a)) = Len(s) + 1
         /\ \A k \in DOMAIN s : Append(s, a)[k] = s[k]
         /\ Append(s, a)[Len(s) + 1] = a
<1>1. DOMAIN s = 1 .. Len(s) /\ Len(s) \in Nat
  BY LenProperties
<1> QED
  BY <1>1, AppendProperties

LEMMA PopType ==
  ASSUME prog \in Programs, stack \in Seq(Activation), Running,
         NEW s, s = SubSeq(stack, 1, Len(stack) - 1)
  PROVE  /\ s \in Seq(Activation)
         /\ DOMAIN s = DOMAIN stack \ {Len(stack)}
         /\ DOMAIN s = 1 .. Len(stack) - 1 /\ Len(s) = Len(stack) - 1
         /\ \A k \in DOMAIN s : s[k] = stack[k]
<1>1. Len(stack) \in Nat \ {0} /\ DOMAIN stack = 1 .. Len(stack)
  BY TopType
<1>2. /\ s \in Seq(Activation)
      /\ Len(s) = IF 1 <= Len(stack) - 1 THEN (Len(stack) - 1) - 1 + 1 ELSE 0
      /\ \A i \in 1 .. (Len(stack) - 1) - 1 + 1 : s[i] = stack[1 + i - 1]
  BY <1>1, SubSeqProperties
<1>3. Len(s) = Len(stack) - 1 /\ DOMAIN s = 1 .. Len(s)
  BY <1>1, <1>2, LenProperties
<1>4. \A i \in 1 .. Len(stack) - 1 : s[i] = stack[i]
  BY <1>1, <1>2
<1> QED
  BY <1>1, <1>2, <1>3, <1>4

(***************************************************************************)
(* How far an activation is: nothing before its next operation that is one   *)
(* of ops still lies outside the set of known units.                         *)
(***************************************************************************)
Covered(p, a, ops, known) ==
  /\ a.next <= Len(Script(p, a.unit)) + 1
  /\ \A j \in 1 .. a.next - 1 :
       Script(p, a.unit)[j].op \in ops => Script(p, a.unit)[j].unit \in known

LEMMA CoveredGrows ==
  ASSUME NEW p, NEW a, NEW ops, NEW known, NEW more, known \subseteq more,
         Covered(p, a, ops, known)
  PROVE  Covered(p, a, ops, more)
BY DEF Covered

LEMMA CoveredFrame ==
  ASSUME NEW p \in Programs, NEW u \in Unit, NEW ops, NEW known
  PROVE  Covered(p, Frame(u), ops, known)
<1>1. Len(Script(p, u)) \in Nat
  BY ScriptType, LenProperties
<1> QED
  BY <1>1, FrameType DEF Covered

LEMMA CoveredNext ==
  ASSUME NEW p \in Programs, NEW a \in Activation, NEW ops, NEW known, NEW more,
         Covered(p, a, ops, known), known \subseteq more,
         a.next <= Len(Script(p, a.unit)),
         Script(p, a.unit)[a.next].op \in ops => Script(p, a.unit)[a.next].unit \in more
  PROVE  Covered(p, [unit |-> a.unit, next |-> a.next + 1], ops, more)
<1> DEFINE s == Script(p, a.unit)
<1>1. a.unit \in Unit /\ a.next \in Nat \ {0}
  BY DEF Activation
<1>2. Len(s) \in Nat
  BY <1>1, ScriptType, LenProperties
<1>3. /\ a.next <= Len(s)
      /\ \A j \in 1 .. a.next - 1 : s[j].op \in ops => s[j].unit \in known
      /\ s[a.next].op \in ops => s[a.next].unit \in more
  BY DEF Covered
<1> HIDE DEF s
<1>4. \A j \in 1 .. a.next : s[j].op \in ops => s[j].unit \in more
  <2> TAKE j \in 1 .. a.next
  <2>1. CASE j = a.next
    BY <2>1, <1>3
  <2>2. CASE j \in 1 .. a.next - 1
    BY <2>2, <1>3
  <2> QED
    BY <2>1, <2>2, <1>1
<1>5. (a.next + 1) - 1 = a.next /\ a.next + 1 <= Len(s) + 1
  BY <1>1, <1>2, <1>3
<1> QED
  BY <1>4, <1>5 DEF Covered, s

(***************************************************************************)
(* Type correctness.  SealVTable reads a cached id for every slot, so the    *)
(* type invariant is inductive only together with the fact that whatever an  *)
(* activation has mentioned so far is cached; Return reads the cached id of  *)
(* the unit that returns, so that one has to be cached too.                  *)
(***************************************************************************)
Known        == DOMAIN monoFns \cup DOMAIN monoTypes
MentionsDone == \A k \in DOMAIN stack : Covered(prog, stack[k], {"mention"}, Known)
FramesKnown  ==
  /\ worklist \in Seq(DOMAIN monoFns \cup VTableKey)
  /\ \A k \in DOMAIN stack : stack[k].unit \in Known \cup VTableKey
TypeInv      == TypeOK /\ MentionsDone /\ FramesKnown

LEMMA OpType ==
  ASSUME TypeInv, Running, ~ Finished
  PROVE  /\ prog \in Programs /\ stack \in Seq(Activation)
         /\ NextOp \in Op /\ Top.next \in 1 .. Len(Script(prog, Top.unit))
         /\ NextOp = Script(prog, Top.unit)[Top.next]
<1>1. prog \in Programs /\ stack \in Seq(Activation)
  BY DEF TypeInv, TypeOK, ControlOK
<1>2. /\ Top.next \in Nat \ {0} /\ Script(prog, Top.unit) \in Seq(Op)
      /\ Len(Script(prog, Top.unit)) \in Nat
  BY <1>1, TopType
<1>3. Top.next \in 1 .. Len(Script(prog, Top.unit))
  BY <1>2 DEF Finished
<1>4. NextOp = Script(prog, Top.unit)[Top.next]
  BY DEF NextOp
<1> QED
  BY <1>1, <1>2, <1>3, <1>4, ElementOfSeq

LEMMA AdvancedCovered ==
  ASSUME TypeInv, Running, ~ Finished, NEW ops, NEW known, NEW more,
         \A k \in DOMAIN stack : Covered(prog, stack[k], ops, known),
         known \subseteq more,
         NextOp.op \in ops => NextOp.unit \in more
  PROVE  \A k \in DOMAIN Advanced : Covered(prog, Advanced[k], ops, more)
<1>1. prog \in Programs /\ stack \in Seq(Activation)
  BY OpType
<1>2. /\ DOMAIN Advanced = DOMAIN stack
      /\ \A k \in DOMAIN stack : k # Len(stack) => Advanced[k] = stack[k]
      /\ Advanced[Len(stack)] = [unit |-> Top.unit, next |-> Top.next + 1]
  BY <1>1, AdvancedType
<1>3. Len(stack) \in DOMAIN stack /\ Top = stack[Len(stack)] /\ Top \in Activation
  BY <1>1, TopType
<1>4. Covered(prog, Top, ops, known)
  BY <1>3
<1>5. Top.next \in 1 .. Len(Script(prog, Top.unit)) /\ NextOp = Script(prog, Top.unit)[Top.next]
  BY OpType
<1>6. Len(Script(prog, Top.unit)) \in Nat
  BY <1>1, TopType
<1>7. Top.next <= Len(Script(prog, Top.unit))
  BY <1>5, <1>6
<1>8. Covered(prog, [unit |-> Top.unit, next |-> Top.next + 1], ops, more)
  BY <1>1, <1>3, <1>4, <1>5, <1>7, CoveredNext
<1>9. \A k \in DOMAIN stack : Covered(prog, stack[k], ops, more)
  BY CoveredGrows
<1> QED
  BY <1>2, <1>8, <1>9

LEMMA MonoFnType ==
  ASSUME ControlOK, FnsOK, NEW f \in FnInst, MonoFn(f)
  PROVE  /\ worklist' \in Seq(FnInst \cup VTableKey)
         /\ nextFn' \in Nat /\ nextFn <= nextFn'
         /\ DOMAIN monoFns' = DOMAIN monoFns \cup {f}
         /\ \A g \in DOMAIN monoFns : monoFns'[g] = monoFns[g]
         /\ monoFns' \in [DOMAIN monoFns' -> 0 .. nextFn' - 1]
<1>1. CASE f \in DOMAIN monoFns
  <2>1. monoFns' = monoFns /\ nextFn' = nextFn /\ worklist' = worklist
    BY <1>1 DEF MonoFn
  <2>2. /\ nextFn \in Nat /\ worklist \in Seq(FnInst \cup VTableKey)
        /\ monoFns \in [DOMAIN monoFns -> 0 .. nextFn - 1]
    BY DEF ControlOK, FnsOK
  <2>3. DOMAIN monoFns \cup {f} = DOMAIN monoFns
    BY <1>1
  <2> QED
    BY <2>1, <2>2, <2>3
<1>2. CASE f \notin DOMAIN monoFns
  <2>1. /\ monoFns' = Put(monoFns, f, nextFn) /\ nextFn' = nextFn + 1
        /\ worklist' = Append(worklist, f)
    BY <1>2 DEF MonoFn
  <2>2. nextFn \in Nat /\ monoFns \in [DOMAIN monoFns -> 0 .. nextFn - 1]
    BY DEF FnsOK
  <2>3. /\ DOMAIN monoFns' = DOMAIN monoFns \cup {f}
        /\ \A g \in DOMAIN monoFns : monoFns'[g] = monoFns[g]
        /\ monoFns'[f] = nextFn
    BY <2>1, <1>2 DEF Put
  <2>4. \A g \in DOMAIN monoFns' : monoFns'[g] \in 0 .. nextFn' - 1
    BY <2>1, <2>2, <2>3
  <2>5. monoFns' \in [DOMAIN monoFns' -> 0 .. nextFn' - 1]
    BY <2>1, <2>4 DEF Put
  <2>6. worklist' \in Seq(FnInst \cup VTableKey)
    BY <2>1, AppendProperties DEF ControlOK
  <2> QED
    BY <2>1, <2>2, <2>3, <2>5, <2>6
<1> QED
  BY <1>1, <1>2

(***************************************************************************)
(* Mentioned functions are cached functions, mentioned types cached types.  *)
(***************************************************************************)
LEMMA SlotsType ==
  ASSUME TypeInv, About({"seal"})
  PROVE  /\ NextOp.unit \in VTableKey /\ NextOp.unit = Top.unit
         /\ prog.impl[NextOp.unit] \in Seq(FnInst)
         /\ \A k \in DOMAIN prog.impl[NextOp.unit] : prog.impl[NextOp.unit][k] \in DOMAIN monoFns
         /\ Slots(NextOp.unit) \in Seq(0 .. nextFn - 1)
<1> DEFINE v == NextOp.unit
<1>1. /\ Running /\ ~ Finished /\ NextOp.op = "seal"
  BY DEF About
<1>2. /\ prog \in Programs /\ stack \in Seq(Activation)
      /\ Top.next \in 1 .. Len(Script(prog, Top.unit))
      /\ NextOp = Script(prog, Top.unit)[Top.next]
  BY <1>1, OpType
<1>3. Top.unit \in Unit /\ Len(stack) \in DOMAIN stack /\ Top = stack[Len(stack)]
  BY <1>1, <1>2, TopType
<1>4. /\ Top.unit \in VTableKey /\ NextOp.unit = Top.unit
      /\ Top.next = Len(prog.impl[Top.unit]) + 1
  BY <1>1, <1>2, <1>3, SealIsOwn
<1>5. /\ prog.impl[v] \in Seq(FnInst)
      /\ \A k \in 1 .. Len(prog.impl[v]) :
           Script(prog, v)[k] = [op |-> "mention", unit |-> prog.impl[v][k]]
  BY <1>2, <1>4, SealingScript
<1>6. Covered(prog, Top, {"mention"}, Known)
  BY <1>3 DEF TypeInv, MentionsDone
<1>7. Len(prog.impl[v]) \in Nat /\ DOMAIN prog.impl[v] = 1 .. Len(prog.impl[v])
  BY <1>5, LenProperties
<1>8. Top.unit = v /\ Top.next - 1 = Len(prog.impl[v])
  BY <1>4, <1>7
<1>9. \A k \in 1 .. Len(prog.impl[v]) : prog.impl[v][k] \in Known
  <2>1. \A j \in 1 .. Len(prog.impl[v]) :
          Script(prog, v)[j].op \in {"mention"} => Script(prog, v)[j].unit \in Known
    BY <1>6, <1>8 DEF Covered
  <2> TAKE k \in 1 .. Len(prog.impl[v])
  <2>2. Script(prog, v)[k] = [op |-> "mention", unit |-> prog.impl[v][k]]
    BY <1>5
  <2>3. Script(prog, v)[k].op = "mention" /\ Script(prog, v)[k].unit = prog.impl[v][k]
    BY <2>2
  <2> QED
    BY <2>1, <2>3
<1>10. \A k \in 1 .. Len(prog.impl[v]) : prog.impl[v][k] \in FnInst
  BY <1>5, ElementOfSeq
<1>11. DOMAIN monoTypes \cap FnInst = {}
  BY KindsAssumption DEF TypeInv, TypeOK, TypesOK
<1>12. \A k \in DOMAIN prog.impl[v] : prog.impl[v][k] \in DOMAIN monoFns
  BY <1>7, <1>9, <1>10, <1>11 DEF Known
<1>13. \A g \in DOMAIN monoFns : monoFns[g] \in 0 .. nextFn - 1
  BY DEF TypeInv, TypeOK, FnsOK
<1>14. Slots(v) \in [1 .. Len(prog.impl[v]) -> 0 .. nextFn - 1]
  BY <1>7, <1>12, <1>13 DEF Slots
<1>15. Slots(v) \in Seq(0 .. nextFn - 1)
  BY <1>7, <1>14, SeqDef
<1> QED
  BY <1>4, <1>5, <1>12, <1>15

LEMMA TypeInit == Init => TypeInv
<1> SUFFICES ASSUME Init PROVE TypeInv
  OBVIOUS
<1>1. ControlOK
  BY DEF Init, ControlOK
<1>2. FnsOK /\ TypesOK /\ VTablesOK
  BY DEF Init, Empty, FnsOK, TypesOK, VTablesOK
<1>3. MentionsDone /\ FramesKnown
  BY DEF Init, MentionsDone, FramesKnown
<1> QED
  BY <1>1, <1>2, <1>3 DEF TypeInv, TypeOK

(* The cached ids stay in range when the counter grows. *)
LEMMA CallTypes ==
  ASSUME TypeOK, NEW f \in FnInst, MonoFn(f),
         UNCHANGED <<monoTypes, nextType, functions, types, vtables>>,
         entry' = entry \/ entry' = {monoFns'[f]}
  PROVE  FnsOK' /\ TypesOK' /\ VTablesOK' /\ Known \subseteq Known' /\ f \in Known'
<1>1. ControlOK /\ FnsOK /\ TypesOK /\ VTablesOK
  BY DEF TypeOK
<1>2. /\ nextFn \in Nat /\ nextFn' \in Nat /\ nextFn <= nextFn'
      /\ DOMAIN monoFns' = DOMAIN monoFns \cup {f}
      /\ monoFns' \in [DOMAIN monoFns' -> 0 .. nextFn' - 1]
  BY <1>1, MonoFnType DEF FnsOK
<1>3. 0 .. nextFn - 1 \subseteq 0 .. nextFn' - 1
  BY <1>2
<1>4. entry' \subseteq 0 .. nextFn' - 1
  <2>1. CASE entry' = entry
    BY <2>1, <1>1, <1>3 DEF FnsOK
  <2>2. CASE entry' = {monoFns'[f]}
    BY <2>2, <1>2
  <2> QED
    BY <2>1, <2>2
<1>5. FnsOK'
  <2>1. /\ DOMAIN monoFns \subseteq FnInst /\ DOMAIN functions \subseteq 0 .. nextFn - 1
        /\ functions \in [DOMAIN functions -> FnInst] /\ functions' = functions
    BY <1>1 DEF FnsOK
  <2> QED
    BY <2>1, <1>2, <1>3, <1>4 DEF FnsOK
<1>6. TypesOK'
  BY <1>1 DEF TypesOK
<1>7. VTablesOK'
  <2>1. /\ DOMAIN vtables \subseteq VTableKey /\ vtables' = vtables
        /\ vtables \in [DOMAIN vtables -> Seq(0 .. nextFn - 1)]
    BY <1>1 DEF VTablesOK
  <2>2. Seq(0 .. nextFn - 1) \subseteq Seq(0 .. nextFn' - 1)
    BY <1>3, SeqMonotonic
  <2> QED
    BY <2>1, <2>2 DEF VTablesOK
<1> QED
  BY <1>2, <1>5, <1>6, <1>7 DEF Known

(* Lists what an action that touches neither table leaves to be shown. *)
LEMMA SameTables ==
  ASSUME TypeOK, UNCHANGED <<entry, monoFns, monoTypes, nextFn, nextType,
                             functions, types, vtables>>
  PROVE  FnsOK' /\ TypesOK' /\ VTablesOK' /\ Known' = Known
<1>1. FnsOK /\ TypesOK /\ VTablesOK
  BY DEF TypeOK
<1> QED
  BY <1>1 DEF FnsOK, TypesOK, VTablesOK, Known

LEMMA TypeOKStep == TypeInv /\ [Next]_vars => TypeOK' /\ MentionsDone'
<1> SUFFICES ASSUME TypeInv, [Next]_vars PROVE TypeOK' /\ MentionsDone'
  OBVIOUS
<1>1. /\ TypeOK /\ ControlOK /\ FnsOK /\ TypesOK /\ VTablesOK
      /\ prog \in Programs /\ stack \in Seq(Activation)
      /\ worklist \in Seq(FnInst \cup VTableKey)
      /\ \A k \in DOMAIN stack : Covered(prog, stack[k], {"mention"}, Known)
  BY DEF TypeInv, TypeOK, ControlOK, MentionsDone
<1>2. ASSUME prog' = prog, status' \in {"start", "run", "done", "failed"},
             worklist' \in Seq(FnInst \cup VTableKey), stack' \in Seq(Activation),
             FnsOK', TypesOK', VTablesOK',
             \A k \in DOMAIN stack' : Covered(prog, stack'[k], {"mention"}, Known')
      PROVE  TypeOK' /\ MentionsDone'
  BY <1>1, <1>2 DEF TypeOK, ControlOK, MentionsDone
<1>3. CASE FindMain
  <2>1. PICK f \in prog.mains : MonoFn(f) /\ entry' = {monoFns'[f]}
    BY <1>3 DEF FindMain
  <2>2. /\ status' = "run" /\ prog' = prog /\ stack' = stack
        /\ UNCHANGED <<monoTypes, nextType, functions, types, vtables>>
    BY <1>3 DEF FindMain
  <2>3. f \in FnInst
    BY <1>1, ProgramsAssumption DEF Program
  <2>4. FnsOK' /\ TypesOK' /\ VTablesOK' /\ Known \subseteq Known'
    BY <1>1, <2>1, <2>2, <2>3, CallTypes
  <2>5. worklist' \in Seq(FnInst \cup VTableKey)
    BY <1>1, <2>1, <2>3, MonoFnType
  <2>6. \A k \in DOMAIN stack' : Covered(prog, stack'[k], {"mention"}, Known')
    BY <1>1, <2>2, <2>4, CoveredGrows
  <2> QED
    BY <1>1, <1>2, <2>2, <2>4, <2>5, <2>6
<1>4. CASE NoMain
  <2>1. /\ status' = "failed" /\ prog' = prog /\ stack' = stack /\ worklist' = worklist
        /\ UNCHANGED <<entry, monoFns, monoTypes, nextFn, nextType, functions, types, vtables>>
    BY <1>4 DEF NoMain
  <2> QED
    BY <1>1, <1>2, <2>1, SameTables
<1>5. CASE TakeTask
  <2>1. /\ status' = status /\ prog' = prog /\ worklist # <<>> /\ worklist' = Tail(worklist)
        /\ stack' = IF Skips(Head(worklist)) THEN <<>> ELSE <<Frame(Head(worklist))>>
        /\ UNCHANGED <<entry, monoFns, monoTypes, nextFn, nextType, functions, types, vtables>>
    BY <1>5 DEF TakeTask
  <2>2. /\ Head(worklist) \in FnInst \cup VTableKey
        /\ Tail(worklist) \in Seq(FnInst \cup VTableKey)
    BY <1>1, <2>1, HeadTailProperties
  <2>3. Head(worklist) \in Unit
    BY <2>2 DEF Unit
  <2>4. FnsOK' /\ TypesOK' /\ VTablesOK'
    BY <1>1, <2>1, SameTables
  <2>5. CASE Skips(Head(worklist))
    <3>1. stack' = <<>>
      BY <2>1, <2>5
    <3>2. stack' \in Seq(Activation) /\ DOMAIN stack' = {}
      BY <3>1
    <3> QED
      BY <1>1, <1>2, <2>1, <2>2, <2>4, <3>2 DEF ControlOK
  <2>6. CASE ~ Skips(Head(worklist))
    <3>1. stack' = <<Frame(Head(worklist))>>
      BY <2>1, <2>6
    <3>2. Frame(Head(worklist)) \in Activation
      BY <2>3, FrameType
    <3>3. /\ stack' \in Seq(Activation) /\ DOMAIN stack' = {1}
          /\ stack'[1] = Frame(Head(worklist))
      BY <3>1, <3>2
    <3>4. Covered(prog, Frame(Head(worklist)), {"mention"}, Known')
      BY <1>1, <2>3, CoveredFrame
    <3> QED
      BY <1>1, <1>2, <2>1, <2>2, <2>4, <3>3, <3>4 DEF ControlOK
  <2> QED
    BY <2>5, <2>6
<1>6. CASE CallFn
  <2>1. Running /\ ~ Finished /\ NextOp.op = "mention" /\ NextOp.unit \in FnInst
    BY <1>6 DEF CallFn, About
  <2>2. MonoFn(NextOp.unit)
    BY <1>6 DEF CallFn
  <2>3. /\ status' = status /\ prog' = prog /\ stack' = Advanced
        /\ UNCHANGED <<entry, monoTypes, nextType, functions, types, vtables>>
    BY <1>6 DEF CallFn
  <2>4. FnsOK' /\ TypesOK' /\ VTablesOK' /\ Known \subseteq Known' /\ NextOp.unit \in Known'
    BY <1>1, <2>1, <2>2, <2>3, CallTypes
  <2>5. worklist' \in Seq(FnInst \cup VTableKey)
    BY <1>1, <2>1, <2>2, MonoFnType
  <2>6. stack' \in Seq(Activation)
    BY <1>1, <2>1, <2>3, AdvancedType
  <2>7. \A k \in DOMAIN Advanced : Covered(prog, Advanced[k], {"mention"}, Known')
    BY <1>1, <2>1, <2>4, AdvancedCovered
  <2> QED
    BY <1>1, <1>2, <2>3, <2>4, <2>5, <2>6, <2>7 DEF ControlOK
<1>7. CASE TypeHit
  <2>1. /\ Running /\ ~ Finished /\ NextOp.unit \in Known
        /\ status' = status /\ prog' = prog /\ worklist' = worklist /\ stack' = Advanced
        /\ UNCHANGED <<entry, monoFns, monoTypes, nextFn, nextType, functions, types, vtables>>
    BY <1>7 DEF TypeHit, About, Known
  <2>2. FnsOK' /\ TypesOK' /\ VTablesOK' /\ Known' = Known
    BY <1>1, <2>1, SameTables
  <2>3. Advanced \in Seq(Activation)
    BY <1>1, <2>1, AdvancedType
  <2>4. \A k \in DOMAIN Advanced : Covered(prog, Advanced[k], {"mention"}, Known')
    BY <1>1, <2>1, <2>2, AdvancedCovered
  <2> QED
    BY <1>1, <1>2, <2>1, <2>2, <2>3, <2>4 DEF ControlOK
<1>8. CASE TypeMiss
  <2> DEFINE t == NextOp.unit
  <2>1. /\ Running /\ ~ Finished /\ t \in TypeInst
        /\ monoTypes' = Put(monoTypes, t, nextType)
        /\ types' = Put(types, nextType, [inst |-> t, built |-> FALSE])
        /\ stack' = Append(Advanced, Frame(t))
    BY <1>8 DEF TypeMiss, About
  <2>2. /\ nextType' = nextType + 1 /\ status' = status /\ prog' = prog
        /\ worklist' = worklist
        /\ UNCHANGED <<entry, monoFns, nextFn, functions, vtables>>
    BY <1>8 DEF TypeMiss
  <2> HIDE DEF t
  <2>3. TypesOK'
    <3>1. /\ nextType \in Nat /\ DOMAIN monoTypes \subseteq TypeInst
          /\ monoTypes \in [DOMAIN monoTypes -> 0 .. nextType - 1]
          /\ DOMAIN types = 0 .. nextType - 1
          /\ types \in [DOMAIN types -> [inst : TypeInst, built : BOOLEAN]]
      BY <1>1 DEF TypesOK
    <3>2. DOMAIN monoTypes' \subseteq TypeInst
      BY <2>1, <3>1 DEF Put
    <3>3. monoTypes' \in [DOMAIN monoTypes' -> 0 .. nextType' - 1]
      BY <2>1, <2>2, <3>1 DEF Put
    <3>4. DOMAIN types' = 0 .. nextType' - 1
      BY <2>1, <2>2, <3>1 DEF Put
    <3>5. [inst |-> t, built |-> FALSE] \in [inst : TypeInst, built : BOOLEAN]
      BY <2>1
    <3>6. types' \in [DOMAIN types' -> [inst : TypeInst, built : BOOLEAN]]
      BY <2>1, <3>1, <3>5 DEF Put
    <3> QED
      BY <2>2, <3>1, <3>2, <3>3, <3>4, <3>6 DEF TypesOK
  <2>4. FnsOK' /\ VTablesOK'
    BY <1>1, <2>2 DEF FnsOK, VTablesOK
  <2>5. Known \subseteq Known' /\ t \in Known'
    BY <2>1, <2>2 DEF Known, Put
  <2>6. t \in Unit
    BY <2>1 DEF Unit
  <2>7. Frame(t) \in Activation /\ Covered(prog, Frame(t), {"mention"}, Known')
    BY <1>1, <2>6, FrameType, CoveredFrame
  <2>8. Advanced \in Seq(Activation)
    BY <1>1, <2>1, AdvancedType
  <2>9. \A k \in DOMAIN Advanced : Covered(prog, Advanced[k], {"mention"}, Known')
    BY <1>1, <2>1, <2>5, AdvancedCovered DEF t
  <2>10. /\ stack' \in Seq(Activation)
         /\ \A k \in DOMAIN stack' : Covered(prog, stack'[k], {"mention"}, Known')
    BY <2>1, <2>7, <2>8, <2>9, PushType
  <2> QED
    BY <1>1, <1>2, <2>2, <2>3, <2>4, <2>10 DEF ControlOK
<1>9. CASE QueueVTable
  <2>1. /\ Running /\ ~ Finished /\ NextOp.op \in {"task", "task_unless_built"}
        /\ status' = status /\ prog' = prog /\ stack' = Advanced
        /\ worklist' = worklist \/ worklist' = Append(worklist, NextOp.unit)
        /\ UNCHANGED <<entry, monoFns, monoTypes, nextFn, nextType, functions, types, vtables>>
    BY <1>9 DEF QueueVTable, About
  <2>2. FnsOK' /\ TypesOK' /\ VTablesOK' /\ Known' = Known
    BY <1>1, <2>1, SameTables
  <2>3. NextOp \in Op
    BY <2>1, OpType
  <2>4. NextOp.unit \in VTableKey /\ NextOp.op # "mention"
    BY <2>1, <2>3 DEF Op
  <2>5. worklist' \in Seq(FnInst \cup VTableKey)
    BY <1>1, <2>1, <2>4, AppendProperties
  <2>6. Advanced \in Seq(Activation)
    BY <1>1, <2>1, AdvancedType
  <2>7. \A k \in DOMAIN Advanced : Covered(prog, Advanced[k], {"mention"}, Known')
    BY <1>1, <2>1, <2>2, <2>4, AdvancedCovered
  <2> QED
    BY <1>1, <1>2, <2>1, <2>2, <2>5, <2>6, <2>7 DEF ControlOK
<1>10. CASE SealVTable
  <2>1. /\ About({"seal"}) /\ vtables' = Put(vtables, NextOp.unit, Slots(NextOp.unit))
        /\ stack' = Advanced /\ status' = status /\ prog' = prog /\ worklist' = worklist
        /\ UNCHANGED <<entry, monoFns, monoTypes, nextFn, nextType, functions, types>>
    BY <1>10 DEF SealVTable
  <2>2. Running /\ ~ Finished /\ NextOp.op # "mention"
    BY <2>1 DEF About
  <2>3. NextOp.unit \in VTableKey /\ Slots(NextOp.unit) \in Seq(0 .. nextFn - 1)
    BY <2>1, SlotsType
  <2>4. VTablesOK'
    BY <1>1, <2>1, <2>3 DEF VTablesOK, Put
  <2>5. FnsOK' /\ TypesOK' /\ Known' = Known
    BY <1>1, <2>1 DEF FnsOK, TypesOK, Known
  <2>6. Advanced \in Seq(Activation)
    BY <1>1, <2>2, AdvancedType
  <2>7. \A k \in DOMAIN Advanced : Covered(prog, Advanced[k], {"mention"}, Known')
    BY <1>1, <2>2, <2>5, AdvancedCovered
  <2> QED
    BY <1>1, <1>2, <2>1, <2>4, <2>5, <2>6, <2>7 DEF ControlOK
<1>11. CASE Return
  <2>1. /\ Running /\ Finished /\ status' = status /\ prog' = prog /\ worklist' = worklist
        /\ stack' = SubSeq(stack, 1, Len(stack) - 1)
        /\ functions' = IF Top.unit \in FnInst
                        THEN Put(functions, monoFns[Top.unit], Top.unit) ELSE functions
        /\ types' = IF Top.unit \in TypeInst
                    THEN Put(types, monoTypes[Top.unit], [inst |-> Top.unit, built |-> TRUE])
                    ELSE types
        /\ UNCHANGED <<entry, monoFns, monoTypes, nextFn, nextType, vtables>>
    BY <1>11 DEF Return
  <2> DEFINE u == Top.unit
  <2>2. u \in Known \cup VTableKey /\ u \in Unit
    <3>1. Len(stack) \in DOMAIN stack /\ Top = stack[Len(stack)] /\ Top.unit \in Unit
      BY <1>1, <2>1, TopType
    <3> QED
      BY <3>1 DEF TypeInv, FramesKnown
  <2>3. /\ u \in FnInst => u \in DOMAIN monoFns
        /\ u \in TypeInst => u \in DOMAIN monoTypes
    BY <1>1, <2>2, KindsAssumption DEF FnsOK, TypesOK, Known
  <2> HIDE DEF u
  <2>4. FnsOK'
    <3>1. /\ nextFn \in Nat /\ DOMAIN monoFns \subseteq FnInst
          /\ monoFns \in [DOMAIN monoFns -> 0 .. nextFn - 1]
          /\ DOMAIN functions \subseteq 0 .. nextFn - 1
          /\ functions \in [DOMAIN functions -> FnInst]
          /\ entry \subseteq 0 .. nextFn - 1
      BY <1>1 DEF FnsOK
    <3>2. functions' = functions \/ (u \in FnInst /\ functions' = Put(functions, monoFns[u], u))
      BY <2>1 DEF u
    <3>3. /\ DOMAIN functions' \subseteq 0 .. nextFn - 1
          /\ functions' \in [DOMAIN functions' -> FnInst]
      BY <2>3, <3>1, <3>2 DEF Put
    <3> QED
      BY <2>1, <3>1, <3>3 DEF FnsOK
  <2>5. TypesOK'
    <3>1. /\ nextType \in Nat /\ DOMAIN monoTypes \subseteq TypeInst
          /\ monoTypes \in [DOMAIN monoTypes -> 0 .. nextType - 1]
          /\ DOMAIN types = 0 .. nextType - 1
          /\ types \in [DOMAIN types -> [inst : TypeInst, built : BOOLEAN]]
      BY <1>1 DEF TypesOK
    <3>2. \/ types' = types
          \/ /\ u \in TypeInst
             /\ types' = Put(types, monoTypes[u], [inst |-> u, built |-> TRUE])
      BY <2>1 DEF u
    <3>3. DOMAIN types' = DOMAIN types
      BY <2>3, <3>1, <3>2 DEF Put
    <3>4. u \in TypeInst =>
            [inst |-> u, built |-> TRUE] \in [inst : TypeInst, built : BOOLEAN]
      OBVIOUS
    <3>5. types' \in [DOMAIN types' -> [inst : TypeInst, built : BOOLEAN]]
      BY <3>1, <3>2, <3>4 DEF Put
    <3> QED
      BY <2>1, <3>1, <3>3, <3>5 DEF TypesOK
  <2>6. VTablesOK' /\ Known' = Known
    BY <1>1, <2>1 DEF VTablesOK, Known
  <2>7. /\ stack' \in Seq(Activation) /\ DOMAIN stack' \subseteq DOMAIN stack
        /\ \A k \in DOMAIN stack' : stack'[k] = stack[k]
    BY <1>1, <2>1, PopType
  <2>8. \A k \in DOMAIN stack' : Covered(prog, stack'[k], {"mention"}, Known')
    BY <1>1, <2>6, <2>7
  <2> QED
    BY <1>1, <1>2, <2>1, <2>4, <2>5, <2>6, <2>7, <2>8 DEF ControlOK
<1>12. CASE Finish
  <2>1. /\ status' = "done" /\ prog' = prog /\ stack' = stack /\ worklist' = worklist
        /\ UNCHANGED <<entry, monoFns, monoTypes, nextFn, nextType, functions, types, vtables>>
    BY <1>12 DEF Finish
  <2> QED
    BY <1>1, <1>2, <2>1, SameTables
<1>13. CASE UNCHANGED vars
  <2>1. /\ status' = status /\ prog' = prog /\ stack' = stack /\ worklist' = worklist
        /\ UNCHANGED <<entry, monoFns, monoTypes, nextFn, nextType, functions, types, vtables>>
    BY <1>13 DEF vars
  <2> QED
    BY <1>1, <1>2, <2>1, SameTables DEF ControlOK
<1> QED
  BY <1>3, <1>4, <1>5, <1>6, <1>7, <1>8, <1>9, <1>10, <1>11, <1>12, <1>13 DEF Next

LEMMA FramesStep == TypeInv /\ [Next]_vars => FramesKnown'
<1> SUFFICES ASSUME TypeInv, [Next]_vars PROVE FramesKnown'
  OBVIOUS
<1> DEFINE Task  == DOMAIN monoFns \cup VTableKey
           Owner == Known \cup VTableKey
<1>1. /\ ControlOK /\ FnsOK /\ prog \in Programs /\ stack \in Seq(Activation)
      /\ worklist \in Seq(Task)
      /\ \A k \in DOMAIN stack : stack[k].unit \in Owner
  BY DEF TypeInv, TypeOK, ControlOK, FramesKnown
<1>2. ASSUME NEW f \in FnInst, MonoFn(f)
      PROVE  worklist' \in Seq(Task') /\ DOMAIN monoFns \subseteq DOMAIN monoFns'
  <2>1. DOMAIN monoFns' = DOMAIN monoFns \cup {f}
    BY <1>1, <1>2, MonoFnType
  <2>2. worklist \in Seq(Task')
    BY <1>1, <2>1, SeqMonotonic
  <2>3. worklist' = worklist \/ worklist' = Append(worklist, f)
    BY <1>2 DEF MonoFn
  <2> QED
    BY <2>1, <2>2, <2>3, AppendProperties
<1>3. ASSUME Running
      PROVE  \A k \in DOMAIN Advanced : Advanced[k].unit \in Owner
  BY <1>1, <1>3, AdvancedType
<1>4. CASE FindMain
  <2>1. PICK f \in prog.mains : MonoFn(f)
    BY <1>4 DEF FindMain
  <2>2. f \in FnInst
    BY <1>1, ProgramsAssumption DEF Program
  <2>3. stack' = stack /\ monoTypes' = monoTypes
    BY <1>4 DEF FindMain
  <2> QED
    BY <1>1, <1>2, <2>1, <2>2, <2>3 DEF FramesKnown, Known
<1>5. CASE TakeTask
  <2>1. /\ worklist # <<>> /\ worklist' = Tail(worklist)
        /\ stack' = IF Skips(Head(worklist)) THEN <<>> ELSE <<Frame(Head(worklist))>>
        /\ monoFns' = monoFns /\ monoTypes' = monoTypes
    BY <1>5 DEF TakeTask
  <2>2. Head(worklist) \in Task /\ Tail(worklist) \in Seq(Task)
    BY <1>1, <2>1, HeadTailProperties
  <2>3. \A k \in DOMAIN stack' : stack'[k] = Frame(Head(worklist))
    BY <2>1
  <2>4. \A k \in DOMAIN stack' : stack'[k].unit \in Owner
    BY <2>2, <2>3 DEF Frame, Known
  <2> QED
    BY <2>1, <2>2, <2>4 DEF FramesKnown, Known
<1>6. CASE CallFn
  <2>1. /\ Running /\ NextOp.unit \in FnInst /\ MonoFn(NextOp.unit)
        /\ stack' = Advanced /\ monoTypes' = monoTypes
    BY <1>6 DEF CallFn, About
  <2> QED
    BY <1>2, <1>3, <2>1 DEF FramesKnown, Known
<1>7. CASE TypeHit
  <2>1. /\ Running /\ stack' = Advanced /\ worklist' = worklist
        /\ monoFns' = monoFns /\ monoTypes' = monoTypes
    BY <1>7 DEF TypeHit, About
  <2> QED
    BY <1>1, <1>3, <2>1 DEF FramesKnown, Known
<1>8. CASE TypeMiss
  <2> DEFINE t == NextOp.unit
  <2>1. /\ Running /\ t \in TypeInst /\ monoTypes' = Put(monoTypes, t, nextType)
        /\ stack' = Append(Advanced, Frame(t)) /\ worklist' = worklist /\ monoFns' = monoFns
    BY <1>8 DEF TypeMiss, About
  <2>2. t \in Known' /\ Known \subseteq Known'
    BY <2>1 DEF Known, Put
  <2>3. Frame(t) \in Activation /\ Frame(t).unit = t
    BY <2>1, FrameType DEF Unit
  <2>4. Advanced \in Seq(Activation)
    BY <1>1, <2>1, AdvancedType
  <2>5. \A k \in DOMAIN stack' : stack'[k].unit \in Known' \cup VTableKey
    BY <1>3, <2>1, <2>2, <2>3, <2>4, PushType
  <2> QED
    BY <1>1, <2>1, <2>5 DEF FramesKnown
<1>9. CASE QueueVTable
  <2>1. /\ Running /\ ~ Finished /\ NextOp.op \in {"task", "task_unless_built"}
        /\ stack' = Advanced /\ monoFns' = monoFns /\ monoTypes' = monoTypes
        /\ worklist' = worklist \/ worklist' = Append(worklist, NextOp.unit)
    BY <1>9 DEF QueueVTable, About
  <2>2. NextOp \in Op
    BY <2>1, OpType
  <2>3. NextOp.unit \in Task
    BY <2>1, <2>2 DEF Op
  <2>4. worklist' \in Seq(Task)
    BY <1>1, <2>1, <2>3, AppendProperties
  <2> QED
    BY <1>3, <2>1, <2>4 DEF FramesKnown, Known
<1>10. CASE SealVTable
  <2>1. /\ Running /\ stack' = Advanced /\ worklist' = worklist
        /\ monoFns' = monoFns /\ monoTypes' = monoTypes
    BY <1>10 DEF SealVTable, About
  <2> QED
    BY <1>1, <1>3, <2>1 DEF FramesKnown, Known
<1>11. CASE Return
  <2>1. /\ Running /\ stack' = SubSeq(stack, 1, Len(stack) - 1) /\ worklist' = worklist
        /\ monoFns' = monoFns /\ monoTypes' = monoTypes
    BY <1>11 DEF Return
  <2>2. DOMAIN stack' \subseteq DOMAIN stack /\ \A k \in DOMAIN stack' : stack'[k] = stack[k]
    BY <1>1, <2>1, PopType
  <2> QED
    BY <1>1, <2>1, <2>2 DEF FramesKnown, Known
<1>12. CASE NoMain \/ Finish \/ UNCHANGED vars
  <2>1. UNCHANGED <<stack, worklist, monoFns, monoTypes>>
    BY <1>12 DEF NoMain, Finish, vars
  <2> QED
    BY <1>1, <2>1 DEF FramesKnown, Known
<1> QED
  BY <1>4, <1>5, <1>6, <1>7, <1>8, <1>9, <1>10, <1>11, <1>12 DEF Next

LEMMA TypeStep == TypeInv /\ [Next]_vars => TypeInv'
BY TypeOKStep, FramesStep DEF TypeInv

LEMMA TypeInvariant == Spec => []TypeInv
BY TypeInit, TypeStep, PTL DEF Spec

(***************************************************************************)
(* The tables of the lowering never hold a malformed entry, whatever the     *)
(* program: in particular every id in a vtable slot has been allocated, and  *)
(* each allocated type id has a definition, at least a placeholder.          *)
(***************************************************************************)
THEOREM TypeCorrect == Spec => []TypeOK
<1>1. TypeInv => TypeOK
  BY DEF TypeInv
<1> QED
  BY <1>1, TypeInvariant, PTL

-----------------------------------------------------------------------------
(***************************************************************************)
(* Safety, for every program: on top of the type invariant, what the caches,*)
(* the stack and the tables say about each other.                          *)
(***************************************************************************)

(***************************************************************************)
(* Caches and tables are inverse to each other.                             *)
(***************************************************************************)
TypeTables ==
  \A id \in DOMAIN types :
    types[id].inst \in DOMAIN monoTypes /\ monoTypes[types[id].inst] = id

TablesInv == TablesAgree /\ TypeTables

LEMMA CallAgrees ==
  ASSUME FnsOK, ControlOK, NEW f \in FnInst, MonoFn(f), functions' = functions,
         \A g, h \in DOMAIN monoFns : monoFns[g] = monoFns[h] => g = h,
         \A id \in DOMAIN functions :
           functions[id] \in DOMAIN monoFns /\ monoFns[functions[id]] = id
  PROVE  /\ \A g, h \in DOMAIN monoFns' : monoFns'[g] = monoFns'[h] => g = h
         /\ \A id \in DOMAIN functions' :
              functions'[id] \in DOMAIN monoFns' /\ monoFns'[functions'[id]] = id
<1>1. CASE f \in DOMAIN monoFns
  <2>1. monoFns' = monoFns
    BY <1>1 DEF MonoFn
  <2> QED
    BY <2>1
<1>2. CASE f \notin DOMAIN monoFns
  <2>1. monoFns' = Put(monoFns, f, nextFn)
    BY <1>2 DEF MonoFn
  <2>2. /\ DOMAIN monoFns' = DOMAIN monoFns \cup {f} /\ monoFns'[f] = nextFn
        /\ \A g \in DOMAIN monoFns : monoFns'[g] = monoFns[g]
    BY <2>1, <1>2 DEF Put
  <2>3. \A g \in DOMAIN monoFns : monoFns[g] # nextFn
    BY DEF FnsOK
  <2> QED
    BY <2>2, <2>3
<1> QED
  BY <1>1, <1>2

LEMMA TablesInit == Init => TablesInv
BY DEF Init, Empty, TablesInv, TablesAgree, TypeTables

LEMMA TablesStep == TypeInv /\ TablesInv /\ [Next]_vars => TablesInv'
<1> SUFFICES ASSUME TypeInv, TablesInv, [Next]_vars PROVE TablesInv'
  OBVIOUS
<1>1. /\ ControlOK /\ FnsOK /\ TypesOK /\ prog \in Programs /\ stack \in Seq(Activation)
  BY DEF TypeInv, TypeOK, ControlOK
<1>2. /\ \A g, h \in DOMAIN monoFns : monoFns[g] = monoFns[h] => g = h
      /\ \A id \in DOMAIN functions :
           functions[id] \in DOMAIN monoFns /\ monoFns[functions[id]] = id
      /\ \A t \in DOMAIN monoTypes : types[monoTypes[t]].inst = t
      /\ \A id \in DOMAIN types :
           types[id].inst \in DOMAIN monoTypes /\ monoTypes[types[id].inst] = id
  BY DEF TablesInv, TablesAgree, TypeTables
<1>3. CASE FindMain
  <2>1. PICK f \in prog.mains : MonoFn(f)
    BY <1>3 DEF FindMain
  <2>2. f \in FnInst /\ UNCHANGED <<functions, monoTypes, types>>
    BY <1>1, <1>3, ProgramsAssumption DEF FindMain, Program
  <2> QED
    BY <1>1, <1>2, <2>1, <2>2, CallAgrees DEF TablesInv, TablesAgree, TypeTables
<1>4. CASE CallFn
  <2>1. /\ NextOp.unit \in FnInst /\ MonoFn(NextOp.unit)
        /\ UNCHANGED <<functions, monoTypes, types>>
    BY <1>4 DEF CallFn
  <2> QED
    BY <1>1, <1>2, <2>1, CallAgrees DEF TablesInv, TablesAgree, TypeTables
<1>5. CASE TypeMiss
  <2>1. PICK t \in TypeInst \ DOMAIN monoTypes :
          /\ monoTypes' = Put(monoTypes, t, nextType)
          /\ types' = Put(types, nextType, [inst |-> t, built |-> FALSE])
    BY <1>5 DEF TypeMiss
  <2>2. UNCHANGED <<functions, monoFns>>
    BY <1>5 DEF TypeMiss
  <2>3. /\ DOMAIN monoTypes' = DOMAIN monoTypes \cup {t} /\ monoTypes'[t] = nextType
        /\ \A s \in DOMAIN monoTypes : monoTypes'[s] = monoTypes[s]
        /\ DOMAIN types' = DOMAIN types \cup {nextType} /\ types'[nextType].inst = t
    BY <2>1 DEF Put
  <2>4. nextType \notin DOMAIN types /\ \A s \in DOMAIN monoTypes : monoTypes[s] # nextType
    BY <1>1 DEF TypesOK
  <2>5. \A id \in DOMAIN types : types'[id] = types[id]
    BY <2>1, <2>4 DEF Put
  <2>6. \A s \in DOMAIN monoTypes : monoTypes[s] \in DOMAIN types
    BY <1>1 DEF TypesOK
  <2> QED
    BY <1>2, <2>2, <2>3, <2>4, <2>5, <2>6 DEF TablesInv, TablesAgree, TypeTables
<1>6. CASE Return
  <2> DEFINE u == Top.unit
  <2>1. /\ Running /\ UNCHANGED <<monoFns, monoTypes>>
        /\ functions' = IF u \in FnInst THEN Put(functions, monoFns[u], u) ELSE functions
        /\ types' = IF u \in TypeInst
                    THEN Put(types, monoTypes[u], [inst |-> u, built |-> TRUE]) ELSE types
    BY <1>6 DEF Return
  <2>2. /\ u \in FnInst => u \in DOMAIN monoFns
        /\ u \in TypeInst => u \in DOMAIN monoTypes
    <3>1. u \in Known \cup VTableKey
      BY <1>1, <2>1, TopType DEF TypeInv, FramesKnown
    <3> QED
      BY <1>1, <3>1, KindsAssumption DEF FnsOK, TypesOK, Known
  <2> HIDE DEF u
  <2>3. \A id \in DOMAIN functions' :
          functions'[id] \in DOMAIN monoFns /\ monoFns[functions'[id]] = id
    BY <1>2, <2>1, <2>2 DEF Put
  <2>4. DOMAIN types' = DOMAIN types /\ \A id \in DOMAIN types : types'[id].inst = types[id].inst
    <3>1. CASE u \in TypeInst
      <4>1. monoTypes[u] \in DOMAIN types /\ types[monoTypes[u]].inst = u
        BY <1>1, <1>2, <2>2, <3>1 DEF TypesOK
      <4> QED
        BY <2>1, <3>1, <4>1 DEF Put
    <3>2. CASE u \notin TypeInst
      BY <2>1, <3>2
    <3> QED
      BY <3>1, <3>2
  <2>5. \A s \in DOMAIN monoTypes : monoTypes[s] \in DOMAIN types
    BY <1>1 DEF TypesOK
  <2> QED
    BY <1>2, <2>1, <2>3, <2>4, <2>5 DEF TablesInv, TablesAgree, TypeTables
<1>7. CASE \/ NoMain \/ TakeTask \/ TypeHit \/ QueueVTable \/ SealVTable \/ Finish
           \/ UNCHANGED vars
  <2>1. UNCHANGED <<functions, monoFns, monoTypes, types>>
    BY <1>7 DEF NoMain, TakeTask, TypeHit, QueueVTable, SealVTable, Finish, vars
  <2> QED
    BY <1>2, <2>1 DEF TablesInv, TablesAgree, TypeTables
<1> QED
  BY <1>3, <1>4, <1>5, <1>6, <1>7 DEF Next

LEMMA TablesInvariant == Spec => [](TypeInv /\ TablesInv)
<1>1. TypeInv /\ TablesInv /\ [Next]_vars => (TypeInv /\ TablesInv)'
  BY TypeStep, TablesStep
<1> QED
  BY <1>1, TypeInit, TablesInit, PTL DEF Spec

(***************************************************************************)
(* Every id the lowering hands out names one instance, in every program: no  *)
(* two functions share a MirFnId, and a body or a type definition is stored  *)
(* under the id its callers were given.                                     *)
(***************************************************************************)
THEOREM TablesAlwaysAgree == Spec => []TablesAgree
<1>1. TypeInv /\ TablesInv => TablesAgree
  BY DEF TablesInv
<1> QED
  BY <1>1, TablesInvariant, PTL

(***************************************************************************)
(* The bottom activation is a task of the worklist, every other one is a      *)
(* type that is being built, and a type that is not built is on the stack.   *)
(***************************************************************************)
ShapeInv ==
  /\ status # "run" => stack = <<>>
  /\ \A k \in DOMAIN stack : stack[k].unit \in TypeInst <=> k # 1
  /\ \A id \in DOMAIN types : ~ types[id].built => OnStack(types[id].inst)

LEMMA AdvancedShape ==
  ASSUME TypeInv, Running
  PROVE  /\ DOMAIN Advanced = DOMAIN stack
         /\ \A k \in DOMAIN stack : Advanced[k].unit = stack[k].unit
BY AdvancedType DEF TypeInv, TypeOK, ControlOK

LEMMA ShapeInit == Init => ShapeInv
BY DEF Init, Empty, ShapeInv

LEMMA ShapeStep == TypeInv /\ TablesInv /\ ShapeInv /\ [Next]_vars => ShapeInv'
<1> SUFFICES ASSUME TypeInv, TablesInv, ShapeInv, [Next]_vars PROVE ShapeInv'
  OBVIOUS
<1>1. /\ prog \in Programs /\ stack \in Seq(Activation) /\ TypesOK
      /\ worklist \in Seq(FnInst \cup VTableKey)
  BY DEF TypeInv, TypeOK, ControlOK
<1>2. /\ status # "run" => stack = <<>>
      /\ \A k \in DOMAIN stack : stack[k].unit \in TypeInst <=> k # 1
      /\ \A id \in DOMAIN types : ~ types[id].built => OnStack(types[id].inst)
  BY DEF ShapeInv
<1>3. CASE TakeTask
  <2>1. /\ status = "run" /\ status' = status /\ stack = <<>> /\ worklist # <<>>
        /\ stack' = IF Skips(Head(worklist)) THEN <<>> ELSE <<Frame(Head(worklist))>>
        /\ types' = types
    BY <1>3 DEF TakeTask
  <2>2. \A u : ~ OnStack(u)
    BY <2>1 DEF OnStack
  <2>3. Head(worklist) \notin TypeInst
    BY <1>1, <2>1, HeadTailProperties, KindsAssumption
  <2>4. \A k \in DOMAIN stack' : k = 1 /\ stack'[k].unit = Head(worklist)
    BY <2>1 DEF Frame
  <2> QED
    BY <1>2, <2>1, <2>2, <2>3, <2>4 DEF ShapeInv
<1>4. CASE CallFn \/ TypeHit \/ QueueVTable \/ SealVTable
  <2>1. Running /\ status' = status /\ types' = types /\ stack' = Advanced
    BY <1>4 DEF CallFn, TypeHit, QueueVTable, SealVTable, About
  <2>2. /\ DOMAIN stack' = DOMAIN stack
        /\ \A k \in DOMAIN stack : stack'[k].unit = stack[k].unit
    BY <2>1, AdvancedShape
  <2>3. status = "run"
    BY <2>1 DEF Running
  <2> QED
    BY <1>2, <2>1, <2>2, <2>3 DEF ShapeInv, OnStack
<1>5. CASE TypeMiss
  <2>1. PICK t \in TypeInst \ DOMAIN monoTypes :
          /\ types' = Put(types, nextType, [inst |-> t, built |-> FALSE])
          /\ stack' = Append(Advanced, Frame(t))
    BY <1>5 DEF TypeMiss
  <2>2. Running /\ status' = status
    BY <1>5 DEF TypeMiss, About
  <2>3. /\ Advanced \in Seq(Activation) /\ Len(Advanced) = Len(stack)
        /\ Len(stack) \in Nat \ {0} /\ DOMAIN stack = 1 .. Len(stack)
    BY <1>1, <2>2, AdvancedType, TopType
  <2>4. Frame(t) \in Activation /\ Frame(t).unit = t
    BY FrameType DEF Unit
  <2>5. /\ DOMAIN stack' = DOMAIN stack \cup {Len(stack) + 1}
        /\ \A k \in DOMAIN stack : stack'[k].unit = stack[k].unit
        /\ stack'[Len(stack) + 1].unit = t
    BY <2>1, <2>2, <2>3, <2>4, PushType, AdvancedShape
  <2>6. \A k \in DOMAIN stack' : stack'[k].unit \in TypeInst <=> k # 1
    BY <1>2, <2>3, <2>5
  <2>7. /\ nextType \notin DOMAIN types /\ DOMAIN types' = DOMAIN types \cup {nextType}
        /\ types'[nextType] = [inst |-> t, built |-> FALSE]
        /\ \A id \in DOMAIN types : types'[id] = types[id]
    BY <1>1, <2>1 DEF TypesOK, Put
  <2>8. \A id \in DOMAIN types' : ~ types'[id].built =>
          \E k \in DOMAIN stack' : stack'[k].unit = types'[id].inst
    <3> TAKE id \in DOMAIN types'
    <3>1. CASE id = nextType
      BY <2>5, <2>7, <3>1
    <3>2. CASE id \in DOMAIN types
      BY <1>2, <2>5, <2>7, <3>2 DEF OnStack
    <3> QED
      BY <2>7, <3>1, <3>2
  <2> QED
    BY <2>2, <2>6, <2>8 DEF ShapeInv, OnStack, Running
<1>6. CASE Return
  <2> DEFINE u == Top.unit
  <2>1. /\ Running /\ status' = status /\ stack' = SubSeq(stack, 1, Len(stack) - 1)
        /\ types' = IF u \in TypeInst
                    THEN Put(types, monoTypes[u], [inst |-> u, built |-> TRUE]) ELSE types
    BY <1>6 DEF Return
  <2>2. /\ DOMAIN stack' = DOMAIN stack \ {Len(stack)}
        /\ \A k \in DOMAIN stack' : stack'[k] = stack[k]
        /\ u = stack[Len(stack)].unit
    BY <1>1, <2>1, PopType, TopType
  <2> HIDE DEF u
  <2>3. \A id \in DOMAIN types' : ~ types'[id].built =>
          \E k \in DOMAIN stack' : stack'[k].unit = types'[id].inst
    <3> SUFFICES ASSUME NEW id \in DOMAIN types', ~ types'[id].built
                 PROVE  \E k \in DOMAIN stack' : stack'[k].unit = types'[id].inst
      OBVIOUS
    <3>1. /\ u \in TypeInst => u \in DOMAIN monoTypes
          /\ \A t \in DOMAIN monoTypes : monoTypes[t] \in DOMAIN types
      <4>1. u \in Known \cup VTableKey
        BY <1>1, <2>1, TopType DEF TypeInv, FramesKnown, u
      <4> QED
        BY <1>1, <4>1, KindsAssumption DEF TypeInv, TypeOK, FnsOK, TypesOK, Known
    <3>2. id \in DOMAIN types /\ (u \in TypeInst => id # monoTypes[u]) /\ types'[id] = types[id]
      BY <2>1, <3>1 DEF Put
    <3>3. types[id].inst \in DOMAIN monoTypes /\ monoTypes[types[id].inst] = id
      BY <3>2 DEF TablesInv, TypeTables
    <3>4. types[id].inst \in TypeInst /\ types[id].inst # u
      BY <1>1, <3>2, <3>3 DEF TypesOK
    <3>5. PICK k \in DOMAIN stack : stack[k].unit = types[id].inst
      BY <1>2, <3>2 DEF OnStack
    <3>6. k \in DOMAIN stack' /\ stack'[k].unit = types'[id].inst
      BY <2>2, <3>2, <3>4, <3>5
    <3> QED
      BY <3>6
  <2>4. \A k \in DOMAIN stack' : stack'[k].unit \in TypeInst <=> k # 1
    BY <1>2, <2>2
  <2> QED
    BY <2>1, <2>3, <2>4 DEF ShapeInv, OnStack, Running
<1>7. CASE FindMain \/ NoMain
  <2>1. status = "start" /\ stack' = stack /\ types' = types
    BY <1>7 DEF FindMain, NoMain
  <2> QED
    BY <1>2, <2>1 DEF ShapeInv, OnStack
<1>8. CASE Finish
  <2>1. stack = <<>> /\ stack' = stack /\ types' = types
    BY <1>8 DEF Finish
  <2> QED
    BY <1>2, <2>1 DEF ShapeInv, OnStack
<1>9. CASE UNCHANGED vars
  <2>1. status' = status /\ stack' = stack /\ types' = types
    BY <1>9 DEF vars
  <2> QED
    BY <1>2, <2>1 DEF ShapeInv, OnStack
<1> QED
  BY <1>3, <1>4, <1>5, <1>6, <1>7, <1>8, <1>9 DEF Next

LEMMA ShapeInvariant == Spec => [](TypeInv /\ TablesInv /\ ShapeInv)
<1>1. TypeInv /\ TablesInv /\ ShapeInv /\ [Next]_vars => (TypeInv /\ TablesInv /\ ShapeInv)'
  BY TypeStep, TablesStep, ShapeStep
<1> QED
  BY <1>1, TypeInit, TablesInit, ShapeInit, PTL DEF Spec

(***************************************************************************)
(* No function body and no vtable is ever lowered while a type is still an   *)
(* empty placeholder, however the types mention each other: the layouts that *)
(* field accesses and method slots are looked up in are complete.           *)
(***************************************************************************)
THEOREM NoPlaceholderRead == Spec => []BodiesSeeBuiltTypes
<1>1. TypeInv /\ TablesInv /\ ShapeInv => BodiesSeeBuiltTypes
  <2> SUFFICES ASSUME TypeInv, ShapeInv, Running, Top.unit \notin TypeInst,
                      NEW id \in DOMAIN types, ~ types[id].built
               PROVE  FALSE
    BY DEF BodiesSeeBuiltTypes, TypeInv, TypeOK, TypesOK
  <2>1. /\ Len(stack) \in Nat \ {0} /\ DOMAIN stack = 1 .. Len(stack)
        /\ Top = stack[Len(stack)]
    BY TopType DEF TypeInv, TypeOK, ControlOK
  <2>2. Len(stack) = 1
    BY <2>1 DEF ShapeInv
  <2>3. PICK k \in DOMAIN stack : stack[k].unit = types[id].inst
    BY DEF ShapeInv, OnStack
  <2>4. k = Len(stack) /\ types[id].inst \in TypeInst
    BY <2>1, <2>2, <2>3 DEF TypeInv, TypeOK, TypesOK
  <2> QED
    BY <2>1, <2>3, <2>4
<1> QED
  BY <1>1, ShapeInvariant, PTL

(***************************************************************************)
(* One home for each function instance.                                     *)
(***************************************************************************)
LEMMA CallKeepsHomes ==
  ASSUME TypeInv, OneHome, NEW g \in FnInst, MonoFn(g), functions' = functions,
         \A f \in FnInst : OnStack(f)' <=> OnStack(f)
  PROVE  OneHome'
<1>1. worklist \in Seq(FnInst \cup VTableKey)
  BY DEF TypeInv, TypeOK, ControlOK
<1>2. \A f \in FnInst : Lowered(f)' <=> Lowered(f)
  BY DEF Lowered
<1>3. CASE g \in DOMAIN monoFns
  <2>1. monoFns' = monoFns /\ worklist' = worklist
    BY <1>3 DEF MonoFn
  <2> QED
    BY <1>2, <2>1 DEF OneHome, InQueue
<1>4. CASE g \notin DOMAIN monoFns
  <2>1. DOMAIN monoFns' = DOMAIN monoFns \cup {g} /\ worklist' = Append(worklist, g)
    BY <1>4 DEF MonoFn, Put
  <2>2. ~ InQueue(g) /\ ~ OnStack(g) /\ ~ Lowered(g)
    BY <1>4 DEF OneHome
  <2>3. /\ Len(worklist) \in Nat /\ DOMAIN worklist = 1 .. Len(worklist)
        /\ DOMAIN worklist' = DOMAIN worklist \cup {Len(worklist) + 1}
        /\ \A k \in DOMAIN worklist : worklist'[k] = worklist[k]
        /\ worklist'[Len(worklist) + 1] = g
    BY <1>1, <2>1, AppendProperties, LenProperties
  <2>4. \A f \in FnInst : InQueue(f)' <=> InQueue(f) \/ f = g
    BY <2>3 DEF InQueue
  <2>5. \A f \in FnInst : \A j, k \in DOMAIN worklist' :
          worklist'[j] = f /\ worklist'[k] = f => j = k
    BY <2>2, <2>3 DEF OneHome, InQueue
  <2> QED
    BY <1>2, <2>1, <2>2, <2>4, <2>5 DEF OneHome
<1> QED
  BY <1>3, <1>4

LEMMA HomeInit == Init => OneHome
BY DEF Init, Empty, OneHome, InQueue, OnStack, Lowered

LEMMA HomeStep ==
  TypeInv /\ TablesInv /\ ShapeInv /\ OneHome /\ [Next]_vars => OneHome'
<1> SUFFICES ASSUME TypeInv, TablesInv, ShapeInv, OneHome, [Next]_vars PROVE OneHome'
  OBVIOUS
<1>1. /\ prog \in Programs /\ stack \in Seq(Activation)
      /\ worklist \in Seq(FnInst \cup VTableKey)
      /\ FnInst \cap (TypeInst \cup VTableKey) = {}
  BY KindsAssumption DEF TypeInv, TypeOK, ControlOK
<1>2. ASSUME worklist' = worklist, monoFns' = monoFns, functions' = functions,
             \A f \in FnInst : OnStack(f)' <=> OnStack(f)
      PROVE  OneHome'
  BY <1>2 DEF OneHome, InQueue, Lowered
<1>3. ASSUME Running, stack' = Advanced
      PROVE  \A f \in FnInst : OnStack(f)' <=> OnStack(f)
  BY <1>3, AdvancedShape DEF OnStack
<1>4. CASE FindMain
  <2>1. PICK g \in prog.mains : MonoFn(g)
    BY <1>4 DEF FindMain
  <2>2. g \in FnInst /\ functions' = functions /\ stack' = stack
    BY <1>1, <1>4, ProgramsAssumption DEF FindMain, Program
  <2> QED
    BY <2>1, <2>2, CallKeepsHomes DEF OnStack
<1>5. CASE TakeTask
  <2> DEFINE h == Head(worklist)
  <2>1. /\ stack = <<>> /\ worklist # <<>> /\ worklist' = Tail(worklist)
        /\ stack' = IF Skips(h) THEN <<>> ELSE <<Frame(h)>>
        /\ monoFns' = monoFns /\ functions' = functions
    BY <1>5 DEF TakeTask
  <2>2. /\ h = worklist[1] /\ Len(worklist) \in Nat \ {0}
        /\ DOMAIN worklist = 1 .. Len(worklist)
        /\ DOMAIN worklist' = 1 .. Len(worklist) - 1
        /\ \A k \in DOMAIN worklist' : worklist'[k] = worklist[k + 1]
    BY <1>1, <2>1, HeadTailProperties, LenProperties, EmptySeq
  <2>3. \A f \in FnInst : ~ OnStack(f)
    BY <2>1 DEF OnStack
  <2>4. \A f \in FnInst : OnStack(f)' <=> f = h
    <3>1. CASE Skips(h)
      BY <1>1, <2>1, <3>1 DEF Skips, OnStack
    <3>2. CASE ~ Skips(h)
      BY <2>1, <3>2 DEF OnStack, Frame
    <3> QED
      BY <3>1, <3>2
  <2> HIDE DEF h
  <2>5. \A f \in FnInst : InQueue(f)' => InQueue(f)
    BY <2>2 DEF InQueue
  <2>6. \A f \in FnInst : InQueue(f) => InQueue(f)' \/ f = h
    <3> SUFFICES ASSUME NEW f \in FnInst, NEW k \in DOMAIN worklist, worklist[k] = f, f # h
                 PROVE  \E j \in DOMAIN worklist' : worklist'[j] = f
      BY DEF InQueue
    <3>1. k - 1 \in DOMAIN worklist' /\ worklist'[k - 1] = f
      BY <2>2
    <3> QED
      BY <3>1
  <2>7. \A f \in FnInst : f = h => InQueue(f) /\ ~ InQueue(f)'
    <3> SUFFICES ASSUME NEW f \in FnInst, f = h
                 PROVE  InQueue(f) /\ \A k \in DOMAIN worklist' : worklist'[k] # f
      BY DEF InQueue
    <3>1. 1 \in DOMAIN worklist /\ worklist[1] = f
      BY <2>2
    <3>2. \A k \in DOMAIN worklist' : k + 1 \in DOMAIN worklist /\ k + 1 # 1
      BY <2>2
    <3> QED
      BY <2>2, <3>1, <3>2 DEF OneHome, InQueue
  <2>8. \A f \in FnInst : \A j, k \in DOMAIN worklist' :
          worklist'[j] = f /\ worklist'[k] = f => j = k
    <3> TAKE f \in FnInst
    <3> TAKE j, k \in DOMAIN worklist'
    <3>1. j + 1 \in DOMAIN worklist /\ k + 1 \in DOMAIN worklist /\ j \in Nat /\ k \in Nat
      BY <2>2
    <3>2. worklist'[j] = f /\ worklist'[k] = f => j + 1 = k + 1
      BY <2>2, <3>1 DEF OneHome
    <3> QED
      BY <3>1, <3>2
  <2>9. \A f \in FnInst : Lowered(f)' <=> Lowered(f)
    BY <2>1 DEF Lowered
  <2> QED
    BY <2>1, <2>3, <2>4, <2>5, <2>6, <2>7, <2>8, <2>9 DEF OneHome
<1>6. CASE CallFn
  <2>1. /\ Running /\ NextOp.unit \in FnInst /\ MonoFn(NextOp.unit)
        /\ functions' = functions /\ stack' = Advanced
    BY <1>6 DEF CallFn, About
  <2> QED
    BY <1>3, <2>1, CallKeepsHomes
<1>7. CASE TypeHit \/ SealVTable
  <2>1. /\ Running /\ stack' = Advanced
        /\ UNCHANGED <<worklist, monoFns, functions>>
    BY <1>7 DEF TypeHit, SealVTable, About
  <2> QED
    BY <1>2, <1>3, <2>1
<1>8. CASE TypeMiss
  <2>1. PICK t \in TypeInst : stack' = Append(Advanced, Frame(t))
    BY <1>8 DEF TypeMiss
  <2>2. Running /\ UNCHANGED <<worklist, monoFns, functions>>
    BY <1>8 DEF TypeMiss, About
  <2>3. Advanced \in Seq(Activation) /\ Frame(t) \in Activation /\ Frame(t).unit = t
    BY <1>1, <2>2, AdvancedType, FrameType DEF Unit
  <2>4. /\ DOMAIN stack' = DOMAIN stack \cup {Len(Advanced) + 1}
        /\ \A k \in DOMAIN stack : stack'[k].unit = stack[k].unit
        /\ stack'[Len(Advanced) + 1].unit = t
    BY <2>1, <2>2, <2>3, PushType, AdvancedShape
  <2>5. \A f \in FnInst : OnStack(f)' <=> OnStack(f)
    BY <1>1, <2>4 DEF OnStack
  <2> QED
    BY <1>2, <2>2, <2>5
<1>9. CASE QueueVTable
  <2>1. /\ Running /\ ~ Finished /\ stack' = Advanced
        /\ NextOp.op \in {"task", "task_unless_built"}
        /\ worklist' = worklist \/ worklist' = Append(worklist, NextOp.unit)
        /\ monoFns' = monoFns /\ functions' = functions
    BY <1>9 DEF QueueVTable, About
  <2>2. NextOp \in Op
    BY <2>1, OpType
  <2>3. NextOp.unit \in VTableKey
    BY <2>1, <2>2 DEF Op
  <2>4. CASE worklist' = Append(worklist, NextOp.unit)
    <3>1. /\ Len(worklist) \in Nat /\ DOMAIN worklist = 1 .. Len(worklist)
          /\ DOMAIN worklist' = DOMAIN worklist \cup {Len(worklist) + 1}
          /\ \A k \in DOMAIN worklist : worklist'[k] = worklist[k]
          /\ worklist'[Len(worklist) + 1] \notin FnInst
      BY <1>1, <2>3, <2>4, AppendProperties, LenProperties
    <3>2. \A f \in FnInst : InQueue(f)' <=> InQueue(f)
      BY <3>1 DEF InQueue
    <3>3. \A f \in FnInst : \A j, k \in DOMAIN worklist' :
            worklist'[j] = f /\ worklist'[k] = f => j = k
      BY <3>1 DEF OneHome
    <3> QED
      BY <1>3, <2>1, <3>2, <3>3 DEF OneHome, Lowered
  <2> QED
    BY <1>2, <1>3, <2>1, <2>4
<1>10. CASE Return
  <2> DEFINE u == Top.unit
  <2>1. /\ Running /\ stack' = SubSeq(stack, 1, Len(stack) - 1)
        /\ functions' = IF u \in FnInst THEN Put(functions, monoFns[u], u) ELSE functions
        /\ worklist' = worklist /\ monoFns' = monoFns
    BY <1>10 DEF Return
  <2>2. /\ Len(stack) \in Nat \ {0} /\ DOMAIN stack = 1 .. Len(stack)
        /\ DOMAIN stack' = DOMAIN stack \ {Len(stack)}
        /\ \A k \in DOMAIN stack' : stack'[k] = stack[k]
        /\ u = stack[Len(stack)].unit
    BY <1>1, <2>1, PopType, TopType
  <2> HIDE DEF u
  <2>3. CASE u \in FnInst
    <3>1. Len(stack) = 1 /\ DOMAIN stack' = {}
      BY <1>1, <2>2, <2>3 DEF ShapeInv
    <3>2. \A f \in FnInst : (OnStack(f) <=> f = u) /\ ~ OnStack(f)'
      BY <2>2, <3>1 DEF OnStack
    <3>3. u \in DOMAIN monoFns /\ ~ InQueue(u) /\ ~ Lowered(u)
      BY <2>3, <3>2 DEF OneHome
    <3>4. monoFns[u] \notin DOMAIN functions
      BY <3>3 DEF TablesInv, TablesAgree, Lowered
    <3>5. /\ DOMAIN functions' = DOMAIN functions \cup {monoFns[u]}
          /\ functions'[monoFns[u]] = u
          /\ \A id \in DOMAIN functions : functions'[id] = functions[id]
      BY <2>1, <2>3, <3>4 DEF Put
    <3>6. \A f \in FnInst : Lowered(f)' <=> Lowered(f) \/ f = u
      BY <3>5 DEF Lowered
    <3>7. \A f \in FnInst : InQueue(f)' <=> InQueue(f)
      BY <2>1 DEF InQueue
    <3> QED
      BY <2>1, <3>2, <3>3, <3>6, <3>7 DEF OneHome
  <2>4. CASE u \notin FnInst
    <3>1. \A f \in FnInst : OnStack(f)' <=> OnStack(f)
      BY <2>2, <2>4 DEF OnStack
    <3> QED
      BY <1>2, <2>1, <2>4, <3>1
  <2> QED
    BY <2>3, <2>4
<1>11. CASE NoMain \/ Finish \/ UNCHANGED vars
  <2>1. UNCHANGED <<stack, worklist, monoFns, functions>>
    BY <1>11 DEF NoMain, Finish, vars
  <2> QED
    BY <1>2, <2>1 DEF OnStack
<1> QED
  BY <1>4, <1>5, <1>6, <1>7, <1>8, <1>9, <1>10, <1>11 DEF Next

SafetyInv == TypeInv /\ TablesInv /\ ShapeInv /\ OneHome

LEMMA SafetyStep == SafetyInv /\ [Next]_vars => SafetyInv'
BY TypeStep, TablesStep, ShapeStep, HomeStep DEF SafetyInv

LEMMA SafetyInvariant == Spec => []SafetyInv
<1>1. Init => SafetyInv
  BY TypeInit, TablesInit, ShapeInit, HomeInit DEF SafetyInv
<1> QED
  BY <1>1, SafetyStep, PTL DEF Spec

(***************************************************************************)
(* Every requested function instance waits, is being lowered, or is in the   *)
(* function table, and never in two of these places: no body is lowered      *)
(* twice and none is lost, whatever the call graph.                         *)
(***************************************************************************)
THEOREM EveryInstanceOnce == Spec => []OneHome
<1>1. SafetyInv => OneHome
  BY DEF SafetyInv
<1> QED
  BY <1>1, SafetyInvariant, PTL
=============================================================================
