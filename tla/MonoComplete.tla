----------------------------- MODULE MonoComplete -----------------------------
(***************************************************************************)
(* What the worklist leaves behind when it runs dry, for every program: on   *)
(* top of the safety invariant of MonoProofs, how far each unit of work is    *)
(* and that nothing it mentioned has been lost; and that it is the search of   *)
(* the module Reach.                                                        *)
(***************************************************************************)
EXTENDS MonoProofs

AnyOp == {"mention", "task", "task_unless_built", "seal"}

(***************************************************************************)
(* Whatever an activation has passed in its script has been discovered, and  *)
(* a seal it has passed has stored its vtable.                               *)
(***************************************************************************)
ScriptsDone ==
  \A k \in DOMAIN stack :
    /\ Covered(prog, stack[k], AnyOp, SeenUnits)
    /\ Covered(prog, stack[k], {"seal"}, DOMAIN vtables)

(***************************************************************************)
(* Everything a finished unit mentions has been discovered.                  *)
(***************************************************************************)
DoneClosed == \A u \in DoneUnits : Succ(prog, u) \subseteq SeenUnits

(***************************************************************************)
(* No unit is twice on the stack; a type on it is not built; a vtable that   *)
(* has its seal before it is not stored.                                    *)
(***************************************************************************)
OpenFrames ==
  /\ \A j, k \in DOMAIN stack : stack[j].unit = stack[k].unit => j = k
  /\ \A k \in DOMAIN stack :
       stack[k].unit \in TypeInst => ~ types[monoTypes[stack[k].unit]].built
  /\ \A k \in DOMAIN stack :
       stack[k].unit \in VTableKey /\ stack[k].next <= Len(prog.impl[stack[k].unit]) + 1
         => stack[k].unit \notin DOMAIN vtables

(***************************************************************************)
(* A stored vtable holds the ids of the methods the resolution chose.        *)
(***************************************************************************)
SlotsInv ==
  \A v \in DOMAIN vtables :
    /\ Len(vtables[v]) = Len(prog.impl[v])
    /\ \A k \in DOMAIN vtables[v] :
         prog.impl[v][k] \in DOMAIN monoFns /\ vtables[v][k] = monoFns[prog.impl[v][k]]

(***************************************************************************)
(* The entry point is the id of a main; before it is found there is nothing, *)
(* and the end is only reached with an empty queue.                          *)
(***************************************************************************)
EntryInv ==
  /\ status \in {"start", "failed"} => SeenUnits = {} /\ DoneUnits = {}
  /\ status \in {"run", "done"} =>
       \E f \in prog.mains : f \in DOMAIN monoFns /\ entry = {monoFns[f]}
  /\ status = "done" => worklist = <<>>

CompleteInv ==
  SafetyInv /\ ScriptsDone /\ DoneClosed /\ OpenFrames /\ SlotsInv /\ EntryInv

-----------------------------------------------------------------------------
(***************************************************************************)
(* The queue and the stack as sets of units.                                *)
(***************************************************************************)
LEMMA QueueHead ==
  ASSUME TypeInv, worklist # <<>>, worklist' = Tail(worklist)
  PROVE  /\ Head(worklist) \in FnInst \cup VTableKey
         /\ \A u : InQueue(u) <=> InQueue(u)' \/ u = Head(worklist)
<1>1. worklist \in Seq(FnInst \cup VTableKey)
  BY DEF TypeInv, TypeOK, ControlOK
<1>2. /\ Head(worklist) \in FnInst \cup VTableKey /\ Head(worklist) = worklist[1]
      /\ Len(worklist) \in Nat \ {0} /\ DOMAIN worklist = 1 .. Len(worklist)
      /\ DOMAIN worklist' = 1 .. Len(worklist) - 1
      /\ \A k \in DOMAIN worklist' : worklist'[k] = worklist[k + 1]
  BY <1>1, HeadTailProperties, LenProperties, EmptySeq
<1> SUFFICES ASSUME NEW u PROVE InQueue(u) <=> InQueue(u)' \/ u = Head(worklist)
  BY <1>2
<1>3. ASSUME NEW k \in DOMAIN worklist, worklist[k] = u, u # worklist[1]
      PROVE  k - 1 \in DOMAIN worklist' /\ worklist'[k - 1] = u
  BY <1>2, <1>3
<1>4. \A k \in DOMAIN worklist' : k + 1 \in DOMAIN worklist
  BY <1>2
<1>5. 1 \in DOMAIN worklist
  BY <1>2
<1> QED
  BY <1>2, <1>3, <1>4, <1>5 DEF InQueue

LEMMA QueueGrows ==
  ASSUME TypeInv, NEW x \in FnInst \cup VTableKey, worklist' = Append(worklist, x)
  PROVE  \A u : InQueue(u)' <=> InQueue(u) \/ u = x
<1>1. worklist \in Seq(FnInst \cup VTableKey)
  BY DEF TypeInv, TypeOK, ControlOK
<1>2. /\ Len(worklist) \in Nat /\ DOMAIN worklist = 1 .. Len(worklist)
      /\ DOMAIN worklist' = DOMAIN worklist \cup {Len(worklist) + 1}
      /\ \A k \in DOMAIN worklist : worklist'[k] = worklist[k]
      /\ worklist'[Len(worklist) + 1] = x
  BY <1>1, AppendProperties, LenProperties
<1> QED
  BY <1>2 DEF InQueue

LEMMA StackAdvances ==
  ASSUME TypeInv, Running
  PROVE  /\ OnStack(Top.unit) /\ Top.unit \in Unit
         /\ stack' = Advanced => \A u : OnStack(u)' <=> OnStack(u)
<1>1. Len(stack) \in DOMAIN stack /\ Top = stack[Len(stack)] /\ Top.unit \in Unit
  BY TopType DEF TypeInv, TypeOK, ControlOK
<1>2. stack' = Advanced => \A u : OnStack(u)' <=> OnStack(u)
  BY AdvancedShape DEF OnStack
<1> QED
  BY <1>1, <1>2 DEF OnStack

LEMMA StackPushes ==
  ASSUME TypeInv, Running, NEW t \in Unit, stack' = Append(Advanced, Frame(t))
  PROVE  /\ DOMAIN stack' = DOMAIN stack \cup {Len(stack) + 1}
         /\ Len(stack) + 1 \notin DOMAIN stack
         /\ \A k \in DOMAIN stack : stack'[k] = Advanced[k] /\ stack'[k].unit = stack[k].unit
         /\ stack'[Len(stack) + 1] = Frame(t)
         /\ \A u : OnStack(u)' <=> OnStack(u) \/ u = t
<1>1. /\ Advanced \in Seq(Activation) /\ Len(Advanced) = Len(stack)
      /\ DOMAIN Advanced = DOMAIN stack
      /\ Len(stack) \in Nat \ {0} /\ DOMAIN stack = 1 .. Len(stack)
  BY AdvancedType, TopType DEF TypeInv, TypeOK, ControlOK
<1>2. Frame(t) \in Activation /\ Frame(t).unit = t
  BY FrameType
<1>3. /\ DOMAIN stack' = DOMAIN stack \cup {Len(stack) + 1}
      /\ \A k \in DOMAIN stack : stack'[k] = Advanced[k]
      /\ stack'[Len(stack) + 1] = Frame(t)
  BY <1>1, <1>2, PushType
<1>4. \A k \in DOMAIN stack : stack'[k].unit = stack[k].unit
  BY <1>3, AdvancedShape
<1>5. \A u : OnStack(u)' <=> OnStack(u) \/ u = t
  BY <1>2, <1>3, <1>4 DEF OnStack
<1> QED
  BY <1>1, <1>3, <1>4, <1>5

LEMMA StackPops ==
  ASSUME TypeInv, Running, stack' = SubSeq(stack, 1, Len(stack) - 1)
  PROVE  /\ Len(stack) \in DOMAIN stack /\ Top = stack[Len(stack)]
         /\ DOMAIN stack' = DOMAIN stack \ {Len(stack)}
         /\ \A k \in DOMAIN stack' : stack'[k] = stack[k]
         /\ \A u : OnStack(u) <=> OnStack(u)' \/ u = Top.unit
<1>1. prog \in Programs /\ stack \in Seq(Activation)
  BY DEF TypeInv, TypeOK, ControlOK
<1>2. Len(stack) \in DOMAIN stack /\ Top = stack[Len(stack)]
  BY <1>1, TopType
<1>3. /\ DOMAIN stack' = DOMAIN stack \ {Len(stack)}
      /\ \A k \in DOMAIN stack' : stack'[k] = stack[k]
  BY <1>1, PopType
<1>4. \A u : OnStack(u) <=> OnStack(u)' \/ u = Top.unit
  BY <1>2, <1>3 DEF OnStack
<1> QED
  BY <1>2, <1>3, <1>4

-----------------------------------------------------------------------------
(***************************************************************************)
(* What each kind of step does to the discovered and the finished units.     *)
(* First: what a mention, a queued vtable or the start adds is the unit       *)
(* itself, and nothing gets finished.                                        *)
(***************************************************************************)
LEMMA ScriptUnits ==
  ASSUME NEW p \in Programs, NEW u \in Unit
  PROVE  Succ(p, u) \subseteq Unit
<1>1. Script(p, u) \in Seq(Op) /\ DOMAIN Script(p, u) = 1 .. Len(Script(p, u))
  BY ScriptType, LenProperties
<1>2. \A k \in DOMAIN Script(p, u) : Script(p, u)[k] \in Op
  BY <1>1, ElementOfSeq
<1>3. \A o \in Op : o.unit \in Unit
  BY DEF Op, Unit
<1> QED
  BY <1>2, <1>3 DEF Succ

(* The units that have been started are discovered; none of those still on the *)
(* stack is finished.                                                        *)
LEMMA TopIsOpen ==
  ASSUME SafetyInv, OpenFrames, Running
  PROVE  Top.unit \in Unit /\ Top.unit \in SeenUnits \ DoneUnits
<1>1. /\ Len(stack) \in DOMAIN stack /\ Top = stack[Len(stack)] /\ Top.unit \in Unit
      /\ OnStack(Top.unit)
  BY TopType, StackAdvances DEF SafetyInv, TypeInv, TypeOK, ControlOK
<1>2. Top.unit \in Known \cup VTableKey
  BY <1>1 DEF SafetyInv, TypeInv, FramesKnown
<1>3. Top.unit \in SeenUnits
  BY <1>1, <1>2 DEF SeenUnits, Known
<1>4. /\ DOMAIN monoTypes \subseteq TypeInst /\ DOMAIN vtables \subseteq VTableKey
  BY DEF SafetyInv, TypeInv, TypeOK, TypesOK, VTablesOK
<1>5. Top.unit \in FnInst => ~ Lowered(Top.unit)
  BY <1>1 DEF SafetyInv, OneHome
<1>6. Top.unit \in TypeInst => ~ types[monoTypes[Top.unit]].built
  BY <1>1 DEF OpenFrames
<1> QED
  BY <1>1, <1>3, <1>4, <1>5, <1>6 DEF DoneUnits

LEMMA SameDone ==
  ASSUME SafetyInv, functions' = functions, vtables' = vtables,
         \/ monoTypes' = monoTypes /\ types' = types
         \/ \E t \in TypeInst \ DOMAIN monoTypes :
              /\ monoTypes' = Put(monoTypes, t, nextType)
              /\ types' = Put(types, nextType, [inst |-> t, built |-> FALSE]),
         \A v \in DOMAIN vtables : OnStack(v)' <=> OnStack(v)
  PROVE  DoneUnits' = DoneUnits
<1>1. \A f \in FnInst : Lowered(f)' <=> Lowered(f)
  BY DEF Lowered
<1>2. {v \in DOMAIN vtables : ~ OnStack(v)}' = {v \in DOMAIN vtables : ~ OnStack(v)}
  OBVIOUS
<1>3. {t \in DOMAIN monoTypes : types[monoTypes[t]].built}'
        = {t \in DOMAIN monoTypes : types[monoTypes[t]].built}
  <2>1. CASE monoTypes' = monoTypes /\ types' = types
    BY <2>1
  <2>2. CASE ~ (monoTypes' = monoTypes /\ types' = types)
    <3>1. PICK t \in TypeInst \ DOMAIN monoTypes :
            /\ monoTypes' = Put(monoTypes, t, nextType)
            /\ types' = Put(types, nextType, [inst |-> t, built |-> FALSE])
      BY <2>2
    <3>2. /\ DOMAIN monoTypes' = DOMAIN monoTypes \cup {t} /\ monoTypes'[t] = nextType
          /\ \A s \in DOMAIN monoTypes : monoTypes'[s] = monoTypes[s]
          /\ types'[nextType].built = FALSE
      BY <3>1 DEF Put
    <3>3. nextType \notin DOMAIN types /\ \A s \in DOMAIN monoTypes : monoTypes[s] \in DOMAIN types
      BY DEF SafetyInv, TypeInv, TypeOK, TypesOK
    <3>4. \A id \in DOMAIN types : types'[id] = types[id]
      BY <3>1, <3>3 DEF Put
    <3> QED
      BY <3>2, <3>3, <3>4
  <2> QED
    BY <2>1, <2>2
<1> QED
  BY <1>1, <1>2, <1>3 DEF DoneUnits

LEMMA CallDiscovers ==
  ASSUME SafetyInv, NEW f \in FnInst, MonoFn(f), monoTypes' = monoTypes, vtables' = vtables,
         \A u : OnStack(u)' <=> OnStack(u)
  PROVE  SeenUnits' = SeenUnits \cup {f}
<1>1. DOMAIN monoFns' = DOMAIN monoFns \cup {f}
  BY MonoFnType DEF SafetyInv, TypeInv, TypeOK
<1>2. worklist' = worklist \/ worklist' = Append(worklist, f)
  BY DEF MonoFn
<1>3. \A v \in VTableKey : InQueue(v)' <=> InQueue(v)
  <2>1. CASE worklist' = worklist
    BY <2>1 DEF InQueue
  <2>2. CASE worklist' = Append(worklist, f)
    BY <2>2, QueueGrows, KindsAssumption DEF SafetyInv
  <2> QED
    BY <1>2, <2>1, <2>2
<1> QED
  BY <1>1, <1>3 DEF SeenUnits

LEMMA NextDiscovers ==
  ASSUME SafetyInv, OpenFrames, CallFn \/ TypeHit \/ TypeMiss \/ QueueVTable
  PROVE  /\ Running /\ ~ Finished /\ NextOp.op # "seal" /\ prog' = prog
         /\ NextOp.unit \in Succ(prog, Top.unit)
         /\ SeenUnits' = SeenUnits \cup {NextOp.unit}
         /\ DoneUnits' = DoneUnits
<1>1. /\ Running /\ ~ Finished /\ NextOp.op # "seal" /\ prog' = prog
      /\ functions' = functions /\ vtables' = vtables
  BY DEF CallFn, TypeHit, TypeMiss, QueueVTable, About
<1>2. TypeInv /\ DOMAIN vtables \subseteq VTableKey
  BY DEF SafetyInv, TypeInv, TypeOK, VTablesOK
<1>3. NextOp.unit \in Succ(prog, Top.unit)
  <2>1. /\ prog \in Programs /\ Top.unit \in Unit
        /\ NextOp = Script(prog, Top.unit)[Top.next]
        /\ Top.next \in 1 .. Len(Script(prog, Top.unit))
    BY <1>1, <1>2, OpType, StackAdvances
  <2>2. DOMAIN Script(prog, Top.unit) = 1 .. Len(Script(prog, Top.unit))
    BY <2>1, ScriptType, LenProperties
  <2> QED
    BY <2>1, <2>2 DEF Succ
<1>4. CASE CallFn
  <2>1. /\ NextOp.unit \in FnInst /\ MonoFn(NextOp.unit)
        /\ stack' = Advanced /\ UNCHANGED <<monoTypes, types>>
    BY <1>4 DEF CallFn
  <2>2. \A u : OnStack(u)' <=> OnStack(u)
    BY <1>1, <1>2, <2>1, StackAdvances
  <2>3. SeenUnits' = SeenUnits \cup {NextOp.unit}
    BY <1>1, <2>1, <2>2, CallDiscovers
  <2>4. DoneUnits' = DoneUnits
    BY <1>1, <2>1, <2>2, SameDone
  <2> QED
    BY <1>1, <1>3, <2>3, <2>4
<1>5. CASE TypeHit
  <2>1. /\ NextOp.unit \in DOMAIN monoTypes /\ stack' = Advanced
        /\ UNCHANGED <<worklist, monoFns, monoTypes, types>>
    BY <1>5 DEF TypeHit
  <2>2. \A u : OnStack(u)' <=> OnStack(u)
    BY <1>1, <1>2, <2>1, StackAdvances
  <2>3. SeenUnits' = SeenUnits \cup {NextOp.unit}
    BY <1>1, <2>1, <2>2 DEF SeenUnits, InQueue
  <2>4. DoneUnits' = DoneUnits
    BY <1>1, <2>1, <2>2, SameDone
  <2> QED
    BY <1>1, <1>3, <2>3, <2>4
<1>6. CASE TypeMiss
  <2> DEFINE t == NextOp.unit
  <2>1. /\ t \in TypeInst \ DOMAIN monoTypes
        /\ monoTypes' = Put(monoTypes, t, nextType)
        /\ types' = Put(types, nextType, [inst |-> t, built |-> FALSE])
        /\ stack' = Append(Advanced, Frame(t))
        /\ UNCHANGED <<worklist, monoFns>>
    BY <1>6 DEF TypeMiss
  <2> HIDE DEF t
  <2>2. \A u : OnStack(u)' <=> OnStack(u) \/ u = t
    BY <1>1, <1>2, <2>1, StackPushes DEF Unit
  <2>3. \A v \in VTableKey : (OnStack(v)' <=> OnStack(v)) /\ (InQueue(v)' <=> InQueue(v))
    BY <2>1, <2>2, KindsAssumption DEF InQueue
  <2>4. DOMAIN monoTypes' = DOMAIN monoTypes \cup {t}
    BY <2>1 DEF Put
  <2>5. SeenUnits' = SeenUnits \cup {t}
    BY <1>1, <2>1, <2>3, <2>4 DEF SeenUnits
  <2>6. DoneUnits' = DoneUnits
    BY <1>1, <1>2, <2>1, <2>3, SameDone
  <2> QED
    BY <1>1, <1>3, <2>5, <2>6 DEF t
<1>7. CASE QueueVTable
  <2>1. /\ NextOp.op \in {"task", "task_unless_built"} /\ stack' = Advanced
        /\ \/ worklist' = worklist /\ NextOp.unit \in DOMAIN vtables
           \/ worklist' = Append(worklist, NextOp.unit)
        /\ UNCHANGED <<monoFns, monoTypes, types>>
    BY <1>7 DEF QueueVTable, About
  <2>2. NextOp.unit \in VTableKey
    BY <1>1, <1>2, <2>1, OpType DEF Op
  <2>3. \A u : OnStack(u)' <=> OnStack(u)
    BY <1>1, <1>2, <2>1, StackAdvances
  <2>4. SeenUnits' = SeenUnits \cup {NextOp.unit}
    <3>1. CASE worklist' = worklist /\ NextOp.unit \in DOMAIN vtables
      BY <1>1, <2>1, <2>2, <2>3, <3>1 DEF SeenUnits, InQueue
    <3>2. CASE worklist' = Append(worklist, NextOp.unit)
      <4>1. \A u : InQueue(u)' <=> InQueue(u) \/ u = NextOp.unit
        BY <1>2, <2>2, <3>2, QueueGrows
      <4> QED
        BY <1>1, <2>1, <2>2, <2>3, <4>1 DEF SeenUnits
    <3> QED
      BY <2>1, <3>1, <3>2
  <2>5. DoneUnits' = DoneUnits
    BY <1>1, <2>1, <2>3, SameDone
  <2> QED
    BY <1>1, <1>3, <2>4, <2>5
<1> QED
  BY <1>4, <1>5, <1>6, <1>7

(***************************************************************************)
(* Taking a task, storing a vtable and the ends of the run leave both sets.  *)
(***************************************************************************)
LEMMA QuietSteps ==
  ASSUME SafetyInv, OpenFrames,
         NoMain \/ TakeTask \/ SealVTable \/ Finish \/ UNCHANGED vars
  PROVE  prog' = prog /\ SeenUnits' = SeenUnits /\ DoneUnits' = DoneUnits
<1>1. UNCHANGED <<prog, monoFns, monoTypes, functions, types>>
  BY DEF NoMain, TakeTask, SealVTable, Finish, vars
<1>2. TypeInv /\ worklist \in Seq(FnInst \cup VTableKey) /\ DOMAIN vtables \subseteq VTableKey
  BY DEF SafetyInv, TypeInv, TypeOK, ControlOK, VTablesOK
<1>3. CASE NoMain \/ Finish \/ UNCHANGED vars
  <2>1. UNCHANGED <<stack, worklist, vtables>>
    BY <1>3 DEF NoMain, Finish, vars
  <2> QED
    BY <1>1, <2>1 DEF SeenUnits, DoneUnits, InQueue, OnStack, Lowered
<1>4. CASE TakeTask
  <2> DEFINE h == Head(worklist)
  <2>1. /\ stack = <<>> /\ worklist # <<>> /\ worklist' = Tail(worklist) /\ vtables' = vtables
        /\ stack' = IF Skips(h) THEN <<>> ELSE <<Frame(h)>>
    BY <1>4 DEF TakeTask
  <2>2. h \in FnInst \cup VTableKey /\ \A u : InQueue(u) <=> InQueue(u)' \/ u = h
    BY <1>2, <2>1, QueueHead
  <2>3. \A u : OnStack(u)' <=> ~ Skips(h) /\ u = h
    <3>1. CASE Skips(h)
      BY <2>1, <3>1 DEF OnStack
    <3>2. CASE ~ Skips(h)
      BY <2>1, <3>2 DEF OnStack, Frame
    <3> QED
      BY <3>1, <3>2
  <2>4. \A u : ~ OnStack(u)
    BY <2>1 DEF OnStack
  <2> HIDE DEF h
  <2>5. \A v \in VTableKey : InQueue(v) \/ v \in DOMAIN vtables
          <=> InQueue(v)' \/ OnStack(v)' \/ v \in DOMAIN vtables
    BY <2>2, <2>3 DEF Skips
  <2>6. SeenUnits' = SeenUnits
    BY <1>1, <2>1, <2>4, <2>5 DEF SeenUnits
  <2>7. \A v \in DOMAIN vtables : OnStack(v)' <=> OnStack(v)
    BY <1>2, <2>3, <2>4 DEF Skips
  <2> QED
    BY <1>1, <2>1, <2>6, <2>7, SameDone
<1>5. CASE SealVTable
  <2>1. /\ About({"seal"}) /\ vtables' = Put(vtables, NextOp.unit, Slots(NextOp.unit))
        /\ stack' = Advanced /\ worklist' = worklist
    BY <1>5 DEF SealVTable
  <2>2. Running /\ NextOp.unit = Top.unit /\ Top.unit \in VTableKey
    BY <1>2, <2>1, SlotsType DEF About
  <2>3. OnStack(Top.unit) /\ \A u : OnStack(u)' <=> OnStack(u)
    BY <1>2, <2>1, <2>2, StackAdvances
  <2>4. DOMAIN vtables' = DOMAIN vtables \cup {Top.unit}
    BY <2>1, <2>2 DEF Put
  <2>5. SeenUnits' = SeenUnits
    BY <1>1, <2>1, <2>2, <2>3, <2>4 DEF SeenUnits, InQueue
  <2>6. {v \in DOMAIN vtables : ~ OnStack(v)}' = {v \in DOMAIN vtables : ~ OnStack(v)}
    BY <2>3, <2>4
  <2>7. DoneUnits' = DoneUnits
    BY <1>1, <2>6 DEF DoneUnits, Lowered
  <2> QED
    BY <1>1, <2>5, <2>7
<1> QED
  BY <1>3, <1>4, <1>5

(***************************************************************************)
(* The start discovers the main that was picked.                             *)
(***************************************************************************)
LEMMA StartDiscovers ==
  ASSUME SafetyInv, EntryInv, FindMain
  PROVE  /\ SeenUnits = {} /\ DoneUnits = {} /\ DoneUnits' = {}
         /\ stack = <<>> /\ stack' = <<>>
         /\ prog' = prog /\ status' = "run"
         /\ \E f \in prog.mains :
              /\ MonoFn(f) /\ SeenUnits' = {f}
              /\ f \in DOMAIN monoFns' /\ entry' = {monoFns'[f]}
<1>1. PICK f \in prog.mains : MonoFn(f) /\ entry' = {monoFns'[f]}
  BY DEF FindMain
<1>2. /\ status = "start" /\ status' = "run"
      /\ UNCHANGED <<prog, stack, monoTypes, functions, types, vtables>>
  BY DEF FindMain
<1>3. f \in FnInst
  BY ProgramsAssumption DEF SafetyInv, TypeInv, TypeOK, ControlOK, Program
<1>4. SeenUnits = {} /\ DoneUnits = {} /\ stack = <<>>
  BY <1>2 DEF EntryInv, SafetyInv, ShapeInv
<1>5. \A u : OnStack(u)' <=> OnStack(u)
  BY <1>2 DEF OnStack
<1>6. SeenUnits' = SeenUnits \cup {f}
  BY <1>1, <1>2, <1>3, <1>5, CallDiscovers
<1>7. DoneUnits' = DoneUnits
  BY <1>2, <1>5, SameDone
<1>8. f \in DOMAIN monoFns'
  BY <1>1, <1>3, MonoFnType DEF SafetyInv, TypeInv, TypeOK
<1> QED
  BY <1>1, <1>2, <1>4, <1>6, <1>7, <1>8

(***************************************************************************)
(* A return finishes the unit on top, and everything it mentions is there.   *)
(***************************************************************************)
LEMMA FinishedCovered ==
  ASSUME SafetyInv, ScriptsDone, Running, Finished
  PROVE  /\ Succ(prog, Top.unit) \subseteq SeenUnits
         /\ Top.unit \in VTableKey => Top.unit \in DOMAIN vtables
<1> DEFINE s == Script(prog, Top.unit)
<1>1. /\ prog \in Programs /\ Len(stack) \in DOMAIN stack /\ Top = stack[Len(stack)]
      /\ Top.unit \in Unit /\ Top.next \in Nat \ {0}
      /\ s \in Seq(Op) /\ Len(s) \in Nat
  BY TopType DEF SafetyInv, TypeInv, TypeOK, ControlOK
<1>2. DOMAIN s = 1 .. Len(s) /\ \A j \in 1 .. Len(s) : s[j] \in Op
  BY <1>1, ElementOfSeq, LenProperties
<1>3. Covered(prog, Top, AnyOp, SeenUnits) /\ Covered(prog, Top, {"seal"}, DOMAIN vtables)
  BY <1>1 DEF ScriptsDone
<1>4. Top.next > Len(s)
  BY DEF Finished
<1> HIDE DEF s
<1>5. Top.next - 1 = Len(s)
  <2>1. Top.next <= Len(s) + 1
    BY <1>3 DEF Covered, s
  <2> QED
    BY <1>1, <1>4, <2>1
<1>6. \A j \in 1 .. Len(s) : s[j].op \in AnyOp => s[j].unit \in SeenUnits
  BY <1>3, <1>5 DEF Covered, s
<1>7. \A j \in 1 .. Len(s) : s[j].op = "seal" => s[j].unit \in DOMAIN vtables
  BY <1>3, <1>5 DEF Covered, s
<1>8. \A o \in Op : o.op \in AnyOp
  BY DEF Op, AnyOp
<1>9. Succ(prog, Top.unit) \subseteq SeenUnits
  BY <1>2, <1>6, <1>8 DEF Succ, s
<1>10. ASSUME Top.unit \in VTableKey
       PROVE  Top.unit \in DOMAIN vtables
  <2> DEFINE k == Len(prog.impl[Top.unit]) + 1
  <2>1. /\ prog.impl[Top.unit] \in Seq(FnInst) /\ Len(s) > Len(prog.impl[Top.unit])
        /\ \A j \in 1 .. Len(s) : s[j].op = "seal" <=> j = k
        /\ s[k].unit = Top.unit
    BY <1>1, <1>10, SealingScript, SMTT(30) DEF s
  <2>2. k \in 1 .. Len(s)
    BY <1>1, <2>1, LenProperties
  <2> QED
    BY <1>7, <2>1, <2>2
<1> QED
  BY <1>9, <1>10

LEMMA ReturnFinishes ==
  ASSUME SafetyInv, ScriptsDone, OpenFrames, Return
  PROVE  /\ Top.unit \in Unit /\ Top.unit \in SeenUnits \ DoneUnits
         /\ Succ(prog, Top.unit) \subseteq SeenUnits
         /\ prog' = prog /\ SeenUnits' = SeenUnits
         /\ DoneUnits' = DoneUnits \cup {Top.unit}
<1> DEFINE u == Top.unit
<1>1. /\ Running /\ Finished /\ stack' = SubSeq(stack, 1, Len(stack) - 1)
      /\ functions' = IF u \in FnInst THEN Put(functions, monoFns[u], u) ELSE functions
      /\ types' = IF u \in TypeInst
                  THEN Put(types, monoTypes[u], [inst |-> u, built |-> TRUE]) ELSE types
      /\ UNCHANGED <<prog, worklist, monoFns, monoTypes, vtables>>
  BY DEF Return
<1>2. /\ u \in Unit /\ u \in SeenUnits \ DoneUnits /\ Succ(prog, u) \subseteq SeenUnits
      /\ u \in VTableKey => u \in DOMAIN vtables
  BY <1>1, TopIsOpen, FinishedCovered
<1>3. /\ DOMAIN monoFns \subseteq FnInst /\ DOMAIN monoTypes \subseteq TypeInst
      /\ DOMAIN vtables \subseteq VTableKey
      /\ \A t \in DOMAIN monoTypes : monoTypes[t] \in DOMAIN types
  BY DEF SafetyInv, TypeInv, TypeOK, FnsOK, TypesOK, VTablesOK
<1>4. /\ Len(stack) \in DOMAIN stack /\ u = stack[Len(stack)].unit
      /\ DOMAIN stack' = DOMAIN stack \ {Len(stack)}
      /\ \A k \in DOMAIN stack' : stack'[k] = stack[k]
      /\ \A x : OnStack(x) <=> OnStack(x)' \/ x = u
  BY <1>1, StackPops DEF SafetyInv
<1>5. \A x : x = u => ~ OnStack(x)'
  BY <1>4 DEF OpenFrames, OnStack
<1> HIDE DEF u
<1>6. SeenUnits' = SeenUnits
  BY <1>1, <1>2, <1>4 DEF SeenUnits, InQueue
<1>7. /\ u \in FnInst => u \in DOMAIN monoFns
      /\ u \in TypeInst => u \in DOMAIN monoTypes
  BY <1>2, <1>3, KindsAssumption DEF SeenUnits
<1>8. {f \in FnInst : Lowered(f)}' = {f \in FnInst : Lowered(f)} \cup (FnInst \cap {u})
  <2>1. CASE u \in FnInst
    <3>1. monoFns[u] \notin DOMAIN functions
      BY <1>2, <1>7, <2>1 DEF SafetyInv, TablesInv, TablesAgree, DoneUnits, Lowered
    <3>2. /\ DOMAIN functions' = DOMAIN functions \cup {monoFns[u]}
          /\ functions'[monoFns[u]] = u
          /\ \A id \in DOMAIN functions : functions'[id] = functions[id]
      BY <1>1, <2>1, <3>1 DEF Put
    <3> QED
      BY <2>1, <3>2 DEF Lowered
  <2>2. CASE u \notin FnInst
    BY <1>1, <2>2 DEF Lowered
  <2> QED
    BY <2>1, <2>2
<1>9. {t \in DOMAIN monoTypes : types[monoTypes[t]].built}'
        = {t \in DOMAIN monoTypes : types[monoTypes[t]].built} \cup (TypeInst \cap {u})
  <2>1. CASE u \in TypeInst
    <3>1. \A t \in DOMAIN monoTypes : monoTypes[t] = monoTypes[u] => t = u
      BY <1>7, <2>1 DEF SafetyInv, TablesInv, TablesAgree
    <3>2. /\ types'[monoTypes[u]].built
          /\ \A t \in DOMAIN monoTypes : t # u => types'[monoTypes[t]] = types[monoTypes[t]]
      BY <1>1, <1>3, <2>1, <3>1 DEF Put
    <3> QED
      BY <1>1, <1>7, <2>1, <3>2
  <2>2. CASE u \notin TypeInst
    BY <1>1, <2>2
  <2> QED
    BY <2>1, <2>2
<1>10. {v \in DOMAIN vtables : ~ OnStack(v)}'
         = {v \in DOMAIN vtables : ~ OnStack(v)} \cup (VTableKey \cap {u})
  <2>1. \A v \in VTableKey : v \in DOMAIN vtables' /\ ~ OnStack(v)'
          <=> (v \in DOMAIN vtables /\ ~ OnStack(v)) \/ v = u
    BY <1>1, <1>2, <1>4, <1>5
  <2> QED
    BY <1>1, <1>3, <2>1
<1>11. DoneUnits' = DoneUnits \cup {u}
  BY <1>2, <1>8, <1>9, <1>10 DEF DoneUnits, Unit
<1> QED
  BY <1>1, <1>2, <1>6, <1>11 DEF u

-----------------------------------------------------------------------------
(***************************************************************************)
(* Each conjunct of the invariant is kept by every step.                     *)
(***************************************************************************)
LEMMA SeenGrows ==
  ASSUME CompleteInv, [Next]_vars
  PROVE  prog' = prog /\ SeenUnits \subseteq SeenUnits'
<1>1. SafetyInv /\ ScriptsDone /\ OpenFrames /\ EntryInv
  BY DEF CompleteInv
<1>2. CASE FindMain
  BY <1>1, <1>2, StartDiscovers
<1>3. CASE CallFn \/ TypeHit \/ TypeMiss \/ QueueVTable
  BY <1>1, <1>3, NextDiscovers
<1>4. CASE NoMain \/ TakeTask \/ SealVTable \/ Finish \/ UNCHANGED vars
  BY <1>1, <1>4, QuietSteps
<1>5. CASE Return
  BY <1>1, <1>5, ReturnFinishes
<1> QED
  BY <1>2, <1>3, <1>4, <1>5 DEF Next

LEMMA DoneClosedStep == CompleteInv /\ [Next]_vars => DoneClosed'
<1> SUFFICES ASSUME CompleteInv, [Next]_vars PROVE DoneClosed'
  OBVIOUS
<1>1. SafetyInv /\ ScriptsDone /\ OpenFrames /\ EntryInv
  BY DEF CompleteInv
<1>2. prog' = prog /\ SeenUnits \subseteq SeenUnits'
  BY SeenGrows
<1>3. \A u \in DoneUnits : Succ(prog, u) \subseteq SeenUnits
  BY DEF CompleteInv, DoneClosed
<1>4. \A u : Succ(prog, u)' = Succ(prog, u)
  BY <1>2 DEF Succ, Script, StructScript, VTableScript
<1>5. \A u \in DoneUnits' : u \in DoneUnits \/ Succ(prog, u) \subseteq SeenUnits
  <2>1. CASE FindMain
    BY <1>1, <2>1, StartDiscovers
  <2>2. CASE CallFn \/ TypeHit \/ TypeMiss \/ QueueVTable
    BY <1>1, <2>2, NextDiscovers
  <2>3. CASE NoMain \/ TakeTask \/ SealVTable \/ Finish \/ UNCHANGED vars
    BY <1>1, <2>3, QuietSteps
  <2>4. CASE Return
    BY <1>1, <2>4, ReturnFinishes
  <2> QED
    BY <2>1, <2>2, <2>3, <2>4 DEF Next
<1> QED
  BY <1>2, <1>3, <1>4, <1>5 DEF DoneClosed

LEMMA ScriptsStep == CompleteInv /\ [Next]_vars => ScriptsDone'
<1> SUFFICES ASSUME CompleteInv, [Next]_vars PROVE ScriptsDone'
  OBVIOUS
<1>1. /\ SafetyInv /\ ScriptsDone /\ OpenFrames /\ EntryInv /\ TypeInv
      /\ prog \in Programs /\ stack \in Seq(Activation)
      /\ worklist \in Seq(FnInst \cup VTableKey)
  BY DEF CompleteInv, SafetyInv, TypeInv, TypeOK, ControlOK
<1>2. prog' = prog /\ SeenUnits \subseteq SeenUnits'
  BY SeenGrows
<1>3. /\ \A k \in DOMAIN stack : Covered(prog, stack[k], AnyOp, SeenUnits)
      /\ \A k \in DOMAIN stack : Covered(prog, stack[k], {"seal"}, DOMAIN vtables)
  BY <1>1 DEF ScriptsDone
<1>4. \A ops, known : \A u \in Unit : Covered(prog, Frame(u), ops, known)
  BY <1>1, CoveredFrame
<1>5. ASSUME DOMAIN vtables \subseteq DOMAIN vtables', DOMAIN stack' \subseteq DOMAIN stack,
             \A k \in DOMAIN stack' : stack'[k] = stack[k]
      PROVE  ScriptsDone'
  <2>1. \A k \in DOMAIN stack' : Covered(prog, stack[k], AnyOp, SeenUnits')
    BY <1>2, <1>3, <1>5, CoveredGrows
  <2>2. \A k \in DOMAIN stack' : Covered(prog, stack[k], {"seal"}, DOMAIN vtables')
    BY <1>3, <1>5, CoveredGrows
  <2> QED
    BY <1>2, <1>5, <2>1, <2>2 DEF ScriptsDone
<1>6. ASSUME Running, ~ Finished, NextOp.unit \in SeenUnits',
             DOMAIN vtables \subseteq DOMAIN vtables',
             NextOp.op = "seal" => NextOp.unit \in DOMAIN vtables'
      PROVE  \A k \in DOMAIN Advanced :
               /\ Covered(prog, Advanced[k], AnyOp, SeenUnits')
               /\ Covered(prog, Advanced[k], {"seal"}, DOMAIN vtables')
  <2>1. \A k \in DOMAIN Advanced : Covered(prog, Advanced[k], AnyOp, SeenUnits')
    BY <1>1, <1>2, <1>3, <1>6, AdvancedCovered
  <2>2. \A k \in DOMAIN Advanced : Covered(prog, Advanced[k], {"seal"}, DOMAIN vtables')
    BY <1>1, <1>3, <1>6, AdvancedCovered
  <2> QED
    BY <2>1, <2>2
<1>7. CASE FindMain \/ NoMain \/ Finish \/ UNCHANGED vars
  <2>1. stack' = stack /\ vtables' = vtables
    BY <1>7 DEF FindMain, NoMain, Finish, vars
  <2> QED
    BY <1>5, <2>1
<1>8. CASE TakeTask
  <2>1. /\ worklist # <<>>
        /\ stack' = IF Skips(Head(worklist)) THEN <<>> ELSE <<Frame(Head(worklist))>>
    BY <1>8 DEF TakeTask
  <2>2. Head(worklist) \in Unit
    BY <1>1, <2>1, HeadTailProperties DEF Unit
  <2>3. \A k \in DOMAIN stack' : stack'[k] = Frame(Head(worklist))
    BY <2>1
  <2>4. \A k \in DOMAIN stack' : /\ Covered(prog, stack'[k], AnyOp, SeenUnits')
                                 /\ Covered(prog, stack'[k], {"seal"}, DOMAIN vtables')
    BY <1>4, <2>2, <2>3
  <2> QED
    BY <1>2, <2>4 DEF ScriptsDone
<1>9. CASE CallFn \/ TypeHit \/ QueueVTable
  <2>1. stack' = Advanced /\ vtables' = vtables
    BY <1>9 DEF CallFn, TypeHit, QueueVTable
  <2>2. Running /\ ~ Finished /\ NextOp.op # "seal" /\ NextOp.unit \in SeenUnits'
    BY <1>1, <1>9, NextDiscovers
  <2> QED
    BY <1>2, <1>6, <2>1, <2>2 DEF ScriptsDone
<1>10. CASE TypeMiss
  <2>1. PICK t \in TypeInst : stack' = Append(Advanced, Frame(t))
    BY <1>10 DEF TypeMiss
  <2>2. Running /\ ~ Finished /\ NextOp.op # "seal" /\ NextOp.unit \in SeenUnits'
    BY <1>1, <1>10, NextDiscovers
  <2>3. vtables' = vtables /\ t \in Unit
    BY <1>10 DEF TypeMiss, Unit
  <2>4. /\ DOMAIN stack' = DOMAIN stack \cup {Len(stack) + 1}
        /\ \A k \in DOMAIN stack : stack'[k] = Advanced[k]
        /\ stack'[Len(stack) + 1] = Frame(t)
    BY <1>1, <2>1, <2>2, <2>3, StackPushes
  <2>5. DOMAIN Advanced = DOMAIN stack
    BY <1>1, <2>2, AdvancedShape
  <2>6. \A k \in DOMAIN stack' : /\ Covered(prog, stack'[k], AnyOp, SeenUnits')
                                 /\ Covered(prog, stack'[k], {"seal"}, DOMAIN vtables')
    BY <1>4, <1>6, <2>2, <2>3, <2>4, <2>5
  <2> QED
    BY <1>2, <2>6 DEF ScriptsDone
<1>11. CASE SealVTable
  <2>1. /\ About({"seal"}) /\ stack' = Advanced
        /\ vtables' = Put(vtables, NextOp.unit, Slots(NextOp.unit))
    BY <1>11 DEF SealVTable
  <2>2. Running /\ ~ Finished /\ NextOp.unit = Top.unit
    BY <1>1, <2>1, SlotsType DEF About
  <2>3. NextOp.unit \in SeenUnits'
    BY <1>1, <1>2, <2>2, TopIsOpen
  <2>4. DOMAIN vtables' = DOMAIN vtables \cup {NextOp.unit}
    BY <2>1 DEF Put
  <2> QED
    BY <1>2, <1>6, <2>1, <2>2, <2>3, <2>4 DEF ScriptsDone
<1>12. CASE Return
  <2>1. Running /\ stack' = SubSeq(stack, 1, Len(stack) - 1) /\ vtables' = vtables
    BY <1>12 DEF Return
  <2>2. DOMAIN stack' \subseteq DOMAIN stack /\ \A k \in DOMAIN stack' : stack'[k] = stack[k]
    BY <1>1, <2>1, StackPops
  <2> QED
    BY <1>5, <2>1, <2>2
<1> QED
  BY <1>7, <1>8, <1>9, <1>10, <1>11, <1>12 DEF Next

LEMMA OpenStep == CompleteInv /\ [Next]_vars => OpenFrames'
<1> SUFFICES ASSUME CompleteInv, [Next]_vars PROVE OpenFrames'
  OBVIOUS
<1>1. /\ SafetyInv /\ TypeInv /\ TypesOK /\ ShapeInv
      /\ prog \in Programs /\ stack \in Seq(Activation)
      /\ worklist \in Seq(FnInst \cup VTableKey)
      /\ DOMAIN monoTypes \subseteq TypeInst
  BY DEF CompleteInv, SafetyInv, TypeInv, TypeOK, TypesOK, ControlOK
<1>2. /\ \A j, k \in DOMAIN stack : stack[j].unit = stack[k].unit => j = k
      /\ \A k \in DOMAIN stack :
           stack[k].unit \in TypeInst => ~ types[monoTypes[stack[k].unit]].built
      /\ \A k \in DOMAIN stack :
           stack[k].unit \in VTableKey /\ stack[k].next <= Len(prog.impl[stack[k].unit]) + 1
             => stack[k].unit \notin DOMAIN vtables
  BY DEF CompleteInv, OpenFrames
<1>3. \A k \in DOMAIN stack : stack[k].unit \in TypeInst => stack[k].unit \in DOMAIN monoTypes
  BY <1>1, KindsAssumption DEF TypeInv, FramesKnown, Known, TypeOK, FnsOK
<1>4. CASE FindMain \/ NoMain \/ Finish \/ UNCHANGED vars
  <2>1. UNCHANGED <<prog, stack, monoTypes, types, vtables>>
    BY <1>4 DEF FindMain, NoMain, Finish, vars
  <2> QED
    BY <1>2, <2>1 DEF OpenFrames
<1>5. CASE TakeTask
  <2> DEFINE h == Head(worklist)
  <2>1. /\ worklist # <<>> /\ stack' = IF Skips(h) THEN <<>> ELSE <<Frame(h)>>
        /\ vtables' = vtables
    BY <1>5 DEF TakeTask
  <2>2. h \notin TypeInst
    BY <1>1, <2>1, HeadTailProperties, KindsAssumption
  <2>3. \A k \in DOMAIN stack' : k = 1 /\ stack'[k].unit = h /\ ~ Skips(h)
    BY <2>1 DEF Frame
  <2> HIDE DEF h
  <2> QED
    BY <2>1, <2>2, <2>3 DEF OpenFrames, Skips
<1>6. ASSUME Running
      PROVE  /\ Top.next \in Nat /\ Top = stack[Len(stack)] /\ Len(stack) \in DOMAIN stack
             /\ DOMAIN Advanced = DOMAIN stack
             /\ \A k \in DOMAIN stack : Advanced[k].unit = stack[k].unit
             /\ \A k \in DOMAIN stack : k # Len(stack) => Advanced[k] = stack[k]
             /\ Advanced[Len(stack)].next = Top.next + 1
  BY <1>1, <1>6, TopType, AdvancedType
<1>7. ASSUME Running
      PROVE  \A k \in DOMAIN stack :
               stack[k].unit \in VTableKey
                 /\ Advanced[k].next <= Len(prog.impl[stack[k].unit]) + 1
                 => stack[k].unit \notin DOMAIN vtables
  <2> TAKE k \in DOMAIN stack
  <2>1. CASE k # Len(stack)
    BY <1>2, <1>6, <1>7, <2>1
  <2>2. CASE k = Len(stack)
    <3> HAVE /\ stack[k].unit \in VTableKey
             /\ Advanced[k].next <= Len(prog.impl[stack[k].unit]) + 1
    <3>1. Len(prog.impl[stack[k].unit]) \in Nat
      BY <1>1, SealingScript, LenProperties
    <3>2. stack[k].next <= Len(prog.impl[stack[k].unit]) + 1
      BY <1>6, <1>7, <2>2, <3>1
    <3> QED
      BY <1>2, <3>2
  <2> QED
    BY <2>1, <2>2
<1>8. CASE CallFn \/ TypeHit \/ QueueVTable
  <2>1. /\ Running /\ stack' = Advanced
        /\ UNCHANGED <<prog, monoTypes, types, vtables>>
    BY <1>8 DEF CallFn, TypeHit, QueueVTable, About
  <2> QED
    BY <1>2, <1>6, <1>7, <2>1, SMTT(30) DEF OpenFrames
<1>9. CASE TypeMiss
  <2>1. PICK t \in TypeInst \ DOMAIN monoTypes :
          /\ monoTypes' = Put(monoTypes, t, nextType)
          /\ types' = Put(types, nextType, [inst |-> t, built |-> FALSE])
          /\ stack' = Append(Advanced, Frame(t))
    BY <1>9 DEF TypeMiss
  <2>2. Running /\ prog' = prog /\ vtables' = vtables /\ t \in Unit
    BY <1>9 DEF TypeMiss, About, Unit
  <2>3. /\ DOMAIN stack' = DOMAIN stack \cup {Len(stack) + 1}
        /\ \A k \in DOMAIN stack : stack'[k] = Advanced[k] /\ stack'[k].unit = stack[k].unit
        /\ stack'[Len(stack) + 1].unit = t
    BY <1>1, <2>1, <2>2, StackPushes DEF Frame
  <2>4. \A k \in DOMAIN stack : stack[k].unit # t
    BY <1>3, <2>1
  <2>5. nextType \notin DOMAIN types /\ \A s \in DOMAIN monoTypes : monoTypes[s] \in DOMAIN types
    BY <1>1 DEF TypesOK
  <2>6. /\ types'[monoTypes'[t]].built = FALSE
        /\ \A s \in DOMAIN monoTypes : types'[monoTypes'[s]] = types[monoTypes[s]]
    BY <2>1, <2>5 DEF Put
  <2>7. \A j, k \in DOMAIN stack' : stack'[j].unit = stack'[k].unit => j = k
    BY <1>2, <2>3, <2>4
  <2>8. \A k \in DOMAIN stack' :
          stack'[k].unit \in TypeInst => ~ types'[monoTypes'[stack'[k].unit]].built
    BY <1>2, <1>3, <2>3, <2>6
  <2>9. t \notin VTableKey
    BY <2>1, KindsAssumption
  <2>10. \A k \in DOMAIN stack' :
           stack'[k].unit \in VTableKey /\ stack'[k].next <= Len(prog.impl[stack'[k].unit]) + 1
             => stack'[k].unit \notin DOMAIN vtables
    BY <1>7, <2>2, <2>3, <2>9
  <2> QED
    BY <2>2, <2>7, <2>8, <2>10 DEF OpenFrames
<1>10. CASE SealVTable
  <2>1. /\ About({"seal"}) /\ stack' = Advanced
        /\ vtables' = Put(vtables, NextOp.unit, Slots(NextOp.unit))
        /\ UNCHANGED <<prog, monoTypes, types>>
    BY <1>10 DEF SealVTable
  <2>2. Running /\ NextOp.unit = Top.unit /\ Top.unit \in VTableKey
    BY <1>1, <2>1, SlotsType DEF About
  <2>3. Top.next = Len(prog.impl[Top.unit]) + 1
    <3>1. /\ Running /\ ~ Finished /\ NextOp.op = "seal"
      BY <2>1 DEF About
    <3>2. /\ Top.next \in 1 .. Len(Script(prog, Top.unit))
          /\ NextOp = Script(prog, Top.unit)[Top.next] /\ Top.unit \in Unit
      BY <1>1, <3>1, OpType, StackAdvances
    <3> QED
      BY <1>1, <3>1, <3>2, SealIsOwn
  <2>4. Len(prog.impl[Top.unit]) \in Nat
    BY <1>1, <2>2, SealingScript, LenProperties
  <2>5. \A k \in DOMAIN stack : stack[k].unit \in VTableKey => k = Len(stack)
    BY <1>1, <1>6, <2>2, KindsAssumption DEF ShapeInv
  <2>6. \A k \in DOMAIN Advanced : stack[k].unit \in VTableKey =>
          ~ (Advanced[k].next <= Len(prog.impl[stack[k].unit]) + 1)
    BY <1>6, <2>2, <2>3, <2>4, <2>5
  <2> QED
    BY <1>2, <1>6, <2>1, <2>2, <2>6, SMTT(30) DEF OpenFrames
<1>11. CASE Return
  <2> DEFINE u == Top.unit
  <2>1. /\ Running /\ stack' = SubSeq(stack, 1, Len(stack) - 1)
        /\ types' = IF u \in TypeInst
                    THEN Put(types, monoTypes[u], [inst |-> u, built |-> TRUE]) ELSE types
        /\ UNCHANGED <<prog, monoTypes, vtables>>
    BY <1>11 DEF Return
  <2>2. /\ u = stack[Len(stack)].unit /\ Len(stack) \in DOMAIN stack
        /\ DOMAIN stack' = DOMAIN stack \ {Len(stack)}
        /\ \A k \in DOMAIN stack' : stack'[k] = stack[k]
    BY <1>1, <2>1, StackPops
  <2> HIDE DEF u
  <2>3. \A k \in DOMAIN stack' : stack[k].unit # u
    BY <1>2, <2>2
  <2>4. \A s, t \in DOMAIN monoTypes : monoTypes[s] = monoTypes[t] => s = t
    BY DEF CompleteInv, SafetyInv, TablesInv, TablesAgree
  <2>5. \A s \in DOMAIN monoTypes : monoTypes[s] \in DOMAIN types
    BY <1>1 DEF TypesOK
  <2>6. u \in TypeInst => u \in DOMAIN monoTypes
    BY <1>3, <2>2
  <2>7. \A s \in DOMAIN monoTypes : s # u => types'[monoTypes[s]] = types[monoTypes[s]]
    BY <2>1, <2>4, <2>5, <2>6 DEF Put
  <2>8. \A k \in DOMAIN stack' :
          stack'[k].unit \in TypeInst => ~ types'[monoTypes[stack'[k].unit]].built
    BY <1>2, <1>3, <2>2, <2>3, <2>7
  <2>9. \A j, k \in DOMAIN stack' : stack'[j].unit = stack'[k].unit => j = k
    BY <1>2, <2>2
  <2>10. \A k \in DOMAIN stack' :
           stack'[k].unit \in VTableKey /\ stack'[k].next <= Len(prog.impl[stack'[k].unit]) + 1
             => stack'[k].unit \notin DOMAIN vtables
    BY <1>2, <2>2
  <2> QED
    BY <2>1, <2>8, <2>9, <2>10 DEF OpenFrames
<1> QED
  BY <1>4, <1>5, <1>8, <1>9, <1>10, <1>11 DEF Next

(***************************************************************************)
(* Ids, bodies and vtables that exist stay what they are.                     *)
(***************************************************************************)
FnIdsStay    == \A f \in DOMAIN monoFns : f \in DOMAIN monoFns' /\ monoFns'[f] = monoFns[f]
TypeIdsStay  == \A t \in DOMAIN monoTypes : t \in DOMAIN monoTypes' /\ monoTypes'[t] = monoTypes[t]
BodiesStay   == \A i \in DOMAIN functions : i \in DOMAIN functions' /\ functions'[i] = functions[i]
VTablesStay  == \A v \in DOMAIN vtables : v \in DOMAIN vtables' /\ vtables'[v] = vtables[v]

LEMMA FnIdsStep == CompleteInv /\ [Next]_vars => FnIdsStay
<1> SUFFICES ASSUME CompleteInv, [Next]_vars PROVE FnIdsStay
  OBVIOUS
<1>1. ControlOK /\ FnsOK /\ prog \in Programs
  BY DEF CompleteInv, SafetyInv, TypeInv, TypeOK, ControlOK
<1>2. ASSUME NEW f \in FnInst, MonoFn(f)
      PROVE  FnIdsStay
  BY <1>1, <1>2, MonoFnType DEF FnIdsStay
<1>3. CASE FindMain
  <2>1. \A f \in prog.mains : f \in FnInst
    BY <1>1, ProgramsAssumption DEF Program
  <2> QED
    BY <1>2, <1>3, <2>1 DEF FindMain
<1>4. CASE CallFn
  BY <1>2, <1>4 DEF CallFn
<1>5. CASE \/ NoMain \/ TakeTask \/ TypeHit \/ TypeMiss \/ QueueVTable \/ SealVTable
           \/ Return \/ Finish \/ UNCHANGED vars
  <2>1. monoFns' = monoFns
    BY <1>5 DEF NoMain, TakeTask, TypeHit, TypeMiss, QueueVTable, SealVTable, Return, Finish, vars
  <2> QED
    BY <2>1 DEF FnIdsStay
<1> QED
  BY <1>3, <1>4, <1>5 DEF Next

LEMMA TypeIdsStep == CompleteInv /\ [Next]_vars => TypeIdsStay
<1> SUFFICES ASSUME CompleteInv, [Next]_vars PROVE TypeIdsStay
  OBVIOUS
<1>1. CASE TypeMiss
  <2>1. PICK t \in TypeInst \ DOMAIN monoTypes : monoTypes' = Put(monoTypes, t, nextType)
    BY <1>1 DEF TypeMiss
  <2> QED
    BY <2>1 DEF Put, TypeIdsStay
<1>2. CASE ~ TypeMiss
  <2>1. monoTypes' = monoTypes
    BY <1>2 DEF Next, FindMain, NoMain, TakeTask, CallFn, TypeHit, QueueVTable, SealVTable,
                Return, Finish, vars
  <2> QED
    BY <2>1 DEF TypeIdsStay
<1> QED
  BY <1>1, <1>2

LEMMA BodiesStep == CompleteInv /\ [Next]_vars => BodiesStay
<1> SUFFICES ASSUME CompleteInv, [Next]_vars PROVE BodiesStay
  OBVIOUS
<1>1. CASE Return /\ Top.unit \in FnInst
  <2> DEFINE u == Top.unit
  <2>1. functions' = Put(functions, monoFns[u], u)
    BY <1>1 DEF Return
  <2>2. u \in SeenUnits \ DoneUnits
    BY <1>1, TopIsOpen DEF CompleteInv, Return
  <2>3. u \in DOMAIN monoFns /\ ~ Lowered(u)
    <3>1. DOMAIN monoTypes \cap FnInst = {}
      BY KindsAssumption DEF CompleteInv, SafetyInv, TypeInv, TypeOK, TypesOK
    <3> QED
      BY <1>1, <2>2, <3>1, KindsAssumption DEF SeenUnits, DoneUnits
  <2>4. monoFns[u] \notin DOMAIN functions
    BY <2>3 DEF CompleteInv, SafetyInv, TablesInv, TablesAgree, Lowered
  <2> QED
    BY <2>1, <2>4 DEF BodiesStay, Put
<1>2. CASE ~ (Return /\ Top.unit \in FnInst)
  <2>1. functions' = functions
    BY <1>2 DEF Next, FindMain, NoMain, TakeTask, CallFn, TypeHit, TypeMiss, QueueVTable,
                SealVTable, Return, Finish, vars
  <2> QED
    BY <2>1 DEF BodiesStay
<1> QED
  BY <1>1, <1>2

LEMMA SealIsNew ==
  ASSUME CompleteInv, SealVTable
  PROVE  /\ NextOp.unit \in VTableKey \ DOMAIN vtables
         /\ vtables' = Put(vtables, NextOp.unit, Slots(NextOp.unit))
<1>1. /\ TypeInv /\ prog \in Programs /\ stack \in Seq(Activation)
      /\ About({"seal"}) /\ Running /\ ~ Finished /\ NextOp.op = "seal"
  BY DEF CompleteInv, SafetyInv, TypeInv, TypeOK, ControlOK, SealVTable, About
<1>2. NextOp.unit = Top.unit /\ Top.unit \in VTableKey
  BY <1>1, SlotsType
<1>3. /\ Top.next \in 1 .. Len(Script(prog, Top.unit))
      /\ NextOp = Script(prog, Top.unit)[Top.next] /\ Top.unit \in Unit
  BY <1>1, OpType, StackAdvances
<1>4. Top.next = Len(prog.impl[Top.unit]) + 1
  BY <1>1, <1>3, SealIsOwn
<1>5. Len(prog.impl[Top.unit]) + 1 \in Nat
  BY <1>1, <1>2, SealingScript, LenProperties
<1>6. Top = stack[Len(stack)] /\ Len(stack) \in DOMAIN stack
  BY <1>1, TopType
<1>7. Top.unit \notin DOMAIN vtables
  BY <1>2, <1>4, <1>5, <1>6 DEF CompleteInv, OpenFrames
<1> QED
  BY <1>2, <1>7 DEF SealVTable

LEMMA VTablesStep == CompleteInv /\ [Next]_vars => VTablesStay
<1> SUFFICES ASSUME CompleteInv, [Next]_vars PROVE VTablesStay
  OBVIOUS
<1>1. CASE SealVTable
  BY <1>1, SealIsNew DEF VTablesStay, Put
<1>2. CASE ~ SealVTable
  <2>1. vtables' = vtables
    BY <1>2 DEF Next, FindMain, NoMain, TakeTask, CallFn, TypeHit, TypeMiss, QueueVTable,
                Return, Finish, vars
  <2> QED
    BY <2>1 DEF VTablesStay
<1> QED
  BY <1>1, <1>2

LEMMA SlotsStep == CompleteInv /\ [Next]_vars => SlotsInv'
<1> SUFFICES ASSUME CompleteInv, [Next]_vars PROVE SlotsInv'
  OBVIOUS
<1>1. FnIdsStay /\ prog' = prog
  BY FnIdsStep, SeenGrows
<1>2. \A v \in DOMAIN vtables :
        /\ Len(vtables[v]) = Len(prog.impl[v])
        /\ \A k \in DOMAIN vtables[v] :
             prog.impl[v][k] \in DOMAIN monoFns /\ vtables[v][k] = monoFns[prog.impl[v][k]]
  BY DEF CompleteInv, SlotsInv
<1>3. ASSUME vtables' = vtables
      PROVE  SlotsInv'
  BY <1>1, <1>2, <1>3 DEF SlotsInv, FnIdsStay
<1>4. CASE SealVTable
  <2> DEFINE v == NextOp.unit
  <2>1. /\ vtables' = Put(vtables, v, Slots(v)) /\ About({"seal"}) /\ monoFns' = monoFns
    BY <1>4 DEF SealVTable
  <2>2. /\ prog.impl[v] \in Seq(FnInst)
        /\ \A k \in DOMAIN prog.impl[v] : prog.impl[v][k] \in DOMAIN monoFns
        /\ Slots(v) \in Seq(0 .. nextFn - 1)
    BY <2>1, SlotsType DEF CompleteInv, SafetyInv
  <2>3. /\ DOMAIN Slots(v) = DOMAIN prog.impl[v]
        /\ \A k \in DOMAIN prog.impl[v] : Slots(v)[k] = monoFns[prog.impl[v][k]]
    BY DEF Slots
  <2>4. Len(Slots(v)) = Len(prog.impl[v])
    BY <2>2, <2>3, LenProperties
  <2> HIDE DEF v
  <2>5. \A w \in DOMAIN vtables' :
          \/ w = v /\ vtables'[w] = Slots(v)
          \/ w \in DOMAIN vtables /\ vtables'[w] = vtables[w]
    BY <2>1 DEF Put
  <2> QED
    BY <1>1, <1>2, <2>1, <2>2, <2>3, <2>4, <2>5 DEF SlotsInv
<1>5. CASE ~ SealVTable
  <2>1. vtables' = vtables
    BY <1>5 DEF Next, FindMain, NoMain, TakeTask, CallFn, TypeHit, TypeMiss, QueueVTable,
                Return, Finish, vars
  <2> QED
    BY <1>3, <2>1
<1> QED
  BY <1>4, <1>5

LEMMA EntryStep == CompleteInv /\ [Next]_vars => EntryInv'
<1> SUFFICES ASSUME CompleteInv, [Next]_vars PROVE EntryInv'
  OBVIOUS
<1>1. SafetyInv /\ ScriptsDone /\ OpenFrames /\ EntryInv
  BY DEF CompleteInv
<1>2. FnIdsStay /\ prog' = prog
  BY FnIdsStep, SeenGrows
<1>3. CASE FindMain
  BY <1>1, <1>3, StartDiscovers DEF EntryInv
<1>4. CASE NoMain \/ UNCHANGED vars
  <2>1. SeenUnits' = SeenUnits /\ DoneUnits' = DoneUnits
    BY <1>1, <1>4, QuietSteps
  <2>2. \/ status = "start" /\ status' = "failed"
        \/ UNCHANGED <<status, entry, monoFns, worklist>>
    BY <1>4 DEF NoMain, vars
  <2> QED
    BY <1>1, <1>2, <2>1, <2>2 DEF EntryInv
<1>5. CASE \/ TakeTask \/ CallFn \/ TypeHit \/ TypeMiss \/ QueueVTable \/ SealVTable \/ Return
           \/ Finish
  <2>1. /\ status = "run" /\ entry' = entry
        /\ \/ status' = "run"
           \/ status' = "done" /\ worklist' = <<>>
    BY <1>5 DEF TakeTask, CallFn, TypeHit, TypeMiss, QueueVTable, SealVTable, Return, Finish,
                About, Running
  <2> QED
    BY <1>1, <1>2, <2>1 DEF EntryInv, FnIdsStay
<1> QED
  BY <1>3, <1>4, <1>5 DEF Next

LEMMA CompleteInit == Init => CompleteInv
<1> SUFFICES ASSUME Init PROVE CompleteInv
  OBVIOUS
<1>1. SafetyInv
  BY TypeInit, TablesInit, ShapeInit, HomeInit DEF SafetyInv
<1>2. SeenUnits = {} /\ DoneUnits = {}
  BY DEF Init, Empty, SeenUnits, DoneUnits, InQueue, OnStack, Lowered
<1>3. ScriptsDone /\ OpenFrames /\ SlotsInv
  BY DEF Init, Empty, ScriptsDone, OpenFrames, SlotsInv
<1>4. DoneClosed /\ EntryInv
  BY <1>2 DEF Init, DoneClosed, EntryInv
<1> QED
  BY <1>1, <1>3, <1>4 DEF CompleteInv

LEMMA CompleteStep == CompleteInv /\ [Next]_vars => CompleteInv'
<1> SUFFICES ASSUME CompleteInv, [Next]_vars PROVE CompleteInv'
  OBVIOUS
<1>1. SafetyInv'
  BY SafetyStep DEF CompleteInv
<1> QED
  BY <1>1, ScriptsStep, DoneClosedStep, OpenStep, SlotsStep, EntryStep DEF CompleteInv

LEMMA CompleteInvariant == Spec => []CompleteInv
BY CompleteInit, CompleteStep, PTL DEF Spec

-----------------------------------------------------------------------------
(***************************************************************************)
(* Ids handed out stay valid: no step changes a cache entry, a stored body    *)
(* or a stored vtable, whatever the program.                                *)
(***************************************************************************)
THEOREM IdsNeverChange == Spec => StableIds
<1>1. CompleteInv /\ [Next]_vars => [FnIdsStay /\ TypeIdsStay /\ BodiesStay /\ VTablesStay]_vars
  BY FnIdsStep, TypeIdsStep, BodiesStep, VTablesStep
<1> QED
  BY <1>1, CompleteInvariant, PTL
     DEF Spec, StableIds, FnIdsStay, TypeIdsStay, BodiesStay, VTablesStay

(***************************************************************************)
(* At the end, with stack and queue empty, every discovered unit is finished *)
(* and defined.                                                             *)
(***************************************************************************)
LEMMA AllDone ==
  ASSUME CompleteInv, status = "done"
  PROVE  /\ SeenUnits \subseteq DoneUnits
         /\ \A f \in DOMAIN monoFns :
              monoFns[f] \in DOMAIN functions /\ functions[monoFns[f]] = f
         /\ \A u \in Unit : Defined(u) <=> u \in DoneUnits
<1>1. stack = <<>> /\ worklist = <<>>
  BY DEF CompleteInv, SafetyInv, ShapeInv, EntryInv
<1>2. \A u : ~ OnStack(u) /\ ~ InQueue(u)
  BY <1>1 DEF OnStack, InQueue
<1>3. /\ DOMAIN monoFns \subseteq FnInst /\ DOMAIN monoTypes \subseteq TypeInst
      /\ DOMAIN vtables \subseteq VTableKey
      /\ DOMAIN functions \subseteq Nat /\ \A id \in DOMAIN functions : functions[id] \in FnInst
      /\ \A t \in DOMAIN monoTypes : monoTypes[t] \in DOMAIN types
  BY DEF CompleteInv, SafetyInv, TypeInv, TypeOK, FnsOK, TypesOK, VTablesOK
<1>4. \A f \in DOMAIN monoFns : Lowered(f)
  BY <1>2, <1>3 DEF CompleteInv, SafetyInv, OneHome
<1>5. \A f \in DOMAIN monoFns : monoFns[f] \in DOMAIN functions /\ functions[monoFns[f]] = f
  BY <1>4 DEF CompleteInv, SafetyInv, TablesInv, TablesAgree, Lowered
<1>6. \A t \in DOMAIN monoTypes : types[monoTypes[t]].built
  BY <1>2, <1>3 DEF CompleteInv, SafetyInv, ShapeInv
<1>7. SeenUnits \subseteq DoneUnits
  BY <1>2, <1>3, <1>4, <1>6 DEF SeenUnits, DoneUnits
<1>8. \A u : Lowered(u) => u \in FnInst
  BY <1>3 DEF Lowered
<1>9. \A u \in Unit : Defined(u) <=> u \in DoneUnits
  BY <1>2, <1>3, <1>8 DEF Defined, DoneUnits
<1> QED
  BY <1>5, <1>7, <1>9

(***************************************************************************)
(* When the lowering is over, slot k of every vtable leads to the body the   *)
(* method resolution chose for method k of the interface.                    *)
(***************************************************************************)
THEOREM EverySlotCallable == Spec => []SlotsCallable
<1>1. CompleteInv => SlotsCallable
  BY AllDone DEF CompleteInv, SlotsInv, SlotsCallable
<1> QED
  BY <1>1, CompleteInvariant, PTL

(***************************************************************************)
(* When the lowering is over nothing that any definition mentions is missing, *)
(* and the entry point has a body: whatever the order of mentions, the kinds  *)
(* of units and the recursion among them.                                   *)
(***************************************************************************)
THEOREM NothingDangles == Spec => []NoDangling
<1>1. CompleteInv => NoDangling
  <2> SUFFICES ASSUME CompleteInv, status = "done"
               PROVE  /\ entry # {} /\ entry \subseteq DOMAIN functions
                      /\ \A u \in Unit : Defined(u) => \A m \in Succ(prog, u) : Defined(m)
    BY DEF NoDangling
  <2>1. entry # {} /\ entry \subseteq DOMAIN functions
    BY AllDone DEF CompleteInv, EntryInv
  <2>2. \A u \in Unit : Succ(prog, u) \subseteq Unit
    BY ScriptUnits DEF CompleteInv, SafetyInv, TypeInv, TypeOK, ControlOK
  <2>3. \A u \in DoneUnits : Succ(prog, u) \subseteq SeenUnits
    BY DEF CompleteInv, DoneClosed
  <2> QED
    BY <2>1, <2>2, <2>3, AllDone
<1> QED
  BY <1>1, CompleteInvariant, PTL

(***************************************************************************)
(* A struct mentions its vtable for each interface it implements, a vtable    *)
(* the one of each parent of its interface.                                  *)
(***************************************************************************)
LEMMA VTableOpsUnits ==
  ASSUME NEW s \in StructInst, NEW ifaces \in Seq(IfaceInst),
         NEW op \in {"task", "task_unless_built"}, NEW k \in DOMAIN ifaces
  PROVE  /\ 2 * k \in DOMAIN VTableOps(s, ifaces, op)
         /\ VTableOps(s, ifaces, op)[2 * k].unit = <<s, ifaces[k]>>
<1>1. Len(ifaces) \in Nat /\ k \in 1 .. Len(ifaces)
  BY LenProperties
<1>2. 2 * k \in 1 .. 2 * Len(ifaces)
  BY <1>1
<1>3. \A n \in Nat : (2 * n) % 2 # 1
  OBVIOUS
<1>4. \A n \in Nat : (2 * n + 1) \div 2 = n
  OBVIOUS
<1>5. (2 * k) % 2 # 1 /\ (2 * k + 1) \div 2 = k
  BY <1>1, <1>3, <1>4
<1> QED
  BY <1>2, <1>5 DEF VTableOps

LEMMA MentionsOf ==
  ASSUME NEW a \in Seq(Op), NEW b \in Seq(Op)
  PROVE  \A k \in DOMAIN b : \E j \in DOMAIN (a \o b) : (a \o b)[j] = b[k]
<1> SUFFICES ASSUME NEW k \in DOMAIN b PROVE \E j \in DOMAIN (a \o b) : (a \o b)[j] = b[k]
  OBVIOUS
<1>1. /\ a \o b \in Seq(Op) /\ Len(a \o b) = Len(a) + Len(b)
      /\ Len(a) \in Nat /\ Len(b) \in Nat /\ k \in 1 .. Len(b)
      /\ \A j \in 1 .. Len(b) : (a \o b)[Len(a) + j] = b[j]
  BY ConcatProperties, LenProperties
<1>2. DOMAIN (a \o b) = 1 .. Len(a) + Len(b)
  BY <1>1, LenProperties
<1>3. Len(a) + k \in DOMAIN (a \o b)
  BY <1>1, <1>2
<1> QED
  BY <1>1, <1>3

LEMMA StructMentions ==
  ASSUME NEW p \in Programs, NEW s \in StructInst, NEW k \in DOMAIN p.implements[s]
  PROVE  <<s, p.implements[s][k]>> \in Succ(p, s)
<1> DEFINE a == Mention(p.fields[s])
           b == VTableOps(s, p.implements[s], "task")
<1>1. p.fields[s] \in Seq(TypeInst) /\ p.implements[s] \in Seq(IfaceInst)
  BY ProgramsAssumption DEF Program, TypeInst
<1>2. PlainOp \subseteq Op
  BY DEF PlainOp, MentionOp, TaskOp, Op
<1>3. p.fields[s] \in Seq(FnInst \cup TypeInst)
  BY <1>1, SeqMonotonic
<1>4. a \in Seq(Op) /\ b \in Seq(Op)
  BY <1>1, <1>2, <1>3, MentionType, VTableOpsType, SeqMonotonic
<1>5. 2 * k \in DOMAIN b /\ b[2 * k].unit = <<s, p.implements[s][k]>>
  BY <1>1, VTableOpsUnits
<1>6. Script(p, s) = a \o b
  BY KindsAssumption DEF Script, StructScript, TypeInst
<1> HIDE DEF a, b
<1>7. \A i \in DOMAIN b : \E j \in DOMAIN (a \o b) : (a \o b)[j] = b[i]
  BY <1>4, MentionsOf
<1>8. PICK j \in DOMAIN (a \o b) : (a \o b)[j] = b[2 * k]
  BY <1>5, <1>7
<1> QED
  BY <1>5, <1>6, <1>8 DEF Succ

LEMMA VTableMentions ==
  ASSUME NEW p \in Programs, NEW v \in VTableKey, NEW k \in DOMAIN p.extends[v[2]]
  PROVE  <<v[1], p.extends[v[2]][k]>> \in Succ(p, v)
<1> DEFINE a == Mention(p.impl[v])
           e == [op |-> "seal", unit |-> v]
           b == VTableOps(v[1], p.extends[v[2]], "task_unless_built")
<1>1. /\ v[1] \in StructInst /\ p.extends[v[2]] \in Seq(IfaceInst)
      /\ p.impl[v] \in Seq(FnInst)
  BY ProgramsAssumption DEF Program, VTableKey
<1>2. PlainOp \subseteq Op
  BY DEF PlainOp, MentionOp, TaskOp, Op
<1>3. p.impl[v] \in Seq(FnInst \cup TypeInst)
  BY <1>1, SeqMonotonic
<1>4. a \in Seq(Op) /\ b \in Seq(Op) /\ <<e>> \in Seq(Op)
  <2>1. a \in Seq(Op) /\ b \in Seq(Op)
    BY <1>1, <1>2, <1>3, MentionType, VTableOpsType, SeqMonotonic
  <2>2. e \in Op
    BY DEF Op
  <2> QED
    BY <2>1, <2>2
<1>5. 2 * k \in DOMAIN b /\ b[2 * k].unit = <<v[1], p.extends[v[2]][k]>>
  BY <1>1, VTableOpsUnits
<1>6. Script(p, v) = (a \o <<e>>) \o b
  BY KindsAssumption DEF Script, VTableScript, TypeInst
<1> HIDE DEF a, b, e
<1>7. a \o <<e>> \in Seq(Op)
  BY <1>4, ConcatProperties
<1> DEFINE c == a \o <<e>>
<1> HIDE DEF c
<1>8. \A i \in DOMAIN b : \E j \in DOMAIN (c \o b) : (c \o b)[j] = b[i]
  BY <1>4, <1>7, MentionsOf DEF c
<1>9. PICK j \in DOMAIN (c \o b) : (c \o b)[j] = b[2 * k]
  BY <1>5, <1>8
<1>10. Script(p, v) = c \o b
  BY <1>6 DEF c
<1> QED
  BY <1>5, <1>9, <1>10 DEF Succ

(***************************************************************************)
(* When the lowering is over every struct instance has its vtable for each    *)
(* interface it implements and for every ancestor of one, in a diamond and     *)
(* in a cycle of `extends` too.                                             *)
(***************************************************************************)
THEOREM EveryVTableThere == Spec => []VTablesComplete
<1>1. CompleteInv => VTablesComplete
  <2> SUFFICES ASSUME CompleteInv, status = "done"
               PROVE  /\ \A s \in StructInst \cap DOMAIN monoTypes :
                           \A k \in DOMAIN prog.implements[s] :
                             <<s, prog.implements[s][k]>> \in DOMAIN vtables
                      /\ \A v \in DOMAIN vtables :
                           \A k \in DOMAIN prog.extends[v[2]] :
                             <<v[1], prog.extends[v[2]][k]>> \in DOMAIN vtables
    BY DEF VTablesComplete
  <2>1. /\ prog \in Programs /\ DOMAIN vtables \subseteq VTableKey
        /\ DOMAIN monoTypes \subseteq TypeInst
    BY DEF CompleteInv, SafetyInv, TypeInv, TypeOK, ControlOK, TypesOK, VTablesOK
  <2>2. /\ SeenUnits \subseteq DoneUnits
        /\ \A u \in DoneUnits : Succ(prog, u) \subseteq SeenUnits
    BY AllDone DEF CompleteInv, DoneClosed
  <2>3. DOMAIN monoTypes \cup DOMAIN vtables \subseteq SeenUnits
    BY <2>1 DEF SeenUnits
  <2>4. \A v \in VTableKey : v \in DoneUnits => v \in DOMAIN vtables
    BY <2>1, KindsAssumption DEF DoneUnits
  <2>5. ASSUME NEW s \in StructInst \cap DOMAIN monoTypes, NEW k \in DOMAIN prog.implements[s]
        PROVE  <<s, prog.implements[s][k]>> \in DOMAIN vtables
    <3>1. <<s, prog.implements[s][k]>> \in DoneUnits
      BY <2>1, <2>2, <2>3, StructMentions
    <3>2. prog.implements[s] \in Seq(IfaceInst)
      BY <2>1, ProgramsAssumption DEF Program
    <3>3. prog.implements[s][k] \in IfaceInst
      BY <3>2, LenProperties, ElementOfSeq
    <3> QED
      BY <2>4, <3>1, <3>3 DEF VTableKey
  <2>6. ASSUME NEW v \in DOMAIN vtables, NEW k \in DOMAIN prog.extends[v[2]]
        PROVE  <<v[1], prog.extends[v[2]][k]>> \in DOMAIN vtables
    <3>1. <<v[1], prog.extends[v[2]][k]>> \in DoneUnits
      BY <2>1, <2>2, <2>3, VTableMentions
    <3>2. v[1] \in StructInst /\ prog.extends[v[2]] \in Seq(IfaceInst)
      BY <2>1, ProgramsAssumption DEF Program, VTableKey
    <3>3. prog.extends[v[2]][k] \in IfaceInst
      BY <3>2, LenProperties, ElementOfSeq
    <3> QED
      BY <2>4, <3>1, <3>2, <3>3 DEF VTableKey
  <2> QED
    BY <2>5, <2>6
<1> QED
  BY <1>1, CompleteInvariant, PTL

-----------------------------------------------------------------------------
(***************************************************************************)
(* The worklist does what Reach says: every step of the lowering is one step *)
(* of the search, or leaves its view of it alone; and what it has lowered     *)
(* at the end is what the chosen main reaches, no more and no less.           *)
(***************************************************************************)

(***************************************************************************)
(* What has been discovered lies in every closed set around the main that    *)
(* was picked.                                                              *)
(***************************************************************************)
FromRoot(r) ==
  /\ r \in SeenUnits
  /\ \A C \in SUBSET Unit : r \in C /\ R!ClosedUnder(C) => SeenUnits \subseteq C

OnlyReached == SeenUnits # {} => \E r \in prog.mains : FromRoot(r)

ReachInv == CompleteInv /\ OnlyReached

(* All and only what one main reaches has been discovered and is finished. *)
ExactlyReached ==
  status = "done" =>
    \E r \in prog.mains : SeenUnits = R!Reachable(r) /\ DoneUnits = SeenUnits

-----------------------------------------------------------------------------
(***************************************************************************)
(* The graph Reach searches is the one the program's scripts span.           *)
(***************************************************************************)
LEMMA GraphFacts ==
  ASSUME TypeInv
  PROVE  /\ prog \in Programs
         /\ ReachGraph \in R!Graphs
         /\ ReachGraph.roots = prog.mains /\ prog.mains \subseteq FnInst
         /\ \A u \in Unit : ReachGraph.succ[u] = Succ(prog, u) /\ Succ(prog, u) \subseteq Unit
<1>1. prog \in Programs
  BY DEF TypeInv, TypeOK, ControlOK
<1>2. prog.mains \subseteq FnInst
  BY <1>1, ProgramsAssumption DEF Program
<1>3. \A u \in Unit : Succ(prog, u) \subseteq Unit
  BY <1>1, ScriptUnits
<1> QED
  BY <1>1, <1>2, <1>3 DEF ReachGraph, R!Graphs, Unit

LEMMA SeenAreUnits ==
  ASSUME TypeInv
  PROVE  SeenUnits \subseteq Unit
BY DEF TypeInv, TypeOK, FnsOK, TypesOK, SeenUnits, Unit

LEMMA SameGraph ==
  ASSUME prog' = prog
  PROVE  ReachGraph' = ReachGraph
<1>1. \A u : Succ(prog, u)' = Succ(prog, u)
  BY DEF Succ, Script, StructScript, VTableScript
<1> QED
  BY <1>1 DEF ReachGraph

(***************************************************************************)
(* The initial states map to initial states, and each kind of step to the     *)
(* step of Reach it performs.                                               *)
(***************************************************************************)
LEMMA ReachInit == Init => R!Init
<1> SUFFICES ASSUME Init PROVE R!Init
  OBVIOUS
<1>1. CompleteInv /\ TypeInv
  BY CompleteInit DEF CompleteInv, SafetyInv
<1>2. SeenUnits = {} /\ DoneUnits = {}
  BY <1>1 DEF Init, CompleteInv, EntryInv
<1>3. ReachGraph \in R!Graphs
  BY <1>1, GraphFacts
<1> QED
  BY <1>2, <1>3 DEF R!Init

LEMMA ReachStep == CompleteInv /\ [Next]_vars => [R!Next]_(R!vars)
<1> SUFFICES ASSUME CompleteInv, [Next]_vars PROVE [R!Next]_(R!vars)
  OBVIOUS
<1>1. SafetyInv /\ ScriptsDone /\ OpenFrames /\ EntryInv /\ TypeInv
  BY DEF CompleteInv, SafetyInv
<1>2. /\ ReachGraph.roots = prog.mains
      /\ \A u \in Unit : ReachGraph.succ[u] = Succ(prog, u) /\ Succ(prog, u) \subseteq Unit
  BY <1>1, GraphFacts
<1>3. ReachGraph' = ReachGraph
  BY SeenGrows, SameGraph
<1>4. CASE FindMain
  <2>1. /\ SeenUnits = {} /\ DoneUnits' = DoneUnits
        /\ \E f \in prog.mains : SeenUnits' = {f}
    BY <1>1, <1>4, StartDiscovers
  <2>2. R!Root
    BY <1>2, <1>3, <2>1 DEF R!Root
  <2> QED
    BY <2>2 DEF R!Next
<1>5. CASE CallFn \/ TypeHit \/ TypeMiss \/ QueueVTable
  <2>1. /\ Running /\ NextOp.unit \in Succ(prog, Top.unit)
        /\ SeenUnits' = SeenUnits \cup {NextOp.unit} /\ DoneUnits' = DoneUnits
    BY <1>1, <1>5, NextDiscovers
  <2>2. Top.unit \in Unit /\ Top.unit \in SeenUnits \ DoneUnits
    BY <1>1, <2>1, TopIsOpen
  <2>3. R!Visit(Top.unit, NextOp.unit) /\ NextOp.unit \in Unit
    BY <1>2, <1>3, <2>1, <2>2 DEF R!Visit
  <2> QED
    BY <2>2, <2>3 DEF R!Next
<1>6. CASE Return
  <2>1. /\ Top.unit \in Unit /\ Top.unit \in SeenUnits \ DoneUnits
        /\ Succ(prog, Top.unit) \subseteq SeenUnits
        /\ SeenUnits' = SeenUnits /\ DoneUnits' = DoneUnits \cup {Top.unit}
    BY <1>1, <1>6, ReturnFinishes
  <2>2. R!Finish(Top.unit)
    BY <1>2, <1>3, <2>1 DEF R!Finish
  <2> QED
    BY <2>1, <2>2 DEF R!Next
<1>7. CASE NoMain \/ TakeTask \/ SealVTable \/ Finish \/ UNCHANGED vars
  BY <1>1, <1>3, <1>7, QuietSteps DEF R!vars
<1> QED
  BY <1>4, <1>5, <1>6, <1>7 DEF Next

(***************************************************************************)
(* The lowering is a search of the instance graph: it starts from one main,   *)
(* discovers only what a discovered unit mentions, and finishes a unit only   *)
(* when all it mentions is discovered.                                      *)
(***************************************************************************)
THEOREM ImplementsReach == Spec => R!Safe
<1>1. Init => R!Init
  BY ReachInit
<1>2. CompleteInv /\ [Next]_vars => [R!Next]_(R!vars)
  BY ReachStep
<1> QED
  BY <1>1, <1>2, CompleteInvariant, PTL DEF Spec, R!Safe

-----------------------------------------------------------------------------
(***************************************************************************)
(* Nothing but what the main reaches is ever discovered.                    *)
(***************************************************************************)
LEMMA ReachInvInit == Init => ReachInv
<1> SUFFICES ASSUME Init PROVE ReachInv
  OBVIOUS
<1>1. CompleteInv
  BY CompleteInit
<1>2. SeenUnits = {}
  BY <1>1 DEF Init, CompleteInv, EntryInv
<1> QED
  BY <1>1, <1>2 DEF ReachInv, OnlyReached

LEMMA ReachInvStep == ReachInv /\ [Next]_vars => ReachInv'
<1> SUFFICES ASSUME ReachInv, [Next]_vars PROVE ReachInv'
  OBVIOUS
<1>1. /\ CompleteInv /\ CompleteInv' /\ OnlyReached
      /\ SafetyInv /\ ScriptsDone /\ OpenFrames /\ EntryInv /\ TypeInv
  BY CompleteStep DEF ReachInv, CompleteInv, SafetyInv
<1>2. \A u \in Unit : ReachGraph.succ[u] = Succ(prog, u) /\ Succ(prog, u) \subseteq Unit
  BY <1>1, GraphFacts
<1>3. ReachGraph' = ReachGraph /\ prog' = prog
  BY <1>1, SeenGrows, SameGraph
<1>4. \A C : R!ClosedUnder(C)' <=> R!ClosedUnder(C)
  BY <1>3 DEF R!ClosedUnder
<1>5. ASSUME NEW r \in prog.mains, FromRoot(r), SeenUnits' = SeenUnits
      PROVE  FromRoot(r)'
  BY <1>4, <1>5 DEF FromRoot
<1>6. CASE FindMain
  <2>1. PICK f \in prog.mains : SeenUnits' = {f}
    BY <1>1, <1>6, StartDiscovers
  <2>2. FromRoot(f)'
    BY <2>1 DEF FromRoot
  <2> QED
    BY <1>1, <1>3, <2>2 DEF ReachInv, OnlyReached
<1>7. CASE CallFn \/ TypeHit \/ TypeMiss \/ QueueVTable
  <2>1. /\ Running /\ NextOp.unit \in Succ(prog, Top.unit)
        /\ SeenUnits' = SeenUnits \cup {NextOp.unit}
    BY <1>1, <1>7, NextDiscovers
  <2>2. Top.unit \in Unit /\ Top.unit \in SeenUnits
    BY <1>1, <2>1, TopIsOpen
  <2>3. PICK r \in prog.mains : FromRoot(r)
    BY <1>1, <2>2 DEF OnlyReached
  <2>4. ASSUME NEW C \in SUBSET Unit, r \in C, R!ClosedUnder(C)
        PROVE  SeenUnits' \subseteq C
    <3>1. SeenUnits \subseteq C
      BY <2>3, <2>4 DEF FromRoot
    <3>2. NextOp.unit \in C
      BY <1>2, <2>1, <2>2, <2>4, <3>1 DEF R!ClosedUnder
    <3> QED
      BY <2>1, <3>1, <3>2
  <2>5. FromRoot(r)'
    BY <1>4, <2>1, <2>3, <2>4 DEF FromRoot
  <2> QED
    BY <1>1, <1>3, <2>5 DEF ReachInv, OnlyReached
<1>8. CASE Return \/ NoMain \/ TakeTask \/ SealVTable \/ Finish \/ UNCHANGED vars
  <2>1. SeenUnits' = SeenUnits
    BY <1>1, <1>8, ReturnFinishes, QuietSteps
  <2> QED
    BY <1>1, <1>3, <1>5, <2>1 DEF ReachInv, OnlyReached
<1> QED
  BY <1>6, <1>7, <1>8 DEF Next

(***************************************************************************)
(* When the lowering is over, what has a definition is exactly what the       *)
(* picked main reaches: nothing is missing and nothing unused got in.        *)
(***************************************************************************)
THEOREM LowersExactlyTheReachable == Spec => []ExactlyReached
<1>1. ReachInv => ExactlyReached
  <2> SUFFICES ASSUME ReachInv, status = "done"
               PROVE  \E r \in prog.mains :
                        SeenUnits = R!Reachable(r) /\ DoneUnits = SeenUnits
    BY DEF ExactlyReached
  <2>1. CompleteInv /\ OnlyReached /\ TypeInv
    BY DEF ReachInv, CompleteInv, SafetyInv
  <2>2. /\ SeenUnits \subseteq Unit
        /\ \A u \in Unit : ReachGraph.succ[u] = Succ(prog, u)
    BY <2>1, GraphFacts, SeenAreUnits
  <2>3. /\ SeenUnits \subseteq DoneUnits
        /\ \A u \in DoneUnits : Succ(prog, u) \subseteq SeenUnits
    BY <2>1, AllDone DEF CompleteInv, DoneClosed
  <2>4. DoneUnits \subseteq SeenUnits
    BY <2>1 DEF CompleteInv, SafetyInv, OneHome, DoneUnits, SeenUnits, TypeInv, TypeOK, VTablesOK
  <2>5. SeenUnits # {}
    BY <2>1 DEF CompleteInv, EntryInv, SeenUnits
  <2>6. PICK r \in prog.mains : FromRoot(r)
    BY <2>1, <2>5 DEF OnlyReached
  <2>7. R!ClosedUnder(SeenUnits)
    BY <2>2, <2>3 DEF R!ClosedUnder
  <2>8. R!Reachable(r) \subseteq SeenUnits
    BY <2>2, <2>6, <2>7 DEF R!Reachable, FromRoot
  <2>9. SeenUnits \subseteq R!Reachable(r)
    BY <2>2, <2>6 DEF R!Reachable, FromRoot
  <2> QED
    BY <2>3, <2>4, <2>8, <2>9
<1> QED
  BY <1>1, ReachInvInit, ReachInvStep, PTL DEF Spec
=============================================================================
