--------------------------------- MODULE Mono ---------------------------------
(***************************************************************************)
(* The monomorphization worklist of the lowering pass (struct Lower,        *)
(* src/src/lower/mod.rs).  Functions are cached and queued when they are     *)
(* mentioned; types are cached, given a placeholder and built at once, by    *)
(* recursion, which the explicit call stack below makes visible; vtables are *)
(* queued by the struct that needs them and by each vtable for the parents   *)
(* of its interface.  What a body, a type or a vtable mentions, and in which *)
(* order, is the input program.                                              *)
(***************************************************************************)
EXTENDS Naturals, Sequences, FiniteSets

CONSTANTS
  FnInst,       (* (FnId, type arguments): the keys of mono_fns              *)
  StructInst,   (* (TypeId, type arguments) of structs, keys of mono_types   *)
  IfaceInst,    (* the same for interfaces                                   *)
  UnionInst,    (* sorted variant lists: the keys of mono_unions             *)
  Programs      (* the input programs of this instance of the model          *)

TypeInst  == StructInst \cup IfaceInst \cup UnionInst
VTableKey == StructInst \X IfaceInst
Unit      == FnInst \cup TypeInst \cup VTableKey

(* What the lowering reads off a validated program. *)
Program ==
  [ mains      : SUBSET FnInst,                      (* non-generic free functions named main *)
    uses       : [FnInst -> Seq(FnInst \cup TypeInst)],   (* callees and types, in body order *)
    fields     : [TypeInst -> Seq(TypeInst)],        (* types of fields, slots, variants *)
    implements : [StructInst -> Seq(IfaceInst)],
    extends    : [IfaceInst -> Seq(IfaceInst)],
    impl       : [VTableKey -> Seq(FnInst)] ]        (* resolve_method_with_args, slot by slot *)

ASSUME ProgramsAssumption == Programs \subseteq Program

(* The kinds of instances are kept apart by the types of their keys. *)
ASSUME KindsAssumption ==
  /\ FnInst \cap (TypeInst \cup VTableKey) = {}
  /\ TypeInst \cap VTableKey = {}
  /\ StructInst \cap IfaceInst = {}
  /\ (StructInst \cup IfaceInst) \cap UnionInst = {}

VARIABLES
  prog,        (* the program being lowered; never changes                    *)
  status,      (* "start", "run", "done" or "failed"                          *)
  entry,       (* the MirFnIds chosen as entry point: {} or a singleton       *)
  worklist,    (* VecDeque<MonoTask>                                          *)
  stack,       (* activations [unit, next]: the last one is at its operation next *)
  monoFns,     (* mono_fns: instance -> MirFnId                               *)
  monoTypes,   (* mono_types and mono_unions: instance -> MirTypeId           *)
  nextFn, nextType,
  functions,   (* mir.functions: MirFnId -> the instance whose body it holds  *)
  types,       (* mir.types: MirTypeId -> [inst, built]; built=FALSE: placeholder *)
  vtables      (* mir.vtables: key -> slot vector of MirFnIds                 *)

vars == <<prog, status, entry, worklist, stack, monoFns, monoTypes,
          nextFn, nextType, functions, types, vtables>>

-----------------------------------------------------------------------------
(* HashMap::new and HashMap::insert *)
Empty == [x \in {} |-> x]
Put(m, k, v) == [x \in DOMAIN m \cup {k} |-> IF x = k THEN v ELSE m[x]]

(* One thing an activation still has to do. *)
Op == [op : {"mention"}, unit : FnInst \cup TypeInst]
        \cup [op : {"task", "task_unless_built", "seal"}, unit : VTableKey]

Mention(xs) == [k \in DOMAIN xs |-> [op |-> "mention", unit |-> xs[k]]]

(* For each interface: create it, then queue the vtable of (s, it). *)
VTableOps(s, ifaces, op) ==
  [k \in 1 .. 2 * Len(ifaces) |->
     LET i == ifaces[(k + 1) \div 2] IN
     IF k % 2 = 1 THEN [op |-> "mention", unit |-> i]
                  ELSE [op |-> op, unit |-> <<s, i>>]]

(* Fault: the parents of the interface are forgotten. *)
VTableScriptNoParents(p, v) == Mention(p.impl[v]) \o <<[op |-> "seal", unit |-> v]>>

(* process_vtable_task: all slots, then the insertion, then the parents. *)
VTableScript(p, v) ==
  Mention(p.impl[v]) \o <<[op |-> "seal", unit |-> v]>>
    \o VTableOps(v[1], p.extends[v[2]], "task_unless_built")

(* build_struct_def: field types first, then one task per `implements`. *)
StructScript(p, s) ==
  Mention(p.fields[s]) \o VTableOps(s, p.implements[s], "task")

Script(p, u) ==
  IF u \in FnInst          THEN Mention(p.uses[u])
  ELSE IF u \in StructInst THEN StructScript(p, u)
  ELSE IF u \in IfaceInst  THEN Mention(p.fields[u] \o p.extends[u])
  ELSE IF u \in UnionInst  THEN Mention(p.fields[u])
  ELSE VTableScript(p, u)

(* Everything a unit's lowering mentions. *)
Succ(p, u) == {Script(p, u)[k].unit : k \in DOMAIN Script(p, u)}

Activation == [unit : Unit, next : Nat \ {0}]

Top      == stack[Len(stack)]
Running  == status = "run" /\ stack # <<>>
Finished == Top.next > Len(Script(prog, Top.unit))
NextOp   == Script(prog, Top.unit)[Top.next]

(* The running activation has an operation left, and it is one of ops. *)
About(ops) == Running /\ ~ Finished /\ NextOp.op \in ops

(* The stack once the running activation has done its next operation. *)
Advanced == [stack EXCEPT ![Len(stack)] = [unit |-> Top.unit, next |-> Top.next + 1]]
Frame(u) == [unit |-> u, next |-> 1]

-----------------------------------------------------------------------------
Init ==
  /\ prog \in Programs
  /\ status = "start" /\ entry = {}
  /\ worklist = <<>> /\ stack = <<>>
  /\ monoFns = Empty /\ monoTypes = Empty
  /\ nextFn = 0 /\ nextType = 0
  /\ functions = Empty /\ types = Empty /\ vtables = Empty

(* Faults of mono_fn that the properties must notice (see the README): the id  *)
(* counter stands still; a hit queues again; a miss is not queued; no cache.   *)
MonoFnSameId(f) ==
  IF f \in DOMAIN monoFns
  THEN UNCHANGED <<monoFns, nextFn, worklist>>
  ELSE /\ monoFns' = Put(monoFns, f, 0)
       /\ nextFn' = nextFn + 1
       /\ worklist' = Append(worklist, f)

MonoFnRequeues(f) ==
  /\ worklist' = Append(worklist, f)
  /\ IF f \in DOMAIN monoFns
     THEN UNCHANGED <<monoFns, nextFn>>
     ELSE monoFns' = Put(monoFns, f, nextFn) /\ nextFn' = nextFn + 1

MonoFnUnqueued(f) ==
  /\ IF f \in DOMAIN monoFns
     THEN UNCHANGED <<monoFns, nextFn>>
     ELSE monoFns' = Put(monoFns, f, nextFn) /\ nextFn' = nextFn + 1
  /\ worklist' = IF worklist = <<>> /\ status = "start" THEN <<f>> ELSE worklist

MonoFnUncached(f) ==
  /\ monoFns' = Put(monoFns, f, nextFn)
  /\ nextFn' = nextFn + 1
  /\ worklist' = Append(worklist, f)

(* mono_fn: a hit returns the cached id, a miss allocates, caches, queues. *)
MonoFn(f) ==
  IF f \in DOMAIN monoFns
  THEN UNCHANGED <<monoFns, nextFn, worklist>>
  ELSE /\ monoFns' = Put(monoFns, f, nextFn)
       /\ nextFn' = nextFn + 1
       /\ worklist' = Append(worklist, f)

(* Fault: any function passes for an entry point. *)
FindAnyMain ==
  /\ status = "start"
  /\ \E f \in FnInst :
       /\ MonoFn(f)
       /\ entry' = {monoFns'[f]}
  /\ status' = "run"
  /\ UNCHANGED <<prog, stack, monoTypes, nextType, functions, types, vtables>>

(* find_main walks a HashMap, so any candidate may be picked. *)
FindMain ==
  /\ status = "start"
  /\ \E f \in prog.mains :
       /\ MonoFn(f)
       /\ entry' = {monoFns'[f]}
  /\ status' = "run"
  /\ UNCHANGED <<prog, stack, monoTypes, nextType, functions, types, vtables>>

NoMain ==
  /\ status = "start" /\ prog.mains = {}
  /\ status' = "failed"
  /\ UNCHANGED <<prog, entry, worklist, stack, monoFns, monoTypes, nextFn, nextType,
                 functions, types, vtables>>

(* process_vtable_task returns at once when the vtable is already there. *)
Skips(u) == u \in VTableKey /\ u \in DOMAIN vtables

(* Fault: the task is looked at, not taken. *)
PeekTask ==
  /\ status = "run" /\ stack = <<>> /\ worklist # <<>>
  /\ stack' = IF Skips(Head(worklist)) THEN <<>> ELSE <<Frame(Head(worklist))>>
  /\ UNCHANGED <<prog, status, entry, worklist, monoFns, monoTypes, nextFn, nextType,
                 functions, types, vtables>>

(* pop_front and the dispatch on the task. *)
TakeTask ==
  /\ status = "run" /\ stack = <<>> /\ worklist # <<>>
  /\ worklist' = Tail(worklist)
  /\ stack' = IF Skips(Head(worklist)) THEN <<>> ELSE <<Frame(Head(worklist))>>
  /\ UNCHANGED <<prog, status, entry, monoFns, monoTypes, nextFn, nextType,
                 functions, types, vtables>>

CallFn ==
  /\ About({"mention"}) /\ NextOp.unit \in FnInst
  /\ MonoFn(NextOp.unit)
  /\ stack' = Advanced
  /\ UNCHANGED <<prog, status, entry, monoTypes, nextType, functions, types, vtables>>

TypeHit ==
  /\ About({"mention"})
  /\ NextOp.unit \in DOMAIN monoTypes
  /\ stack' = Advanced
  /\ UNCHANGED <<prog, status, entry, worklist, monoFns, monoTypes, nextFn, nextType,
                 functions, types, vtables>>

(* Faults: no placeholder for the cached id; a build that is put off. *)
TypeMissBare ==
  /\ About({"mention"})
  /\ LET t == NextOp.unit IN
       /\ t \in TypeInst \ DOMAIN monoTypes
       /\ monoTypes' = Put(monoTypes, t, nextType)
       /\ stack' = Append(Advanced, Frame(t))
  /\ nextType' = nextType + 1
  /\ UNCHANGED <<prog, status, entry, worklist, monoFns, nextFn, functions, types, vtables>>

TypeMissLater ==
  /\ About({"mention"})
  /\ LET t == NextOp.unit IN
       /\ t \in TypeInst \ DOMAIN monoTypes
       /\ monoTypes' = Put(monoTypes, t, nextType)
       /\ types' = Put(types, nextType, [inst |-> t, built |-> FALSE])
  /\ stack' = Advanced
  /\ nextType' = nextType + 1
  /\ UNCHANGED <<prog, status, entry, worklist, monoFns, nextFn, functions, vtables>>

(* get_or_create_*: cache the id and insert the placeholder before building. *)
TypeMiss ==
  /\ About({"mention"})
  /\ LET t == NextOp.unit IN
       /\ t \in TypeInst \ DOMAIN monoTypes
       /\ monoTypes' = Put(monoTypes, t, nextType)
       /\ types' = Put(types, nextType, [inst |-> t, built |-> FALSE])
       /\ stack' = Append(Advanced, Frame(t))
  /\ nextType' = nextType + 1
  /\ UNCHANGED <<prog, status, entry, worklist, monoFns, nextFn, functions, vtables>>

QueueVTable ==
  /\ About({"task", "task_unless_built"})
  /\ worklist' = IF NextOp.op = "task_unless_built" /\ NextOp.unit \in DOMAIN vtables
                 THEN worklist ELSE Append(worklist, NextOp.unit)
  /\ stack' = Advanced
  /\ UNCHANGED <<prog, status, entry, monoFns, monoTypes, nextFn, nextType,
                 functions, types, vtables>>

(* Fault: the first method fills every slot. *)
SlotsFirst(v) == [k \in DOMAIN prog.impl[v] |-> monoFns[prog.impl[v][1]]]

Slots(v) == [k \in DOMAIN prog.impl[v] |-> monoFns[prog.impl[v][k]]]

SealVTable ==
  /\ About({"seal"})
  /\ vtables' = Put(vtables, NextOp.unit, Slots(NextOp.unit))
  /\ stack' = Advanced
  /\ UNCHANGED <<prog, status, entry, worklist, monoFns, monoTypes, nextFn, nextType,
                 functions, types>>

(* The activation returns: a body is inserted under the id its task carries, *)
(* a type's definition overwrites its placeholder.                            *)
Return ==
  /\ Running /\ Finished
  /\ stack' = SubSeq(stack, 1, Len(stack) - 1)
  /\ functions' = IF Top.unit \in FnInst
                  THEN Put(functions, monoFns[Top.unit], Top.unit) ELSE functions
  /\ types' = IF Top.unit \in TypeInst
              THEN Put(types, monoTypes[Top.unit], [inst |-> Top.unit, built |-> TRUE])
              ELSE types
  /\ UNCHANGED <<prog, status, entry, worklist, monoFns, monoTypes, nextFn, nextType,
                 vtables>>

Finish ==
  /\ status = "run" /\ stack = <<>> /\ worklist = <<>>
  /\ status' = "done"
  /\ UNCHANGED <<prog, entry, worklist, stack, monoFns, monoTypes, nextFn, nextType,
                 functions, types, vtables>>

Next ==
  \/ FindMain \/ NoMain \/ TakeTask \/ CallFn \/ TypeHit \/ TypeMiss
  \/ QueueVTable \/ SealVTable \/ Return \/ Finish

Spec == Init /\ [][Next]_vars /\ WF_vars(Next)

-----------------------------------------------------------------------------
InQueue(u) == \E k \in DOMAIN worklist : worklist[k] = u
OnStack(u) == \E k \in DOMAIN stack : stack[k].unit = u
Lowered(f) == \E id \in DOMAIN functions : functions[id] = f

(* The MirProgram has a definition for u. *)
Defined(u) ==
  \/ Lowered(u)
  \/ u \in DOMAIN monoTypes /\ types[monoTypes[u]].built
  \/ u \in DOMAIN vtables

ControlOK ==
  /\ prog \in Programs
  /\ status \in {"start", "run", "done", "failed"}
  /\ worklist \in Seq(FnInst \cup VTableKey)
  /\ stack \in Seq(Activation)

FnsOK ==
  /\ nextFn \in Nat
  /\ DOMAIN monoFns \subseteq FnInst
  /\ monoFns \in [DOMAIN monoFns -> 0 .. nextFn - 1]
  /\ DOMAIN functions \subseteq 0 .. nextFn - 1
  /\ functions \in [DOMAIN functions -> FnInst]
  /\ entry \subseteq 0 .. nextFn - 1

TypesOK ==
  /\ nextType \in Nat
  /\ DOMAIN monoTypes \subseteq TypeInst
  /\ monoTypes \in [DOMAIN monoTypes -> 0 .. nextType - 1]
  /\ DOMAIN types = 0 .. nextType - 1
  /\ types \in [DOMAIN types -> [inst : TypeInst, built : BOOLEAN]]

VTablesOK ==
  /\ DOMAIN vtables \subseteq VTableKey
  /\ vtables \in [DOMAIN vtables -> Seq(0 .. nextFn - 1)]

TypeOK == ControlOK /\ FnsOK /\ TypesOK /\ VTablesOK

(* An instance that was ever asked for is in exactly one place: queued once, *)
(* being lowered, or in the function table.  So each body is lowered exactly *)
(* once and none is forgotten, however mutually recursive the bodies are.    *)
OneHome ==
  \A f \in FnInst :
    /\ f \in DOMAIN monoFns <=> InQueue(f) \/ OnStack(f) \/ Lowered(f)
    /\ ~ (InQueue(f) /\ OnStack(f))
    /\ ~ (Lowered(f) /\ (InQueue(f) \/ OnStack(f)))
    /\ \A j, k \in DOMAIN worklist : worklist[j] = f /\ worklist[k] = f => j = k

(* The caches and the program's tables agree: the id a call or a field holds *)
(* is the id under which that very instance is (or will be) stored.          *)
TablesAgree ==
  /\ \A f, g \in DOMAIN monoFns : monoFns[f] = monoFns[g] => f = g
  /\ \A id \in DOMAIN functions :
       functions[id] \in DOMAIN monoFns /\ monoFns[functions[id]] = id
  /\ \A t \in DOMAIN monoTypes : types[monoTypes[t]].inst = t

(* lower_call's find_method_slot and lower_member's layout lookup read type   *)
(* definitions.  They run in bodies and vtables, and then no cached type may  *)
(* still be the empty placeholder of an unfinished build.                     *)
BodiesSeeBuiltTypes ==
  Running /\ Top.unit \notin TypeInst => \A id \in DOMAIN types : types[id].built

(* When the worklist runs dry, nothing that any definition mentions is missing, *)
(* and the entry point has a body.                                             *)
NoDangling ==
  status = "done" =>
    /\ entry # {} /\ entry \subseteq DOMAIN functions
    /\ \A u \in Unit : Defined(u) => \A m \in Succ(prog, u) : Defined(m)

(* Slot k of a finished vtable leads to the body the method resolution chose *)
(* for method k of the interface.                                           *)
SlotsCallable ==
  status = "done" =>
    \A v \in DOMAIN vtables :
      /\ Len(vtables[v]) = Len(prog.impl[v])
      /\ \A k \in DOMAIN vtables[v] :
           /\ vtables[v][k] \in DOMAIN functions
           /\ functions[vtables[v][k]] = prog.impl[v][k]

(* Every struct instance that exists at the end can be used through each    *)
(* interface it implements and through every ancestor of one, also where     *)
(* two interfaces share a parent and where `extends` is cyclic.              *)
VTablesComplete ==
  status = "done" =>
    /\ \A s \in StructInst \cap DOMAIN monoTypes :
         \A k \in DOMAIN prog.implements[s] : <<s, prog.implements[s][k]>> \in DOMAIN vtables
    /\ \A v \in DOMAIN vtables :
         \A k \in DOMAIN prog.extends[v[2]] : <<v[1], prog.extends[v[2]][k]>> \in DOMAIN vtables

(* Ids handed out stay valid: a cache entry never changes, and a body, once *)
(* in the table, is never replaced.                                         *)
StableIds ==
  [][ /\ \A f \in DOMAIN monoFns : f \in DOMAIN monoFns' /\ monoFns'[f] = monoFns[f]
      /\ \A t \in DOMAIN monoTypes : t \in DOMAIN monoTypes' /\ monoTypes'[t] = monoTypes[t]
      /\ \A i \in DOMAIN functions : i \in DOMAIN functions' /\ functions'[i] = functions[i]
      /\ \A v \in DOMAIN vtables : v \in DOMAIN vtables' /\ vtables'[v] = vtables[v] ]_vars

(* On a program with finitely many instances the lowering ends. *)
Terminates == <>(status \in {"done", "failed"})

-----------------------------------------------------------------------------
(* The worklist computes reachability, no more and no less: only what main   *)
(* reaches is lowered (nothing unused gets into the program).                *)
ReachGraph == [roots |-> prog.mains, succ |-> [u \in Unit |-> Succ(prog, u)]]

SeenUnits ==
  DOMAIN monoFns \cup DOMAIN monoTypes
    \cup {v \in VTableKey : InQueue(v) \/ OnStack(v) \/ v \in DOMAIN vtables}

DoneUnits ==
  {f \in FnInst : Lowered(f)}
    \cup {t \in DOMAIN monoTypes : types[monoTypes[t]].built}
    \cup {v \in DOMAIN vtables : ~ OnStack(v)}

R == INSTANCE Reach WITH Node <- Unit, graph <- ReachGraph,
                         seen <- SeenUnits, done <- DoneUnits

RefinesReach == R!Spec
=============================================================================
