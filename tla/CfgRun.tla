-------------------------------- MODULE CfgRun --------------------------------
(***************************************************************************)
(* The blocks of Cfg are executed side by side with the statements they were  *)
(* made from.  The statements run on a continuation (`todo`) and on scopes     *)
(* that follow the nesting, as the validator resolves names (check_block,      *)
(* check_statement); the blocks run on LocalIds and terminators.  Each side    *)
(* runs to its next observable event; the two events must be the same.        *)
(***************************************************************************)
EXTENDS Cfg, Integers

CONSTANT Size     (* how many elements lists and iterators have at first *)

ASSUME SizeAssumption == Size \in Nat

VARIABLES
  block, index,   (* the machine is at this block, before this statement *)
  store,          (* LocalId -> value                                    *)
  todo,           (* what the statements still have to do                *)
  env,            (* stack of name -> value                              *)
  len,            (* elements the list has now                           *)
  halted

run  == <<block, index, store, todo, env, len, halted>>
both == <<vars, run>>

(* Elements are 0, 1, ...; get and next() return Null beyond the last one,     *)
(* and the payload of Null is garbage.                                       *)
Null    == -1
Garbage == -2
Elem(i) == IF i < len THEN i ELSE Null

InitRun ==
  /\ Init
  /\ block = 1 /\ index = 1
  /\ store = [l \in {0} |-> 5]
  /\ todo = agenda
  /\ env = <<[x \in {Param} |-> 5]>>
  /\ len = Size /\ halted = FALSE

Lower == Next /\ UNCHANGED run

-----------------------------------------------------------------------------
(* The machine *)
InBlock == index <= Len(blocks[block].stmts)
Ins     == blocks[block].stmts[index]
Term    == blocks[block].term
Val(l)  == IF l \in DOMAIN store THEN store[l] ELSE Garbage
Put(l, v) == [x \in DOMAIN store \cup {l} |-> IF x = l THEN v ELSE store[x]]

MachineSees ==
  IF InBlock THEN Ins.op \in {"act", "use", "drop"}
  ELSE Term.t \in {"return", "unreachable"} \/ (Term.t = "cond" /\ Term.cond[1] = "free")

MachineEvent ==
  IF InBlock
  THEN CASE Ins.op = "act"  -> <<"act", Ins.val>>
         [] Ins.op = "use"  -> <<"use", Val(Ins.src)>>
         [] Ins.op = "drop" -> <<"drop">>
  ELSE CASE Term.t = "return"      -> <<"return", Term.val>>
         [] Term.t = "unreachable" -> <<"trap">>
         [] OTHER                  -> <<"cond">>

Taken(c) == IF c THEN Term.yes ELSE Term.no
JumpTo(b) == block' = b /\ index' = 1

(* get: bounds-checked; next: moves the iterator. *)
Execute ==
  /\ InBlock
  /\ store' =
       CASE Ins.op = "set"     -> Put(Ins.dst, Ins.val)
         [] Ins.op = "size"    -> Put(Ins.dst, len)
         [] Ins.op = "inc"     -> Put(Ins.dst, Val(Ins.dst) + 1)
         [] Ins.op = "get"     -> Put(Ins.dst, Elem(Val(Ins.at)))
         [] Ins.op = "payload" -> Put(Ins.dst, IF Val(Ins.src) = Null THEN Garbage ELSE Val(Ins.src))
         [] Ins.op = "next"    -> [Put(Ins.dst, Elem(Val(Ins.it))) EXCEPT ![Ins.it] = @ + 1]
  /\ index' = index + 1
  /\ UNCHANGED block

Branch ==
  /\ ~ InBlock
  /\ JumpTo(CASE Term.t = "goto" -> Term.to
              [] OTHER -> Taken(IF Term.cond[1] = "ge" THEN Val(Term.cond[2]) >= Val(Term.cond[3])
                                                       ELSE Val(Term.cond[2]) = Null))
  /\ UNCHANGED store

MachineSilent ==
  /\ Done /\ ~ halted /\ ~ MachineSees
  /\ Execute \/ Branch
  /\ UNCHANGED <<vars, todo, env, len, halted>>

-----------------------------------------------------------------------------
(* The statements.  Loops leave [k |-> "again"] behind: what break drops and   *)
(* what continue returns to.                                                *)
T == IF todo = <<>> THEN [k |-> "return", val |-> 0] ELSE Head(todo)

SourceSees == T.k \in {"act", "use", "drop", "return", "while", "if"}

Innermost(x) == CHOOSE k \in DOMAIN env : x \in DOMAIN env[k] /\ \A j \in DOMAIN env : x \in DOMAIN env[j] => j <= k

SourceEvent ==
  CASE T.k \in {"act", "return"} -> <<T.k, T.val>>
    [] T.k = "use"               -> <<"use", env[Innermost(T.name)][T.name]>>
    [] T.k = "drop"              -> <<"drop">>
    [] T.k \in {"while", "if"}   -> <<"cond">>

Again(s) == [k |-> "again", stmt |-> s]
Pop      == [k |-> "pop"]

(* The first k items are given up, with the scopes they would have closed. *)
Unwind(k) ==
  /\ todo' = SubSeq(todo, k + 1, Len(todo))
  /\ env' = SubSeq(env, 1, Len(env) - Cardinality({j \in 1 .. k : todo[j].k = "pop"}))

LoopAt == CHOOSE k \in DOMAIN todo : todo[k].k = "again" /\ \A j \in 1 .. k - 1 : todo[j].k # "again"

(* Round i of a for: the variable lives in a scope around the body.  A list    *)
(* loop goes by the size at its start, an iterator by what next() finds.       *)
Round(s, i, n) ==
  IF i < n
  THEN /\ todo' = <<Block(s.body), Pop, Again([k |-> s.k, name |-> s.name, body |-> s.body,
                                               at |-> i + 1, n |-> n])>> \o Tail(todo)
       /\ env' = Append(env, [x \in {s.name} |-> i])
  ELSE todo' = Tail(todo) /\ UNCHANGED env

EnterFor  == T.k \in {"list", "iter"} /\ Round(T, 0, len)
NextRound ==
  /\ T.k = "again" /\ T.stmt.k \in {"list", "iter"}
  /\ Round(T.stmt, T.stmt.at, IF T.stmt.k = "iter" THEN len ELSE T.stmt.n)

SourceSilent ==
  /\ Done /\ ~ halted /\ MachineSees /\ ~ SourceSees
  /\ \/ /\ T.k = "var"
        /\ env' = [env EXCEPT ![Len(env)] = [x \in DOMAIN @ \cup {T.name} |->
                                               IF x = T.name THEN T.val ELSE @[x]]]
        /\ todo' = Tail(todo)
     \/ /\ T.k = "assign"
        /\ env' = [env EXCEPT ![Innermost(T.name)][T.name] = T.val]
        /\ todo' = Tail(todo)
     \/ T.k = "block" /\ todo' = T.body \o <<Pop>> \o Tail(todo) /\ env' = Append(env, [x \in {} |-> 0])
     \/ T.k = "pop" /\ Unwind(1)
     \/ T.k = "again" /\ T.stmt.k = "while" /\ todo' = <<T.stmt>> \o Tail(todo) /\ UNCHANGED env
     \/ EnterFor \/ NextRound
     \/ T.k = "break" /\ Unwind(LoopAt)
     \/ T.k = "continue" /\ Unwind(LoopAt - 1)
  /\ UNCHANGED <<vars, block, index, store, len, halted>>

-----------------------------------------------------------------------------
(* Both show the same event and go on. *)
Meet == Done /\ ~ halted /\ MachineSees /\ SourceSees

Same(e) == Meet /\ MachineEvent[1] = e /\ MachineEvent = SourceEvent

Show ==
  /\ Same("act") \/ Same("use") \/ Same("drop")
  /\ index' = index + 1
  /\ todo' = Tail(todo)
  /\ len' = IF MachineEvent[1] = "drop" /\ len > 0 THEN len - 1 ELSE len
  /\ UNCHANGED <<vars, block, store, env, halted>>

Decide(c) ==
  /\ Same("cond")
  /\ JumpTo(Taken(c))
  /\ todo' = IF T.k = "if" THEN <<Block(IF c THEN T.body ELSE T.else)>> \o Tail(todo)
             ELSE IF c THEN <<Block(T.body), Again(T)>> \o Tail(todo) ELSE Tail(todo)
  /\ UNCHANGED <<vars, store, env, len, halted>>

Halt ==
  /\ Same("return")
  /\ halted' = TRUE
  /\ UNCHANGED <<vars, block, index, store, todo, env, len>>

RunNext == Lower \/ MachineSilent \/ SourceSilent \/ Show \/ (\E c \in BOOLEAN : Decide(c)) \/ Halt
RunSpec == InitRun /\ [][RunNext]_both /\ WF_both(RunNext)

-----------------------------------------------------------------------------
(* The blocks do what the statements say: the same events in the same order,   *)
(* for every outcome of every condition, through early exits, dead code and     *)
(* nested loops (and never a trap on a block that was left open).              *)
SameBehaviour == Meet => MachineEvent = SourceEvent

(* Neither side runs on for ever in silence and the lowering does not get      *)
(* stuck: for-loops advance on every path round, `continue` included.          *)
KeepsMeeting == []<>(halted \/ Meet)

(* SPEC.md:112: `var` "introduces a runtime binding with mutability and scope  *)
(* semantics", and a scope is "pushed on block entry, popped on block exit"    *)
(* (builder.rs:21-22): a variable read after a for is the one the block declares,  *)
(* not the loop's variable of the same name.                                 *)
BindingsSurviveLoops ==
  Meet /\ MachineEvent[1] = "use" /\ SourceEvent[1] = "use" => MachineEvent = SourceEvent

(* mir.rs:297 on UnionPayload: it "must be guarded by a UnionTag check".       *)
PayloadGuarded ==
  Done /\ ~ halted /\ InBlock /\ Ins.op = "payload" => Val(Ins.src) # Null
=============================================================================
