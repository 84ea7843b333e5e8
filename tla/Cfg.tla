--------------------------------- MODULE Cfg ----------------------------------
(***************************************************************************)
(* How the lowering turns the nested statements of a function body into       *)
(* basic blocks (lower/stmt.rs, lower_if and lower_block, FnBuilder).         *)
(* `agenda` makes the recursion of lower_stmt and lower_block visible: the     *)
(* statements still to be lowered, and the code after a recursive call.        *)
(* Expressions keep what tells two executions apart: a label or a value.       *)
(***************************************************************************)
EXTENDS Naturals, Sequences, FiniteSets

CONSTANTS
  Name,      (* variables                                                     *)
  Param,     (* the one that is the function's parameter                      *)
  Stmt,      (* every HirStatement of the programs, nested ones included       *)
  Bodies     (* the bodies to be lowered                                      *)

(* s.k is the variant: "act" and "drop" are expression statements (drop        *)
(* removes an element of the list that loops run over).                       *)
ASSUME StmtAssumption ==
  \A s \in Stmt :
    \/ s.k \in {"drop", "break", "continue"}
    \/ s.k \in {"act", "return"} /\ s.val \in Nat
    \/ s.k = "use" /\ s.name \in Name
    \/ s.k \in {"var", "assign"} /\ s.name \in Name /\ s.val \in Nat
    \/ s.k \in {"while", "block"} /\ s.body \in Seq(Stmt)
    \/ s.k = "if" /\ s.body \in Seq(Stmt) /\ s.else \in Seq(Stmt)
    \/ s.k \in {"list", "iter"} /\ s.name \in Name /\ s.body \in Seq(Stmt)

ASSUME BodiesAssumption == Bodies \subseteq Seq(Stmt) /\ Param \in Name

VARIABLES
  agenda,    (* what is left to do                                            *)
  blocks,    (* FnBuilder.blocks: blocks[n] is BlockId n - 1, [stmts, term]     *)
  cur,       (* current_block                                                 *)
  scope,     (* stack of name -> LocalId                                      *)
  loops,     (* loop_stack: [cont, brk], the innermost loop last               *)
  nextLocal

vars == <<agenda, blocks, cur, scope, loops, nextLocal>>

-----------------------------------------------------------------------------
(* MIR statements and terminators. *)
Unreachable          == [t |-> "unreachable"]
Goto(b)              == [t |-> "goto", to |-> b]
CondBr(c, yes, no)   == [t |-> "cond", cond |-> c, yes |-> yes, no |-> no]
Return(v)            == [t |-> "return", val |-> v]

Set(l, v)            == [op |-> "set", dst |-> l, val |-> v]
Open                 == [stmts |-> <<>>, term |-> Unreachable]

(* The blocks with stmts pushed to, and term set on, block b. *)
Emit(bs, b, stmts)    == [bs EXCEPT ![b].stmts = @ \o stmts]
Terminate(bs, b, term) == [bs EXCEPT ![b].term = term]

IsOpen(bs, b) == bs[b].term = Unreachable
TerminateIfOpen(bs, b, term) == IF IsOpen(bs, b) THEN Terminate(bs, b, term) ELSE bs

NewBlocks(bs, n) == bs \o [k \in 1 .. n |-> Open]

(* lookup: the innermost scope that has the name, 0 for none. *)
Holders(name) == {k \in DOMAIN scope : name \in DOMAIN scope[k]}
Lookup(name)  ==
  scope[CHOOSE k \in Holders(name) : \A j \in Holders(name) : j <= k][name]

Bound(sc, name, l) ==
  [sc EXCEPT ![Len(sc)] = [x \in DOMAIN @ \cup {name} |-> IF x = name THEN l ELSE @[x]]]

Next1(k) == agenda # <<>> /\ Head(agenda).k = k
S        == Head(agenda)
Rest     == Tail(agenda)

(* The parameter is bound in the root scope. *)
Init ==
  /\ \E b \in Bodies : agenda = <<[k |-> "block", body |-> b]>>
  /\ blocks = <<Open>> /\ cur = 1
  /\ scope = <<[x \in {Param} |-> 0]>> /\ loops = <<>>
  /\ nextLocal = 1

-----------------------------------------------------------------------------
(* lower_stmt, statement by statement. *)
Pushes(stmts) ==
  /\ blocks' = Emit(blocks, cur, stmts)
  /\ agenda' = Rest
  /\ UNCHANGED <<cur, loops>>

LowerAct ==
  /\ Next1("act") \/ Next1("drop")
  /\ Pushes(<<IF S.k = "act" THEN [op |-> "act", val |-> S.val] ELSE [op |-> "drop"]>>)
  /\ UNCHANGED <<scope, nextLocal>>

LowerUse ==
  /\ Next1("use") /\ Holders(S.name) # {}
  /\ Pushes(<<[op |-> "use", src |-> Lookup(S.name)]>>)
  /\ UNCHANGED <<scope, nextLocal>>

LowerAssign ==
  /\ Next1("assign") /\ Holders(S.name) # {}
  /\ Pushes(<<Set(Lookup(S.name), S.val)>>)
  /\ UNCHANGED <<scope, nextLocal>>

LowerVar ==
  /\ Next1("var")
  /\ Pushes(<<Set(nextLocal, S.val)>>)
  /\ scope' = Bound(scope, S.name, nextLocal)
  /\ nextLocal' = nextLocal + 1

(* Faults: nowhere for what follows a jump to go; the block is not left. *)
LeaveByNoBlock(term) ==
  /\ blocks' = Terminate(blocks, cur, term)
  /\ cur' = Len(blocks) + 1
  /\ agenda' = Rest
  /\ UNCHANGED <<scope, loops, nextLocal>>

LeaveByStay(term) ==
  /\ blocks' = Terminate(blocks, cur, term)
  /\ agenda' = Rest
  /\ UNCHANGED <<cur, scope, loops, nextLocal>>

(* return, break, continue: end the block, go on in a fresh, dead one. *)
LeaveBy(term) ==
  /\ blocks' = NewBlocks(Terminate(blocks, cur, term), 1)
  /\ cur' = Len(blocks) + 1
  /\ agenda' = Rest
  /\ UNCHANGED <<scope, loops, nextLocal>>

LowerReturn == Next1("return") /\ LeaveBy(Return(S.val))

(* Fault: break goes where continue should. *)
LowerBreakToHead == Next1("break") /\ loops # <<>> /\ LeaveBy(Goto(loops[Len(loops)].cont))

LowerBreak    == Next1("break")    /\ loops # <<>> /\ LeaveBy(Goto(loops[Len(loops)].brk))
LowerContinue == Next1("continue") /\ loops # <<>> /\ LeaveBy(Goto(loops[Len(loops)].cont))

(* lower_block *)
LowerBlock ==
  /\ Next1("block")
  /\ scope' = Append(scope, [x \in {} |-> 0])
  /\ agenda' = S.body \o <<[k |-> "pop"]>> \o Rest
  /\ UNCHANGED <<blocks, cur, loops, nextLocal>>

EndBlock ==
  /\ Next1("pop")
  /\ scope' = SubSeq(scope, 1, Len(scope) - 1)
  /\ agenda' = Rest
  /\ UNCHANGED <<blocks, cur, loops, nextLocal>>

Block(stmts) == [k |-> "block", body |-> stmts]

(* lower_if: then, else and join blocks, in this order. *)
LowerIf ==
  /\ Next1("if")
  /\ LET n == Len(blocks) IN
       /\ blocks' = Terminate(NewBlocks(blocks, 3), cur, CondBr(<<"free">>, n + 1, n + 2))
       /\ cur' = n + 1
       /\ agenda' = << Block(S.body), [k |-> "arm", next |-> n + 2, join |-> n + 3],
                       Block(S.else), [k |-> "arm", next |-> n + 3, join |-> n + 3] >> \o Rest
  /\ UNCHANGED <<scope, loops, nextLocal>>

EndArm ==
  /\ Next1("arm")
  /\ blocks' = TerminateIfOpen(blocks, cur, Goto(S.join))
  /\ cur' = S.next
  /\ agenda' = Rest
  /\ UNCHANGED <<scope, loops, nextLocal>>

-----------------------------------------------------------------------------
(* Enter the body of a loop: its frame, its statements, and what closes it. *)
EntersLoop(cont, brk, end) ==
  /\ loops' = Append(loops, [cont |-> cont, brk |-> brk])
  /\ agenda' = <<Block(S.body), end>> \o Rest

LowerWhile ==
  /\ Next1("while")
  /\ LET n == Len(blocks) IN
       /\ blocks' = Terminate(Terminate(NewBlocks(blocks, 3), cur, Goto(n + 1)),
                              n + 1, CondBr(<<"free">>, n + 2, n + 3))
       /\ cur' = n + 2
       /\ EntersLoop(n + 1, n + 3, [k |-> "end", cont |-> n + 1, brk |-> n + 3])
  /\ UNCHANGED <<scope, nextLocal>>

(* lower_for_iterator: head, body_setup, body, exit.  The iterator and next()  *)
(* results are locals n and n + 1, the loop variable n + 2; it is bound in the  *)
(* enclosing scope.                                                         *)
LowerIter ==
  /\ Next1("iter")
  /\ LET n == Len(blocks)  l == nextLocal
         b0 == Emit(NewBlocks(blocks, 4), cur, <<Set(l, 0)>>)
         b1 == Terminate(b0, cur, Goto(n + 1))
         b2 == Emit(b1, n + 1, <<[op |-> "next", dst |-> l + 1, it |-> l]>>)
         b3 == Terminate(b2, n + 1, CondBr(<<"null", l + 1>>, n + 4, n + 2))
         b4 == Emit(b3, n + 2, <<[op |-> "payload", dst |-> l + 2, src |-> l + 1]>>)
     IN /\ blocks' = Terminate(b4, n + 2, Goto(n + 3))
        /\ cur' = n + 3
        /\ scope' = Bound(scope, S.name, l + 2)
        /\ EntersLoop(n + 1, n + 4, [k |-> "end", cont |-> n + 1, brk |-> n + 4])
  /\ nextLocal' = nextLocal + 3

(* lower_for_list (and, over the list of keys, lower_for_map): head, body,      *)
(* cont, exit.  Locals: the size read once, the index, get()'s result, and the  *)
(* loop variable, bound in the enclosing scope.                              *)
ListBlocks(n, l) ==
  LET b0 == Emit(NewBlocks(blocks, 4), cur, <<[op |-> "size", dst |-> l], Set(l + 1, 0)>>)
      b1 == Terminate(b0, cur, Goto(n + 1))
      b2 == Terminate(b1, n + 1, CondBr(<<"ge", l + 1, l>>, n + 4, n + 2))
  IN Emit(b2, n + 2, <<[op |-> "get", dst |-> l + 2, at |-> l + 1],
                       [op |-> "payload", dst |-> l + 3, src |-> l + 2]>>)

EndsList(n, l) == [k |-> "endlist", cont |-> n + 3, brk |-> n + 4, head |-> n + 1, i |-> l + 1]

(* Fault: continue skips the increment. *)
LowerListToHead ==
  /\ Next1("list")
  /\ LET n == Len(blocks)  l == nextLocal IN
       /\ blocks' = ListBlocks(n, l)
       /\ cur' = n + 2
       /\ scope' = Bound(scope, S.name, l + 3)
       /\ EntersLoop(n + 1, n + 4, EndsList(n, l))
  /\ nextLocal' = nextLocal + 4

LowerList ==
  /\ Next1("list")
  /\ LET n == Len(blocks)  l == nextLocal IN
       /\ blocks' = ListBlocks(n, l)
       /\ cur' = n + 2
       /\ scope' = Bound(scope, S.name, l + 3)
       /\ EntersLoop(n + 3, n + 4, EndsList(n, l))
  /\ nextLocal' = nextLocal + 4

(* Faults: the body's end is left open; the loop's frame stays. *)
EndLoopOpen ==
  /\ Next1("end")
  /\ loops' = SubSeq(loops, 1, Len(loops) - 1)
  /\ cur' = S.brk
  /\ agenda' = Rest
  /\ UNCHANGED <<blocks, scope, nextLocal>>

EndLoopKeepsFrame ==
  /\ Next1("end")
  /\ blocks' = TerminateIfOpen(blocks, cur, Goto(S.cont))
  /\ cur' = S.brk
  /\ agenda' = Rest
  /\ UNCHANGED <<loops, scope, nextLocal>>

(* After the body of a while or of an iterator loop. *)
EndLoop ==
  /\ Next1("end")
  /\ loops' = SubSeq(loops, 1, Len(loops) - 1)
  /\ blocks' = TerminateIfOpen(blocks, cur, Goto(S.cont))
  /\ cur' = S.brk
  /\ agenda' = Rest
  /\ UNCHANGED <<scope, nextLocal>>

(* After the body of a list loop: the index moves in a block of its own. *)
EndList ==
  /\ Next1("endlist")
  /\ loops' = SubSeq(loops, 1, Len(loops) - 1)
  /\ LET b0 == TerminateIfOpen(blocks, cur, Goto(S.cont))
         b1 == Emit(b0, S.cont, <<[op |-> "inc", dst |-> S.i]>>)
     IN blocks' = Terminate(b1, S.cont, Goto(S.head))
  /\ cur' = S.brk
  /\ agenda' = Rest
  /\ UNCHANGED <<scope, nextLocal>>

(* lower_function: the body fell through. *)
FinishFunction ==
  /\ agenda = <<>> /\ IsOpen(blocks, cur)
  /\ blocks' = TerminateIfOpen(blocks, cur, Return(0))
  /\ UNCHANGED <<agenda, cur, scope, loops, nextLocal>>

LowerStmt ==
  \/ LowerAct \/ LowerUse \/ LowerAssign \/ LowerVar
  \/ LowerReturn \/ LowerBreak \/ LowerContinue
  \/ LowerBlock \/ EndBlock \/ LowerIf \/ EndArm
  \/ LowerWhile \/ LowerIter \/ LowerList \/ EndLoop \/ EndList

Next == LowerStmt \/ FinishFunction
Spec == Init /\ [][Next]_vars /\ WF_vars(Next)

-----------------------------------------------------------------------------
Done == agenda = <<>> /\ ~ IsOpen(blocks, cur)

Targets(term) ==
  CASE term.t = "goto" -> {term.to}
    [] term.t = "cond" -> {term.yes, term.no}
    [] OTHER           -> {}

TypeOK ==
  /\ cur \in DOMAIN blocks
  /\ \A b \in DOMAIN blocks : Targets(blocks[b].term) \subseteq DOMAIN blocks
  /\ \A k \in DOMAIN scope : \A x \in DOMAIN scope[k] :
       x \in Name /\ scope[k][x] \in 0 .. nextLocal - 1
  /\ \A k \in DOMAIN loops : loops[k].cont \in DOMAIN blocks /\ loops[k].brk \in DOMAIN blocks

(* What terminate() counts on: code is only ever added to an open block, so a *)
(* block, once it has its terminator, keeps it and gets no more statements,    *)
(* however jumps, arms and loops are nested.                                 *)
TerminatorsAreFinal ==
  [][\A b \in DOMAIN blocks : ~ IsOpen(blocks, b) => blocks'[b] = blocks[b]]_vars

(* No placeholder is left: the function has a terminator in each block it      *)
(* created, the dead ones after jumps too (codegen turns what is left open     *)
(* into a trap).                                                            *)
AllSealed == Done => \A b \in DOMAIN blocks : ~ IsOpen(blocks, b)

Ends == {k \in DOMAIN agenda : agenda[k].k \in {"end", "endlist"}}
Pops == {k \in DOMAIN agenda : agenda[k].k = "pop"}

(* loop_stack is the stack of loops around the statement that is being         *)
(* lowered, innermost last, and there is one scope per block around it: jumps   *)
(* out of several blocks and loops leave neither stack off by a frame.         *)
StacksMatch ==
  /\ Len(scope) = 1 + Cardinality(Pops)
  /\ Len(loops) = Cardinality(Ends)
  /\ \A k \in Ends :
       loops[Cardinality({j \in Ends : j >= k})] = [cont |-> agenda[k].cont, brk |-> agenda[k].brk]
=============================================================================
