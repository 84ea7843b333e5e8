------------------------------- MODULE Machine -------------------------------
(***************************************************************************)
(* MIR as the code generator compiles it (codegen/mod.rs): what it refuses, and what the     *)
(* compiled code does to registers and memory.                                      *)
(*                                                                         *)
(* A word is <<clif type, bits>> or a pointer <<"ptr", object, cell>>. The heap is a sequence of *)
(* objects, an object a sequence of 8-byte cells; nothing is ever freed. A tagged union has two  *)
(* cells, tag and payload; a register of such a type holds the address of them.              *)
(* Widths are scaled down: a byte has 2 bits, a word 3.                                *)
(***************************************************************************)
EXTENDS Types

VARIABLES code,       (* instance -> [locals, arity, blocks, ret, panic]                    *)
          frames,     (* the stack: [fn, block, next, regs, dest]                          *)
          heap,
          halt        (* <<"no">>, <<"done", word>>, <<"trap">>, or why there is no code to run     *)

machine == <<code, frames, heap, halt>>

Width == [I8 |-> 2, I16 |-> 3, I64 |-> 3]
prim_clif(p)     == CASE p \in {"i8", "u8", "bool"} -> "I8" [] p = "u16" -> "I16" [] p = "i64" -> "I64"
is_signed_int(p) == p \in {"i8", "i64"}
clif_type(m)     == IF IsPrim(m) THEN prim_clif(m[2]) ELSE "I64"
Word(clif, n)    == <<clif, n % 2 ^ Width[clif]>>
Signed(w)        == IF w[2] >= 2 ^ (Width[w[1]] - 1) THEN w[2] - 2 ^ Width[w[1]] ELSE w[2]
NumberOf(p, w)   == IF is_signed_int(p) THEN Signed(w) ELSE w[2]
Zero             == Word("I64", 0)

(* Where a field is, counted in cells.                                                *)
FieldMir(s, k) == lower_concrete_type(Structs[s][k][2])
Cells(m)       == IF IsTagged(m) THEN 2 ELSE 1
Offset(s, k)   == FoldLeft(LAMBDA n, j : n + Cells(FieldMir(s, j)), 1, [j \in 1..(k - 1) |-> j])

operand_ty(fn, op) ==
  CASE op[1] = "Copy" -> fn.locals[op[2]]
    [] op[1] = "Int"  -> Prim(op[3])
    [] op[1] = "Bool" -> Bool
    [] op[1] = "Null" -> I64

-----------------------------------------------------------------------------
(* What codegen refuses: by a panic of its own, or because the verifier of Cranelift (external) *)
(* finds operands of unlike types. A value has a type of Cranelift, or is Refused.            *)
Refused == "refused"
Readable(fn, op) == op[1] = "Copy" => fn.locals[op[2]] # <<"Unit">>
TypeOfOperand(fn, op) == IF Readable(fn, op) THEN clif_type(operand_ty(fn, op)) ELSE Refused
Scalar(fn, op) == op[1] # "Null" /\ IsPrim(operand_ty(fn, op))

Comparison == {"==", "!=", "<", "<=", ">", ">="}
TypeOfBin(fn, op, l, r) ==
  LET refs == IsRef(operand_ty(fn, l)) \/ IsRef(operand_ty(fn, r))
      ty   == TypeOfOperand(fn, l)
  IN  IF /\ ty # Refused /\ ty = TypeOfOperand(fn, r)
         /\ IF refs THEN op \in {"==", "!="} ELSE Scalar(fn, l)
      THEN IF op \in Comparison THEN "I8" ELSE ty
      ELSE Refused

TypeOfRvalue(fn, rv, dest) ==
  CASE rv[1] = "Use"  -> TypeOfOperand(fn, rv[2])
    [] rv[1] = "Bin"  -> TypeOfBin(fn, rv[2], rv[3], rv[4])
    [] rv[1] = "Un"   -> IF Scalar(fn, rv[3]) THEN TypeOfOperand(fn, rv[3]) ELSE Refused
    [] rv[1] = "Cast" -> IF Scalar(fn, rv[2]) THEN clif_type(rv[3]) ELSE Refused
    [] rv[1] = "Call" -> LET callee == code[rv[2]] IN
                         IF /\ \A k \in DOMAIN rv[3] : /\ callee.locals[k] # <<"Unit">>
                                                       /\ TypeOfOperand(fn, rv[3][k]) = clif_type(callee.locals[k])
                         THEN clif_type(dest) ELSE Refused
    [] rv[1] = "AllocStruct" -> IF \A k \in DOMAIN rv[3] : TypeOfOperand(fn, rv[3][k]) = clif_type(FieldMir(rv[2], k))
                                THEN "I64" ELSE Refused
    [] rv[1] = "Field" -> IF IsRef(operand_ty(fn, rv[2])) THEN clif_type(dest) ELSE Refused
    [] rv[1] = "UnionConstruct" -> IF Readable(fn, rv[3]) THEN "I64" ELSE Refused
    [] rv[1] = "UnionTag"       -> IF Readable(fn, rv[2]) THEN "I16" ELSE Refused
    [] rv[1] = "UnionPayload"   -> IF Readable(fn, rv[2]) THEN clif_type(dest) ELSE Refused

Compiles(fn) ==
  \A k \in DOMAIN fn.blocks :
    /\ \A j \in DOMAIN fn.blocks[k].stmts :
         LET s == fn.blocks[k].stmts[j] IN
         IF s[1] = "StoreField" THEN TypeOfOperand(fn, s[5]) = clif_type(FieldMir(s[3], s[4]))
         ELSE LET ty == TypeOfRvalue(fn, s[3], fn.locals[s[2]]) IN
              ty # Refused /\ (fn.locals[s[2]] # <<"Unit">> => ty = clif_type(fn.locals[s[2]]))
    /\ LET t == fn.blocks[k].term IN
       /\ t[1] = "CondBr" => TypeOfOperand(fn, t[2]) # Refused
       /\ t[1] = "Return" /\ fn.ret # <<"Unit">> => t[2] # <<>> /\ TypeOfOperand(fn, t[2][1]) = clif_type(fn.ret)

-----------------------------------------------------------------------------
(* What the compiled code does.                                                     *)
Top   == Last(frames)
Fn    == code[Top.fn]
Stmt  == Fn.blocks[Top.block].stmts[Top.next]
Rv    == Stmt[3]
AtEnd == Top.next > Len(Fn.blocks[Top.block].stmts)
Term  == Fn.blocks[Top.block].term
Running    == halt = <<"no">> /\ frames # <<>>
AtRv(kind) == Running /\ ~AtEnd /\ Stmt[1] = "Assign" /\ Rv[1] = kind

use_operand(op) ==
  CASE op[1] = "Copy" -> Top.regs[op[2]]
    [] op[1] = "Int"  -> Word(prim_clif(op[3]), op[2])
    [] op[1] = "Bool" -> Word("I8", IF op[2] THEN 1 ELSE 0)
    [] op[1] = "Null" -> Zero

Load(ptr, k)       == heap[ptr[2]][ptr[3] + k]
Store(h, ptr, w)   == [h EXCEPT ![ptr[2]][ptr[3]] = w]
(* Fault: source and destination exchanged.                                           *)
Copy16Back(h, from, to) == [h EXCEPT ![from[2]] = [@ EXCEPT ![from[3]] = h[to[2]][to[3]], ![from[3] + 1] = h[to[2]][to[3] + 1]]]
Copy16(h, from, to) == [h EXCEPT ![to[2]] = [@ EXCEPT ![to[3]] = h[from[2]][from[3]], ![to[3] + 1] = h[from[2]][from[3] + 1]]]
(* A load reads the low bits of a cell.                                               *)
ireduce(clif, w) == IF w[1] = "ptr" THEN w ELSE Word(clif, w[2])
FromBool(v)      == Word("I8", IF v THEN 1 ELSE 0)

lower_bin(op, prim, l, r) ==
  LET x == NumberOf(prim, l)
      y == NumberOf(prim, r)
  IN  CASE op = "==" -> FromBool(l = r)
        [] op = "!=" -> FromBool(l # r)
        [] op = "<"  -> FromBool(x < y)
        [] op = "<=" -> FromBool(x <= y)
        [] op = ">"  -> FromBool(x > y)
        [] op = ">=" -> FromBool(x >= y)
        [] op = "+"  -> Word(l[1], l[2] + r[2])
        [] op = "-"  -> Word(l[1], l[2] - r[2])
        [] op = "*"  -> Word(l[1], l[2] * r[2])
        [] op = "&&" -> FromBool(l[2] = 1 /\ r[2] = 1)
        [] op = "||" -> FromBool(l[2] = 1 \/ r[2] = 1)

lower_un(op, w) == IF op = "-" THEN Word(w[1], -w[2]) ELSE FromBool(w[2] = 0)

(* Fault: every integer is extended with zeros.                                      *)
ZeroExtended(src, dst, w) == Word(prim_clif(dst), w[2])

lower_cast(src, dst, w) == Word(prim_clif(dst), NumberOf(src, w))

PrimOf(op) == LET m == operand_ty(Fn, op) IN IF IsPrim(m) THEN m[2] ELSE "none"

(* Fault: a payload is extended with zeros, whatever its type.                          *)
ZeroPayload(m, w) == IF w[1] = "ptr" THEN w ELSE Word("I64", w[2])

(* To eight bytes, by the sign of what is widened.                                     *)
widen_to_payload(m, w) == IF IsPrim(m) THEN Word("I64", NumberOf(m[2], w)) ELSE w

lower_field(m, ptr, s, k) == LET at == Offset(s, k) - 1 IN
                             IF IsTagged(m) THEN <<"ptr", ptr[2], ptr[3] + at>> ELSE ireduce(clif_type(m), Load(ptr, at))

(* The value of an rvalue that neither allocates nor calls.                              *)
lower_rvalue(rv) ==
  CASE rv[1] = "Use"          -> use_operand(rv[2])
    [] rv[1] = "Bin"          -> lower_bin(rv[2], PrimOf(rv[3]), use_operand(rv[3]), use_operand(rv[4]))
    [] rv[1] = "Un"           -> lower_un(rv[2], use_operand(rv[3]))
    [] rv[1] = "Cast"         -> lower_cast(PrimOf(rv[2]), rv[3][2], use_operand(rv[2]))
    [] rv[1] = "Field"        -> LET s == operand_ty(Fn, rv[2])[2] IN
                                 lower_field(FieldMir(s, rv[3]), use_operand(rv[2]), s, rv[3])
    [] rv[1] = "UnionTag"     -> ireduce("I16", Load(use_operand(rv[2]), 0))
    [] rv[1] = "UnionPayload" -> ireduce(clif_type(rv[4]), Load(use_operand(rv[2]), 1))

(* Fault: a union's register takes the address of the value.                           *)
SharedDelivery(fs, l, w) ==
  frames' = (IF code[Last(fs).fn].locals[l] = <<"Unit">> THEN fs ELSE [fs EXCEPT ![Len(fs)].regs[l] = w]) /\ UNCHANGED heap

(* A value reaches its local: a union is copied into the block its register points to.        *)
Deliver(fs, l, w) ==
  LET m == code[Last(fs).fn].locals[l] IN
  /\ frames' = IF m[1] \in {"Unit", "Tagged"} THEN fs ELSE [fs EXCEPT ![Len(fs)].regs[l] = w]
  /\ heap'   = IF IsTagged(m) THEN Copy16(heap, w, Last(fs).regs[l]) ELSE heap
Advance(fs) == [fs EXCEPT ![Len(fs)].next = @ + 1]
JumpTo(k)   == [frames EXCEPT ![Len(frames)] = [@ EXCEPT !.block = k, !.next = 1]]

(* The frame of a call, and the blocks that lower_function allocates for the unions in it.      *)
Entered(inst, args, dest) ==
  LET fn == code[inst]
      owned == SelectSeq([l \in DOMAIN fn.locals |-> l], LAMBDA l : l > fn.arity /\ IsTagged(fn.locals[l]))
      reg(l) == IF l <= fn.arity THEN args[l]
                ELSE IF IsTagged(fn.locals[l]) THEN <<"ptr", Len(heap) + SelectInSeq(owned, LAMBDA o : o = l), 1>>
                ELSE Word(clif_type(fn.locals[l]), 0)
  IN  [frame |-> [fn |-> inst, block |-> 1, next |-> 1, regs |-> [l \in DOMAIN fn.locals |-> reg(l)], dest |-> dest],
       heap  |-> heap \o [k \in DOMAIN owned |-> <<Zero, Zero>>]]

Assign ==
  /\ \E kind \in {"Use", "Bin", "Un", "Cast", "Field", "UnionTag", "UnionPayload"} : AtRv(kind)
  /\ Deliver(Advance(frames), Stmt[2], IF Fn.locals[Stmt[2]] = <<"Unit">> THEN Zero ELSE lower_rvalue(Rv))
  /\ UNCHANGED <<code, halt>>

UnionConstruct ==
  /\ AtRv("UnionConstruct")
  /\ LET at == Top.regs[Stmt[2]]
         payload == widen_to_payload(operand_ty(Fn, Rv[3]), use_operand(Rv[3]))
     IN  heap' = [heap EXCEPT ![at[2]] = [@ EXCEPT ![at[3]] = Word("I16", Rv[2]), ![at[3] + 1] = payload]]
  /\ frames' = Advance(frames)
  /\ UNCHANGED <<code, halt>>

(* Each value is stored at the offset of its field.                                   *)
AllocStruct ==
  /\ AtRv("AllocStruct")
  /\ LET values == [k \in DOMAIN Rv[3] |-> LET w == use_operand(Rv[3][k]) IN
                      IF IsTagged(FieldMir(Rv[2], k)) THEN <<Load(w, 0), Load(w, 1)>> ELSE <<w>>]
     IN  heap' = Append(heap, FlattenSeq(values))
  /\ frames' = [Advance(frames) EXCEPT ![Len(frames)].regs[Stmt[2]] = <<"ptr", Len(heap) + 1, 1>>]
  /\ UNCHANGED <<code, halt>>

StoreField ==
  /\ Running /\ ~AtEnd /\ Stmt[1] = "StoreField"
  /\ LET recv == Top.regs[Stmt[2]]
         addr == <<"ptr", recv[2], recv[3] + Offset(Stmt[3], Stmt[4]) - 1>>
         w    == use_operand(Stmt[5])
     IN  heap' = IF IsTagged(FieldMir(Stmt[3], Stmt[4])) THEN Copy16(heap, w, addr) ELSE Store(heap, addr, w)
  /\ frames' = Advance(frames)
  /\ UNCHANGED <<code, halt>>

Call ==
  /\ AtRv("Call")
  /\ LET in == Entered(Rv[2], [k \in DOMAIN Rv[3] |-> use_operand(Rv[3][k])], Stmt[2])
     IN  frames' = Append(Advance(frames), in.frame) /\ heap' = in.heap
  /\ UNCHANGED <<code, halt>>

Goto ==
  /\ Running /\ AtEnd /\ Term[1] = "Goto"
  /\ frames' = JumpTo(Term[2])
  /\ UNCHANGED <<code, heap, halt>>

CondBr ==
  /\ Running /\ AtEnd /\ Term[1] = "CondBr"
  /\ frames' = JumpTo(IF use_operand(Term[2])[2] # 0 THEN Term[3] ELSE Term[4])
  /\ UNCHANGED <<code, heap, halt>>

(* Codegen returns an operand only where the function has a result.                       *)
Result == IF Fn.ret = <<"Unit">> THEN Zero ELSE use_operand(Term[2][1])
Return ==
  /\ Running /\ AtEnd /\ Term[1] = "Return"
  /\ UNCHANGED code
  /\ \/ /\ Len(frames) > 1
        /\ Deliver(Front(frames), Top.dest, Result)
        /\ UNCHANGED halt
     \/ /\ Len(frames) = 1
        /\ halt' = <<"done", Result>>
        /\ UNCHANGED <<frames, heap>>

Trap ==
  /\ Running /\ AtEnd /\ Term[1] \in {"Trap", "Unreachable"}
  /\ halt' = <<"trap">>
  /\ UNCHANGED <<code, frames, heap>>

Step == Assign \/ UnionConstruct \/ AllocStruct \/ StoreField \/ Call \/ Goto \/ CondBr \/ Return \/ Trap
===============================================================================
