------------------------------- MODULE Lowering -------------------------------
(***************************************************************************)
(* Typed bodies to MIR (lower/expr.rs, lower/stmt.rs, lower/unions.rs, lower/mod.rs).      *)
(*                                                                         *)
(* The builder b is FnBuilder: locals (the type of each, parameters first), blocks (stmts   *)
(* and term), cur, scope, loops, with what Lower knows of the function: hir, subst, ret. An    *)
(* operator takes the builder and returns it; the operand it computed is b.out.            *)
(* Operands: <<"Copy", local>>, <<"Int", n, prim>>, <<"Bool", v>>, <<"Null">>.               *)
(***************************************************************************)
EXTENDS Checker

T(t, b)          == substitute(t, b.subst)
lower_type(t, b) == lower_concrete_type(T(t, b))
Panic(b)         == [b EXCEPT !.panic = TRUE]
Out(op, b)       == [b EXCEPT !.out = op]

Open            == <<"Unreachable">>
new_block(k, b) == [b EXCEPT !.blocks = @ \o [j \in 1..k |-> [stmts |-> <<>>, term |-> Open]]]
switch_to(k, b) == [b EXCEPT !.cur = k]
is_open(b)      == b.blocks[b.cur].term = Open
push_stmt(s, b) == With(b, LAMBDA c : [c EXCEPT !.blocks[c.cur].stmts = Append(@, s)])
terminate(t, b) == With(b, LAMBDA c : [c EXCEPT !.blocks[c.cur].term = t])
terminate_if_open(t, b) == With(b, LAMBDA c : IF is_open(c) THEN terminate(t, c) ELSE c)
ToDeadBlock(b)  == With(new_block(1, b), LAMBDA c : switch_to(Len(c.blocks), c))

new_local(m, b)  == With(b, LAMBDA c : Out(<<"Copy", Len(c.locals) + 1>>, [c EXCEPT !.locals = Append(@, m)]))
emit(rv, m, b)   == With(new_local(m, b), LAMBDA c : push_stmt(<<"Assign", Len(c.locals), rv>>, c))
assign(local, b) == With(b, LAMBDA c : push_stmt(<<"Assign", local, <<"Use", c.out>>>>, c))
bind(name, local, b) == [b EXCEPT !.scope = [@ EXCEPT ![Len(@)] = (name :> local) @@ @]]
lookup(name, b)  == b.scope[SelectLastInSeq(b.scope, LAMBDA s : name \in DOMAIN s)][name]

-----------------------------------------------------------------------------
(* unions.rs: the value b.out, of type `from`, made one of type `to`.                      *)
widen_to_union(from, to, b) ==
  With(b, LAMBDA c :
    IF ~IsTagged(lower_concrete_type(to)) THEN c
    ELSE With(union_tag_for(to[2], from), LAMBDA tag :
           IF tag = Absent THEN Panic(c) ELSE emit(<<"UnionConstruct", tag, c.out>>, lower_concrete_type(to), c)))

SameRepr(from, to) == \/ from = to
                      \/ IsUnion(from) /\ IsUnion(to) /\ lower_concrete_type(from) = lower_concrete_type(to)
coerce_to(from, to, b) ==
  With(<<b, from, to>>, LAMBDA c :
    CASE SameRepr(c[2], c[3])                                    -> c[1]
      [] ~SameRepr(c[2], c[3]) /\ IsPrim(c[2]) /\ IsPrim(c[3])     -> emit(<<"Cast", c[1].out, c[3]>>, c[3], c[1])
      [] ~SameRepr(c[2], c[3]) /\ IsUnion(c[3])                   -> widen_to_union(c[2], c[3], c[1])
      [] OTHER                                                   -> c[1])
coerce_to_subst(from, to, b) == With(b, LAMBDA c : coerce_to(T(from, c), T(to, c), c))

(* The value rv in a new local of type m, or a trap unless b.out holds.                     *)
OrTrap(rv, m, b) ==
  With(b, LAMBDA c :
  With(Len(c.blocks), LAMBDA n :
  With(switch_to(n + 1, new_local(m, terminate(<<"CondBr", c.out, n + 1, n + 2>>, new_block(3, c)))), LAMBDA ok :
  With(terminate(<<"Goto", n + 3>>, push_stmt(<<"Assign", Len(ok.locals), rv>>, ok)), LAMBDA taken :
    switch_to(n + 3, terminate(<<"Trap", "AsMismatch">>, switch_to(n + 2, taken)))))))

TestNull(op, scrutinee, b) == emit(<<"Bin", op, scrutinee, <<"Null">>>>, Bool, b)
emit_nullable_narrow(narrowed, b) ==
  With(b, LAMBDA c :
    OrTrap(<<"Use", IF narrowed = Null THEN <<"Null">> ELSE c.out>>, lower_concrete_type(narrowed),
           TestNull(IF narrowed = Null THEN "==" ELSE "!=", c.out, c)))

TestTag(m, variant, b) ==
  With(tag_of_variant_mir(m, variant), LAMBDA tag :
    IF tag = Absent THEN Panic(b)
    ELSE With(emit(<<"UnionTag", b.out>>, Prim("u16"), b), LAMBDA read :
           emit(<<"Bin", "==", read.out, <<"Int", tag, "u16">>>>, Bool, read)))

lower_union_narrow(m, variant, b) ==
  With(TestTag(m, variant, b), LAMBDA tested :
    IF tested.panic THEN tested ELSE OrTrap(<<"UnionPayload", b.out, m, variant>>, variant, tested))

-----------------------------------------------------------------------------
(* expr.rs and stmt.rs. All recursion goes through lower(n, b).                         *)
RECURSIVE lower(_, _)

lower_block(n, b) ==
  With(b, LAMBDA c :
    [FoldLeft(LAMBDA acc, part : lower(part, acc), Out(<<"Null">>, [c EXCEPT !.scope = Append(@, <<>>)]), n.parts)
     EXCEPT !.scope = c.scope])
lower_block_expr(n, b) == With(lower_block(n, b), LAMBDA c : IF n.of THEN c ELSE Out(<<"Null">>, c))

lower_literal(n, b) == Out(IF n.of[1] = "Int" THEN <<"Int", n.of[2], n.ty[2]>> ELSE n.of, b)

lower_binop(n, b) ==
  With(lower(n.parts[1], b), LAMBDA l :
  With(lower(n.parts[2], l), LAMBDA r :
    emit(<<"Bin", n.of, l.out, r.out>>, lower_type(n.ty, b), r)))

lower_unop(n, b) == With(lower(n.parts[1], b), LAMBDA x : emit(<<"Un", n.of, x.out>>, lower_type(n.ty, b), x))

(* Values lowered from left to right, each coerced to the type it goes to.                *)
LowerAll(parts, tos, b) ==
  FoldLeft(LAMBDA acc, k : With(coerce_to(T(parts[k].ty, acc.b), tos[k], lower(parts[k], acc.b)), LAMBDA x :
                             [b |-> x, ops |-> Append(acc.ops, x.out)]),
           [b |-> b, ops |-> <<>>], [k \in DOMAIN parts |-> k])

lower_call(n, b) ==
  With(b.hir[n.of[1]], LAMBDA callee :
  With([k \in DOMAIN n.of[2] |-> T(n.of[2][k], b)], LAMBDA targs :
  With([k \in DOMAIN n.parts |-> substitute(callee.params[k][2], Instance(callee, targs))], LAMBDA params :
  With(LowerAll(n.parts, params, b), LAMBDA args :
    emit(<<"Call", <<n.of[1], targs>>, args.ops>>, lower_type(n.ty, b), args.b)))))

(* The values as the text has them, the operands as the struct declares its fields.           *)
lower_struct_init(n, b) ==
  With(LowerAll(n.parts, [k \in DOMAIN n.parts |-> FieldType(n.of[1], n.of[2][k])[1]], b), LAMBDA values :
  With([k \in DOMAIN Structs[n.of[1]] |-> SelectInSeq(n.of[2], LAMBDA f : f = Structs[n.of[1]][k][1])], LAMBDA order :
    emit(<<"AllocStruct", n.of[1], [k \in DOMAIN order |-> values.ops[order[k]]]>>, <<"Ref", n.of[1]>>, values.b)))

FieldIndex(s, field) == SelectInSeq(Structs[s], LAMBDA f : f[1] = field)
lower_member(n, b) ==
  With(lower(n.parts[1], b), LAMBDA recv :
    emit(<<"Field", recv.out, FieldIndex(T(n.parts[1].ty, b)[2], n.of)>>, lower_type(n.ty, b), recv))

lower_as(n, b) ==
  With(T(n.parts[1].ty, b), LAMBDA src :
  With(T(n.of, b), LAMBDA target :
  With(lower(n.parts[1], b), LAMBDA x :
    CASE src = target                                              -> x
      [] src # target /\ IsPrim(src) /\ IsPrim(target)             -> emit(<<"Cast", x.out, target>>, target, x)
      [] src # target /\ IsUnion(target)                           -> coerce_to(src, target, x)
      [] IsUnion(src) /\ ~IsUnion(target) /\ IsTagged(lower_concrete_type(src)) ->
           lower_union_narrow(lower_concrete_type(src), lower_concrete_type(target), x)
      [] IsUnion(src) /\ ~IsUnion(target) /\ ~IsTagged(lower_concrete_type(src)) -> emit_nullable_narrow(target, x)
      [] src = Null /\ target # Null /\ ~IsUnion(target)           -> x
      [] OTHER                                                     -> Panic(x))))

lower_is(n, b) ==
  With(T(n.parts[1].ty, b), LAMBDA src :
  With(T(n.of, b), LAMBDA target :
  With(lower(n.parts[1], b), LAMBDA x :
    IF ~IsUnion(src) THEN Panic(x)
    ELSE IF IsTagged(lower_concrete_type(src)) THEN TestTag(lower_concrete_type(src), lower_concrete_type(target), x)
    ELSE TestNull(IF target = Null THEN "==" ELSE "!=", x.out, x))))

(* An arm leaves its value in the local of the if, unless that has no register.             *)
Arm(n, ty, result, join, b) ==
  With(lower_block(n, b), LAMBDA done :
    IF ~is_open(done) THEN done
    ELSE terminate(<<"Goto", join>>,
                   IF n.of /\ ty # Null THEN assign(result, coerce_to(T(n.ty, done), ty, done)) ELSE done))

lower_if(n, b) ==
  With(T(n.ty, b), LAMBDA ty :
  With(lower(n.parts[1], b), LAMBDA cond :
  With(Len(cond.blocks), LAMBDA k :
  With(new_local(lower_concrete_type(ty), new_block(3, cond)), LAMBDA split :
  With(terminate(<<"CondBr", cond.out, k + 1, k + 2>>, split), LAMBDA c :
  With(switch_to(k + 2, Arm(n.parts[2], ty, Len(split.locals), k + 3, switch_to(k + 1, c))), LAMBDA then :
    Out(split.out, switch_to(k + 3, IF Len(n.parts) = 3 THEN Arm(n.parts[3], ty, Len(split.locals), k + 3, then)
                                    ELSE terminate(<<"Goto", k + 3>>, then)))))))))

lower_var_decl(n, b) ==
  With(new_local(lower_type(n.ty, b), b), LAMBDA c :
    bind(n.of, Len(c.locals),
         IF n.parts = <<>> THEN c
         ELSE assign(Len(c.locals), coerce_to_subst(n.parts[1].ty, n.ty, lower(n.parts[1], c)))))

lower_return(n, b) ==
  ToDeadBlock(IF n.parts = <<>> THEN terminate(<<"Return", <<>>>>, b)
              ELSE With(coerce_to(T(n.parts[1].ty, b), b.ret, lower(n.parts[1], b)), LAMBDA x :
                     terminate(<<"Return", <<x.out>>>>, x)))

lower_assign_var(n, b) ==
  assign(lookup(n.of, b), coerce_to_subst(n.parts[1].ty, n.ty, lower(n.parts[1], b)))

(* A receiver is always in a local: no constant has a struct type.                       *)
lower_assign_field(n, b) ==
  With(T(n.parts[1].ty, b)[2], LAMBDA s :
  With(lower(n.parts[1], b), LAMBDA recv :
  With(coerce_to_subst(n.parts[2].ty, FieldType(s, n.of)[1], lower(n.parts[2], recv)), LAMBDA value :
    push_stmt(<<"StoreField", recv.out[2], s, FieldIndex(s, n.of), value.out>>, value))))

lower_while(n, b) ==
  With(Len(b.blocks), LAMBDA k :
  With(lower(n.parts[1], switch_to(k + 1, terminate(<<"Goto", k + 1>>, new_block(3, b)))), LAMBDA head :
  With(switch_to(k + 2, terminate(<<"CondBr", head.out, k + 2, k + 3>>, head)), LAMBDA body :
  With(lower_block(n.parts[2], [body EXCEPT !.loops = Append(@, <<k + 1, k + 3>>)]), LAMBDA done :
    switch_to(k + 3, terminate_if_open(<<"Goto", k + 1>>, [done EXCEPT !.loops = b.loops]))))))

lower(n, b) ==
  CASE n.kind = "Literal"     -> lower_literal(n, b)
    [] n.kind = "Variable"    -> Out(<<"Copy", lookup(n.of, b)>>, b)
    [] n.kind = "Binary"      -> lower_binop(n, b)
    [] n.kind = "Unary"       -> lower_unop(n, b)
    [] n.kind = "Call"        -> lower_call(n, b)
    [] n.kind = "StructInit"  -> lower_struct_init(n, b)
    [] n.kind = "Member"      -> lower_member(n, b)
    [] n.kind = "As"          -> lower_as(n, b)
    [] n.kind = "Is"          -> lower_is(n, b)
    [] n.kind = "If"          -> lower_if(n, b)
    [] n.kind = "Block"       -> lower_block_expr(n, b)
    [] n.kind = "VarDecl"     -> lower_var_decl(n, b)
    [] n.kind = "Return"      -> lower_return(n, b)
    [] n.kind = "Expr"        -> lower(n.parts[1], b)
    [] n.kind = "AssignVar"   -> lower_assign_var(n, b)
    [] n.kind = "AssignField" -> lower_assign_field(n, b)
    [] n.kind = "While"       -> lower_while(n, b)
    [] n.kind = "Break"       -> ToDeadBlock(terminate(<<"Goto", Last(b.loops)[2]>>, b))
    [] n.kind = "Continue"    -> ToDeadBlock(terminate(<<"Goto", Last(b.loops)[1]>>, b))

-----------------------------------------------------------------------------
(* One instance <<name, type arguments>> of a function.                              *)
new_builder(hir, subst, ret) ==
  [hir |-> hir, subst |-> subst, ret |-> ret, locals |-> <<>>, blocks |-> <<[stmts |-> <<>>, term |-> Open]>>, cur |-> 1,
   scope |-> <<<<>>>>, loops |-> <<>>, out |-> <<"Null">>, panic |-> FALSE]
Parameter(p, b) == With(new_local(lower_type(p[2], b), b), LAMBDA c : bind(p[1], Len(c.locals), c))

lower_function(hir, inst) ==
  With(hir[inst[1]], LAMBDA f :
  With(Instance(f, inst[2]), LAMBDA subst :
  With(FoldLeft(LAMBDA b, p : Parameter(p, b), new_builder(hir, subst, substitute(f.ret, subst)), f.params), LAMBDA b :
  With(lower_block(f.body, b), LAMBDA body :
  With(IF f.body.of THEN coerce_to(T(f.body.ty, b), b.ret, body) ELSE body, LAMBDA x :
  With(terminate_if_open(<<"Return", IF f.body.of THEN <<x.out>> ELSE <<>>>>, x), LAMBDA done :
    [locals |-> done.locals, arity |-> Len(f.params), blocks |-> done.blocks, ret |-> lower_concrete_type(b.ret),
     panic |-> done.panic]))))))

Mentions(fn) ==
  LET stmts == UNION {ToSet(fn.blocks[k].stmts) : k \in DOMAIN fn.blocks}
  IN  {s[3][2] : s \in {s \in stmts : s[1] = "Assign" /\ s[3][1] = "Call"}}
===============================================================================
