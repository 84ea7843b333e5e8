------------------------------- MODULE Checker -------------------------------
(***************************************************************************)
(* The bodies of functions, from the parser's trees to the typed ones (the check_*        *)
(* functions of validator.rs). Every node that is built says whether it is free of an      *)
(* error; the validator goes on after one, and the program is accepted when it found none. *)
(*                                                                         *)
(* A node is a record: kind, ty, parts (the nodes in it, in the order of the text), of       *)
(* (the rest: a name, an operator, a type), ok. Calls are of free functions. Lists, maps,   *)
(* strings, floats, `for`, methods, interfaces and constants are left out.               *)
(***************************************************************************)
EXTENDS Types

CONSTANT IntText        (* the text of each literal -> its value                         *)

Node(kind, ty, of, parts, ok) == [kind |-> kind, ty |-> ty, of |-> of, parts |-> parts, ok |-> ok]

RECURSIVE Nodes(_)
Nodes(n) == {n} \cup UNION {Nodes(n.parts[k]) : k \in DOMAIN n.parts}

(* What a body is checked in: the functions of the program (name -> [tps, params, ret, body]), *)
(* the scopes (locals), the return type, the depth of loops, the function's type parameters,  *)
(* and the type expected here, if one is.                                           *)
Expecting(c, ts) == [c EXCEPT !.expected = ts]
InLoop(c)        == [c EXCEPT !.loop_depth = @ + 1]
Scoped(c)        == [c EXCEPT !.locals = Append(@, <<>>)]
Bind(c, name, ty) == [c EXCEPT !.locals[Len(c.locals)] = (name :> ty) @@ @]

ScopesOf(c, name)     == {k \in DOMAIN c.locals : name \in DOMAIN c.locals[k]}
lookup_local(c, name) == c.locals[CHOOSE k \in ScopesOf(c, name) : \A j \in ScopesOf(c, name) : j <= k][name]

resolve_atom(c, t) ==
  CASE t = <<"Primitive", "null">> -> Null
    [] t[1] = "Primitive" /\ t[2] # "null" -> Prim(t[2])
    [] t[1] = "Named"              -> IF t[2] \in c.tps THEN Param(t[2]) ELSE Struct(t[2])
resolve_type_expr(c, t) ==
  IF t[1] = "Union" THEN Union([k \in DOMAIN t[2] |-> resolve_atom(c, t[2][k])]) ELSE resolve_atom(c, t)
ResolveAll(c, ts) == [k \in DOMAIN ts |-> resolve_type_expr(c, ts[k])]

-----------------------------------------------------------------------------
(* All recursion goes through Check(x, c): x is an expression or a statement, <<"Body", block>> *)
(* for a block of it.                                                         *)
RECURSIVE Check(_, _)
CheckAll(xs, c)       == [k \in DOMAIN xs |-> Check(xs[k], c)]
CheckBlock(b, c, exp) == Check(<<"Body", b>>, Expecting(c, exp))

(* Only a declaration changes what follows it.                                  *)
check_block(b, c) ==
  LET Then(acc, s) ==
        LET n == Check(s, Expecting(acc.c, <<>>)) IN
        [c |-> IF n.kind = "VarDecl" THEN Bind(acc.c, n.of, n.ty) ELSE acc.c, out |-> Append(acc.out, n)]
      all  == FoldLeft(Then, [c |-> Scoped(c), out |-> <<>>], b.statements)
      tail == CheckAll(b.returns, Expecting(all.c, c.expected))
  IN  Node("Block", IF tail = <<>> THEN Null ELSE tail[1].ty, tail # <<>>, all.out \o tail, TRUE)

(* Digits that no i64 can hold are refused and stand for 0.                            *)
check_int(n, c) ==
  LET fits == c.expected # <<>> /\ IsPrim(c.expected[1]) /\ is_numeric(c.expected[1]) IN
  IF n \in Values("i64") THEN Node("Literal", IF fits THEN c.expected[1] ELSE I64, <<"Int", n>>, <<>>, TRUE)
                         ELSE Node("Literal", I64, <<"Int", 0>>, <<>>, FALSE)

check_literal(e, c) ==
  CASE e[2] = "Int"  -> check_int(IntText[e[3]], c)
    [] e[2] = "null" -> Node("Literal", Null, <<"Null">>, <<>>, TRUE)
    [] OTHER         -> Node("Literal", Bool, <<"Bool", e[2] = "true">>, <<>>, TRUE)

check_variable(name, c) ==
  IF ScopesOf(c, name) # {} THEN Node("Variable", lookup_local(c, name), name, <<>>, TRUE)
  ELSE Node("Variable", Null, name, <<>>, FALSE)

check_if(e, c) ==
  LET cond == Check(e[2], Expecting(c, <<>>))
      then == CheckBlock(e[3], c, c.expected)
      else == [k \in DOMAIN e[4] |-> CheckBlock(e[4][k], c, c.expected)]
  IN  Node("If", unify_branch_types(then.ty, IF else = <<>> THEN Null ELSE else[1].ty), "",
           <<cond, then>> \o else, cond.ty = Bool)

(* The substitution that the type arguments of an instance are, if there are enough.          *)
Instance(f, targs) ==
  IF Len(targs) = Len(f.tps) THEN [x \in ToSet(f.tps) |-> targs[SelectInSeq(f.tps, LAMBDA y : y = x)]] ELSE <<>>

(* A local is no function (none has a function type here), and hides one of its name.        *)
IsFunction(name, c) == ScopesOf(c, name) = {} /\ name \in DOMAIN c.functions

(* Explicit type arguments bind the function's parameters; none are inferred.            *)
check_callee(f, targs, c) ==
  LET own   == [c EXCEPT !.tps = ToSet(f.tps)]
      subst == Instance(f, targs)
      Of(t) == substitute(resolve_type_expr(own, t), subst)
  IN  [params |-> [k \in DOMAIN f.params |-> Of(f.params[k][2])], ret |-> Of(f.ret),
       ok |-> targs = <<>> \/ Len(targs) = Len(f.tps)]

check_args(name, targs, callee, xs, c) ==
  LET params == callee.params
      args   == [k \in DOMAIN xs |-> Check(xs[k], Expecting(c, IF k \in DOMAIN params THEN <<params[k]>> ELSE <<>>))]
  IN  Node("Call", callee.ret, <<name, targs>>, args,
           /\ callee.ok /\ Len(args) = Len(params)
           /\ \A k \in DOMAIN args : types_compatible_in(args[k].ty, params[k]))

check_call(e, c) ==
  LET name  == e[2][2]
      targs == ResolveAll(c, e[3])
  IN  IF IsFunction(name, c) THEN check_args(name, targs, check_callee(c.functions[name], targs, c), e[4], c)
      ELSE Node("Call", Null, <<name, targs>>, CheckAll(e[4], Expecting(c, <<>>)), FALSE)

FieldType(s, field) == LET k == SelectInSeq(Structs[s], LAMBDA f : f[1] = field) IN
                       IF k = 0 THEN <<>> ELSE <<Structs[s][k][2]>>

check_struct_init(e, c) ==
  LET s      == e[2][2]
      values == [k \in DOMAIN e[3] |-> Check(e[3][k][2], Expecting(c, FieldType(s, e[3][k][1])))]
      names  == [k \in DOMAIN e[3] |-> e[3][k][1]]
  IN  Node("StructInit", Struct(s), <<s, names>>, values,
           /\ IsInjective(names) /\ ToSet(names) = {f[1] : f \in ToSet(Structs[s])}
           /\ \A k \in DOMAIN values : types_compatible_in(values[k].ty, FieldType(s, names[k])[1]))

check_member(e, c) ==
  LET recv == Check(e[2], Expecting(c, <<>>))
      ty   == IF recv.ty[1] = "Struct" THEN FieldType(recv.ty[2], e[3]) ELSE <<>>
  IN  Node("Member", IF ty = <<>> THEN Null ELSE ty[1], e[3], <<recv>>, ty # <<>>)

Arithmetic  == {"+", "-", "*"}
Comparisons == {"<", "<=", ">", ">="}
check_binary(e, c) ==
  LET l  == Check(e[2], Expecting(c, <<>>))
      r  == Check(e[4], Expecting(c, <<l.ty>>))
      op == e[3]
  IN  Node("Binary", IF op \in Arithmetic THEN l.ty ELSE Bool, op, <<l, r>>,
           /\ op \in Arithmetic \cup Comparisons => is_numeric(l.ty)
           /\ op \in {"&&", "||"} => l.ty = Bool
           /\ l.ty = r.ty)

check_unary(e, c) ==
  LET x == Check(e[3], Expecting(c, <<>>)) IN
  Node("Unary", IF e[2] = "-" THEN x.ty ELSE Bool, e[2], <<x>>, IF e[2] = "-" THEN is_numeric(x.ty) ELSE x.ty = Bool)

-----------------------------------------------------------------------------
check_var_decl(s, c) ==
  LET declared == ResolveAll(c, s[3])
      init     == CheckAll(s[4], Expecting(c, declared))
      ty       == CASE declared # <<>>                -> declared[1]
                    [] declared = <<>> /\ init # <<>> -> init[1].ty
                    [] OTHER                          -> Null
  IN  Node("VarDecl", ty, s[2], init,
           /\ declared # <<>> \/ init # <<>>
           /\ init # <<>> => types_compatible_in(init[1].ty, ty))

check_assign(s, c) ==
  LET target   == Check(s[2], Expecting(c, <<>>))
      variable == s[2][1] = "Variable"
      value    == Check(s[3], Expecting(c, <<target.ty>>))
  IN  Node(IF variable THEN "AssignVar" ELSE "AssignField", target.ty, target.of,
           IF variable THEN <<value>> ELSE <<target.parts[1], value>>,
           target.ok /\ types_compatible_in(value.ty, target.ty))

check_return(s, c) ==
  LET value == CheckAll(s[2], Expecting(c, <<c.return_type>>)) IN
  Node("Return", Null, "", value, types_compatible_in(IF value = <<>> THEN Null ELSE value[1].ty, c.return_type))

check_while(s, c) ==
  LET cond == Check(s[2], Expecting(c, <<>>)) IN
  Node("While", Null, "", <<cond, CheckBlock(s[3], InLoop(c), <<>>)>>, cond.ty = Bool)

Check(x, c) ==
  LET plain == Expecting(c, <<>>) IN
  CASE x[1] = "Body"       -> check_block(x[2], c)
    [] x[1] = "Literal"    -> check_literal(x, c)
    [] x[1] = "Variable"   -> check_variable(x[2], c)
    [] x[1] = "If"         -> check_if(x, c)
    [] x[1] = "Call"       -> check_call(x, c)
    [] x[1] = "StructInit" -> check_struct_init(x, c)
    [] x[1] = "Member"     -> check_member(x, c)
    [] x[1] = "BinaryOp"   -> check_binary(x, c)
    [] x[1] = "UnaryOp"    -> check_unary(x, c)
    [] x[1] = "Block"      -> check_block(x[2], c)
    [] x[1] = "As"         -> LET t == resolve_type_expr(c, x[3]) IN Node("As", t, t, <<Check(x[2], plain)>>, TRUE)
    [] x[1] = "Is"         -> Node("Is", Bool, resolve_type_expr(c, x[3]), <<Check(x[2], plain)>>, TRUE)
    [] x[1] = "VarDecl"    -> check_var_decl(x, c)
    [] x[1] = "Assign"     -> check_assign(x, c)
    [] x[1] = "Return"     -> check_return(x, c)
    [] x[1] = "While"      -> check_while(x, c)
    [] x[1] = "Expr"       -> Node("Expr", Null, "", <<Check(x[2], plain)>>, TRUE)
    [] x[1] \in {"Break", "Continue"} -> Node(x[1], Null, "", <<>>, c.loop_depth > 0)

(* A function of the program: its signature and its typed body.                        *)
validate_function_body(functions, name) ==
  LET f   == functions[name]
      top == [functions |-> functions, locals |-> <<>>, return_type |-> Null, loop_depth |-> 0,
              tps |-> ToSet(f.tps), expected |-> <<>>]
      ret == resolve_type_expr(top, f.ret)
      ps  == [k \in DOMAIN f.params |-> <<f.params[k][1], resolve_type_expr(top, f.params[k][2])>>]
      c   == FoldLeft(LAMBDA acc, p : Bind(acc, p[1], p[2]), [Scoped(top) EXCEPT !.return_type = ret], ps)
  IN  [tps |-> f.tps, params |-> ps, ret |-> ret, body |-> CheckBlock(f.body, c, <<>>)]

Checked(functions) == [name \in DOMAIN functions |-> validate_function_body(functions, name)]
Accepted(hir)      == \A name \in DOMAIN hir : \A n \in Nodes(hir[name].body) : n.ok
===============================================================================
