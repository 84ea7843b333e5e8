------------------------------- MODULE Meaning -------------------------------
(***************************************************************************)
(* What an accepted program means: values are values, structs are shared, everything is      *)
(* evaluated from left to right (SPEC.md says nothing of `&&` and `||` being different).       *)
(*                                                                         *)
(* A value is <<its type, what it is>>: a value of a union type is a value of one of its types.  *)
(* A state s has the scopes, the objects, the type arguments, the value just computed, and     *)
(* flow: "go", or why what follows is passed over.                                   *)
(***************************************************************************)
EXTENDS Checker

NoValue == <<Null, 0>>
Truth(v) == <<Bool, v>>

(* A number that its type does not have is taken modulo the type's size, in arithmetic and in   *)
(* conversions alike: SPEC.md says nothing of overflow, and narrows an i64 to i8 with `as`.     *)
Wrapped(p, n) == CHOOSE v \in Values(p) : (v - n) % Cardinality(Values(p)) = 0
Number(p, n)  == <<Prim(p), Wrapped(p, n)>>

Give(v, s)    == [s EXCEPT !.val = v]
Stop(why, s)  == [s EXCEPT !.flow = why]

Home(name, s)      == SelectLastInSeq(s.scopes, LAMBDA scope : name \in DOMAIN scope)
Declare(name, v, s) == [s EXCEPT !.scopes[Len(s.scopes)] = (name :> v) @@ @]

Default(t) == CASE IsPrim(t) /\ t # Bool -> <<t, 0>>
                [] t = Bool              -> Truth(FALSE)
                [] OTHER                 -> NoValue

Apply(op, a, b) ==
  CASE op = "==" -> Truth(a = b)
    [] op = "!=" -> Truth(a # b)
    [] op = "<"  -> Truth(a[2] < b[2])
    [] op = "<=" -> Truth(a[2] <= b[2])
    [] op = ">"  -> Truth(a[2] > b[2])
    [] op = ">=" -> Truth(a[2] >= b[2])
    [] op = "+"  -> Number(a[1][2], a[2] + b[2])
    [] op = "-"  -> Number(a[1][2], a[2] - b[2])
    [] op = "*"  -> Number(a[1][2], a[2] * b[2])
    [] op = "&&" -> Truth(a[2] /\ b[2])
    [] op = "||" -> Truth(a[2] \/ b[2])

(* A number is converted; a value that comes as one of several types must be of the one named.  *)
Convert(v, src, t, s) ==
  CASE is_numeric(t) /\ IsPrim(src) ->
         Give(Number(t[2], IF v[1] = Bool THEN (IF v[2] THEN 1 ELSE 0) ELSE v[2]), s)
    [] IsUnion(t) \/ v[1] = t       -> s
    [] OTHER                        -> Stop("trap", s)

RECURSIVE Do(_, _, _)

(* Parts from left to right, then F of their values and the state after them.               *)
DoAll(hir, parts, s) ==
  FoldLeft(LAMBDA acc, part : IF acc.s.flow # "go" THEN acc
                              ELSE With(Do(hir, part, acc.s), LAMBDA t : [s |-> t, vals |-> Append(acc.vals, t.val)]),
           [s |-> s, vals |-> <<>>], parts)
WithAll(hir, parts, s, F(_, _)) ==
  With(DoAll(hir, parts, s), LAMBDA all : IF all.s.flow = "go" THEN F(all.vals, all.s) ELSE all.s)

DoBlock(hir, n, s) ==
  With(DoAll(hir, n.parts, [s EXCEPT !.scopes = Append(@, <<>>)]).s, LAMBDA done :
    [done EXCEPT !.scopes = Front(@), !.val = IF done.flow = "go" /\ ~n.of THEN NoValue ELSE @])

DoCall(hir, n, vals, s) ==
  With(hir[n.of[1]], LAMBDA f :
  With([k \in DOMAIN n.of[2] |-> substitute(n.of[2][k], s.subst)], LAMBDA targs :
  With([x \in {f.params[k][1] : k \in DOMAIN vals} |-> vals[SelectInSeq(f.params, LAMBDA p : p[1] = x)]], LAMBDA scope :
  With(DoBlock(hir, f.body, [s EXCEPT !.scopes = <<scope>>, !.subst = Instance(f, targs)]), LAMBDA done :
    [done EXCEPT !.scopes = s.scopes, !.subst = s.subst, !.flow = IF @ = "return" THEN "go" ELSE @]))))

DoLoop(hir, n, s) ==
  With(Do(hir, n.parts[1], s), LAMBDA test :
    IF test.flow # "go" \/ ~test.val[2] THEN test
    ELSE With(DoBlock(hir, n.parts[2], test), LAMBDA body :
           CASE body.flow \in {"go", "continue"} -> Do(hir, n, Stop("go", body))
             [] body.flow = "break"              -> Stop("go", body)
             [] OTHER                            -> body))

DoIf(hir, n, s) ==
  With(Do(hir, n.parts[1], s), LAMBDA test :
    CASE test.flow # "go"                -> test
      [] test.flow = "go" /\ test.val[2] -> DoBlock(hir, n.parts[2], test)
      [] OTHER                           -> IF Len(n.parts) = 3 THEN DoBlock(hir, n.parts[3], test) ELSE Give(NoValue, test))

Do(hir, n, s) ==
  CASE n.kind = "Literal"    -> Give(CASE n.of[1] = "Int"  -> Number(n.ty[2], n.of[2])
                                       [] n.of[1] = "Bool" -> Truth(n.of[2])
                                       [] n.of[1] = "Null" -> NoValue, s)
    [] n.kind = "Variable"   -> Give(s.scopes[Home(n.of, s)][n.of], s)
    [] n.kind = "Binary"     -> WithAll(hir, n.parts, s, LAMBDA v, t : Give(Apply(n.of, v[1], v[2]), t))
    [] n.kind = "Unary"      -> WithAll(hir, n.parts, s, LAMBDA v, t :
                                  Give(IF n.of = "-" THEN Number(v[1][1][2], -v[1][2]) ELSE Truth(~v[1][2]), t))
    [] n.kind = "Call"       -> WithAll(hir, n.parts, s, LAMBDA v, t : DoCall(hir, n, v, t))
    [] n.kind = "StructInit" -> WithAll(hir, n.parts, s, LAMBDA v, t :
                                  Give(<<Struct(n.of[1]), Len(t.objects) + 1>>,
                                       [t EXCEPT !.objects = Append(@, [x \in ToSet(n.of[2]) |->
                                          v[SelectInSeq(n.of[2], LAMBDA y : y = x)]])]))
    [] n.kind = "Member"     -> WithAll(hir, n.parts, s, LAMBDA v, t : Give(t.objects[v[1][2]][n.of], t))
    [] n.kind = "As"         -> WithAll(hir, n.parts, s, LAMBDA v, t : Convert(v[1], substitute(n.parts[1].ty, t.subst), substitute(n.of, t.subst), t))
    [] n.kind = "Is"         -> WithAll(hir, n.parts, s, LAMBDA v, t : Give(Truth(v[1][1] = substitute(n.of, t.subst)), t))
    [] n.kind = "If"         -> DoIf(hir, n, s)
    [] n.kind = "Block"      -> DoBlock(hir, n, s)
    [] n.kind = "Expr"       -> Do(hir, n.parts[1], s)
    [] n.kind = "VarDecl"    -> IF n.parts = <<>> THEN Declare(n.of, Default(substitute(n.ty, s.subst)), s)
                                ELSE WithAll(hir, n.parts, s, LAMBDA v, t : Declare(n.of, v[1], t))
    [] n.kind = "AssignVar"  -> WithAll(hir, n.parts, s, LAMBDA v, t : [t EXCEPT !.scopes[Home(n.of, t)][n.of] = v[1]])
    [] n.kind = "AssignField" -> WithAll(hir, n.parts, s, LAMBDA v, t : [t EXCEPT !.objects[v[1][2]][n.of] = v[2]])
    [] n.kind = "Return"     -> IF n.parts = <<>> THEN Stop("return", Give(NoValue, s))
                                ELSE WithAll(hir, n.parts, s, LAMBDA v, t : Stop("return", t))
    [] n.kind = "While"      -> DoLoop(hir, n, s)
    [] n.kind = "Break"      -> Stop("break", s)
    [] n.kind = "Continue"   -> Stop("continue", s)

(* A value with everything it leads to.                                             *)
RECURSIVE Unfold(_, _)
Unfold(v, objects) == IF v[1][1] # "Struct" THEN v
                      ELSE <<v[1], [x \in DOMAIN objects[v[2]] |-> Unfold(objects[v[2]][x], objects)]>>

(* What main comes to.                                                             *)
MeaningOf(hir) ==
  With(DoBlock(hir, hir["main"].body, [scopes |-> <<<<>>>>, objects |-> <<>>, subst |-> <<>>, val |-> NoValue, flow |-> "go"]),
       LAMBDA done : IF done.flow = "trap" THEN <<"trap">> ELSE <<"done", Unfold(done.val, done.objects)>>)
===============================================================================
