------------------------------ MODULE MCCompile ------------------------------
(***************************************************************************)
(* Programs for TLC: main declares unions of every layout, structs with union fields and       *)
(* integers of two widths, executes statements chosen from Pool, and returns everything.       *)
(* The result is how a run sees main's memory: the command line runs a main only for an      *)
(* integer or nothing.                                                            *)
(***************************************************************************)
EXTENDS Compile

MCIntText == "0" :> 0 @@ "1" :> 1 @@ "2" :> 2 @@ "3" :> 3 @@ "4" :> 4   (* no i64 holds a 4 here *)

Opt    == Union(<<I64, Null>>)
Small  == Union(<<Prim("i8"), I64, Null>>)
MaybeP == Union(<<Struct("P"), Null>>)

MCStructs ==
  [P   |-> <<<<"n", I64>>>>,
   S   |-> <<<<"b", Prim("i8")>>, <<"f", Opt>>, <<"g", MaybeP>>>>,
   Out |-> <<<<"u", Opt>>, <<"w", Small>>, <<"p", MaybeP>>, <<"q", Struct("P")>>, <<"s", Struct("S")>>,
             <<"i", I64>>, <<"b", Prim("i8")>>>>]
MCNameOrder == <<"Out", "P", "S">>

(* The parser's trees.                                                              *)
Num(d)        == <<"Literal", "Int", d>>
None          == <<"Literal", "null">>
V(x)          == <<"Variable", x>>
Bin(l, op, r) == <<"BinaryOp", l, op, r>>
Dot(e, f)     == <<"Member", e, f>>
As(e, t)      == <<"As", e, t>>
Is(e, t)      == <<"Is", e, t>>
CallOf(f, ts, args) == <<"Call", V(f), ts, args>>
New(s, fields)      == <<"StructInit", <<"Named", s>>, fields>>
Body(stmts, tail)   == [statements |-> stmts, returns |-> tail]
If(c, t, e)   == <<"If", c, t, e>>
Let(x, t, e)  == <<"VarDecl", x, t, e>>
Set(x, e)     == <<"Assign", V(x), e>>
Put(e, f, v)  == <<"Assign", Dot(e, f), v>>
Do1(e)        == <<"Expr", e>>
Val(e)        == Body(<<>>, <<e>>)

tNull == <<"Primitive", "null">>
tI64  == <<"Primitive", "i64">>
tI8   == <<"Primitive", "i8">>
tP    == <<"Named", "P">>
tOpt   == <<"Union", <<tI64, tNull>>>>
tSmall == <<"Union", <<tI8, tI64, tNull>>>>
tMaybe == <<"Union", <<tP, tNull>>>>
tT     == <<"Named", "T">>
Fun(tps, params, ret, body) == [tps |-> tps, params |-> params, ret |-> ret, body |-> body]

Library ==
  [or    |-> Fun(<<"T">>, <<<<"x", <<"Union", <<tT, tNull>>>>>>, <<"y", tT>>>>, tT,
                 Val(If(Is(V("x"), tT), Val(As(V("x"), tT)), <<Val(V("y"))>>))),
   flip  |-> Fun(<<>>, <<<<"v", tOpt>>>>, tOpt,
                 Body(<<Do1(If(Is(V("v"), tI64), Body(<<<<"Return", <<None>>>>>>, <<>>), <<>>))>>, <<Num("1")>>)),
   bump  |-> Fun(<<>>, <<<<"q", tP>>>>, tNull, Body(<<Put(V("q"), "n", Bin(Dot(V("q"), "n"), "+", Num("1")))>>, <<>>)),
   wide  |-> Fun(<<>>, <<<<"b", tI8>>>>, tSmall,
                 Body(<<Do1(If(Bin(V("b"), "<", Num("0")), Body(<<<<"Return", <<V("b")>>>>>>, <<>>), <<>>))>>, <<None>>)),
   swap  |-> Fun(<<>>, <<<<"s", <<"Named", "S">>>>, <<"v", tOpt>>>>, tOpt,
                 Body(<<Let("old", <<>>, <<Dot(V("s"), "f")>>), Put(V("s"), "f", V("v"))>>, <<V("old")>>)),
   wipe  |-> Fun(<<>>, <<<<"v", tOpt>>>>, tOpt, Body(<<Set("v", None)>>, <<V("v")>>)),
   none  |-> Fun(<<>>, <<>>, tI64, Body(<<>>, <<>>))]

Loop(cond, stmts) == <<"While", cond, Body(stmts, <<>>)>>
Below(n)  == Bin(V("i"), "<", Num(n))
Count     == Set("i", Bin(V("i"), "+", Num("1")))

Good ==
  [a1  |-> Set("u", Num("2")),
   a2  |-> Set("u", Dot(V("s"), "f")),
   a3  |-> Put(V("s"), "f", V("u")),
   a4  |-> Set("u", CallOf("flip", <<>>, <<V("u")>>)),
   a5  |-> Set("p", V("q")),
   a6  |-> Set("p", New("P", <<<<"n", V("i")>>>>)),
   a7  |-> Put(V("s"), "g", V("p")),
   a8  |-> Set("q", CallOf("or", <<tP>>, <<V("p"), V("q")>>)),
   a9  |-> Set("i", CallOf("or", <<tI64>>, <<V("u"), Num("3")>>)),
   a10 |-> Set("i", As(V("u"), tI64)),
   a11 |-> Do1(CallOf("bump", <<>>, <<V("q")>>)),
   a12 |-> Set("w", V("b")),
   a13 |-> Set("w", V("i")),
   a14 |-> Set("b", As(V("w"), tI8)),
   a15 |-> Set("b", As(V("i"), tI8)),
   a16 |-> Set("i", As(V("b"), tI64)),
   a17 |-> Set("w", CallOf("wide", <<>>, <<V("b")>>)),
   a18 |-> Set("b", <<"UnaryOp", "-", V("b")>>),
   a19 |-> Set("u", CallOf("swap", <<>>, <<V("s"), V("u")>>)),
   a20 |-> Do1(<<"Block", Body(<<Let("v", <<>>, <<V("u")>>), Set("u", Num("1")), Set("u", V("v"))>>, <<>>)>>),
   a21 |-> Set("u", If(Is(V("w"), tI8), Val(V("i")), <<Val(None)>>)),
   a22 |-> Loop(Below("2"), <<Count, Let("v", <<tOpt>>, <<V("i")>>), Do1(If(Is(V("u"), tNull), Body(<<Set("u", V("v"))>>, <<>>),
                 <<Body(<<<<"Break">>>>, <<>>)>>))>>),
   a23 |-> Set("s", New("S", <<<<"g", V("p")>>, <<"f", V("u")>>, <<"b", V("b")>>>>)),
   a24 |-> Set("q", As(V("p"), tP))]

(* Accepted, and compiled to something else, or not at all; or refused.                    *)
Bad ==
  [b1 |-> Set("i", Bin(V("i"), "+", <<"Block", Body(<<Set("i", Num("3"))>>, <<Num("1")>>)>>)),
   b2 |-> Set("w", If(Is(V("w"), tNull), Val(V("u")), <<Val(V("b"))>>)),
   b3 |-> Set("u", CallOf("wipe", <<>>, <<V("u")>>)),
   b4 |-> Loop(Below("2"), <<Count, Let("v", <<>>, <<If(Below("2"), Val(V("i")), <<>>)>>), Set("u", V("v"))>>),
   b5 |-> Set("i", If(Bin(V("u"), "==", V("u")), Val(Num("1")), <<Val(Num("2"))>>)),
   b6 |-> Set("i", If(Is(V("w"), tP), Val(Num("1")), <<Val(Num("2"))>>)),
   b7 |-> Let("v", <<>>, <<CallOf("bump", <<>>, <<V("q")>>)>>),
   b8 |-> Do1(V("v")),
   b9 |-> Set("w", V("u")),
   b10 |-> Set("i", CallOf("none", <<>>, <<>>)),
   b11 |-> Set("u", CallOf("or", <<tOpt>>, <<None, V("u")>>)),
   b12 |-> Set("i", Num("4")),
   b13 |-> Set("i", CallOf("i", <<>>, <<Num("1")>>)),
   b14 |-> Do1(CallOf("nobody", <<>>, <<V("u")>>))]

Pool  == Good @@ Bad
Start ==
  <<Let("u", <<tOpt>>, <<None>>), Let("w", <<tSmall>>, <<None>>), Let("p", <<tMaybe>>, <<None>>),
    Let("q", <<>>, <<New("P", <<<<"n", Num("1")>>>>)>>),
    Let("s", <<>>, <<New("S", <<<<"b", Num("1")>>, <<"f", Num("3")>>, <<"g", None>>>>)>>),
    Let("i", <<>>, <<Num("0")>>), Let("b", <<tI8>>, <<Num("2")>>)>>
End   == <<New("Out", [k \in 1..7 |-> <<MCStructs["Out"][k][1], V(MCStructs["Out"][k][1])>>])>>

(* Functions that no program should have, unless it calls them.                            *)
Extra(stmts) == (IF "b3" \in stmts THEN {"wipe"} ELSE {}) \cup (IF "b10" \in stmts THEN {"none"} ELSE {})
Functions(chosen) ==
  [f \in {"main", "or", "flip", "bump", "wide", "swap"} \cup Extra(ToSet(chosen)) |->
     IF f = "main" THEN Fun(<<>>, <<>>, <<"Named", "Out">>, Body(Start \o [k \in DOMAIN chosen |-> Pool[chosen[k]]], End))
     ELSE Library[f]]

(* Each union gets a value first, or q a second name.                                  *)
Setups == {"a1", "a5", "a12", "a13"}
MCPrograms == [chosen \in {<<a, b, c>> : a \in Setups, b, c \in DOMAIN Pool} |-> Functions(chosen)]
===============================================================================
