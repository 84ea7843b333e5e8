------------------------------- MODULE MCSyntax -------------------------------
(***************************************************************************)
(* Syntax on three kinds of input: all short texts of characters that the lexer     *)
(* has a decision about, and one declaration with every layout; all short token sequences in the body of a function, of a     *)
(* struct and between items; and written trees: every expression of two operators of    *)
(* any kind inside one another and of three that have a level, every pair of           *)
(* statements, and an item of each kind.                                     *)
(***************************************************************************)
EXTENDS Syntax

Letters == {"i", "s", "n", "t", "y", "p", "e"}
Digits  == {"1"}
TextChars == {"i", "s", "n", "1", " ", "\n", ".", "<", "=", "/", "&", "\"", "\\", "'"}

(* "type" gap "s" gap "=" gap "i" gap "|" gap "n" gap ";"                              *)
Gaps == {<<>>, <<" ">>, <<"/", "/", "=", "\n">>}
Laid(g) == <<"t", "y", "p", "e">> \o g[1] \o <<"s">> \o g[2] \o <<"=">> \o g[3] \o <<"i">>
             \o g[4] \o <<"|">> \o g[5] \o <<"n">> \o g[6] \o <<";">>

-----------------------------------------------------------------------------
Tok(kind) == IF kind \in {"x", "i32"} THEN Id(kind)[1]
             ELSE IF kind = "1" THEN Lit(<<"Literal", "Int", "1">>)[1] ELSE T(kind)[1]

(* What short sequences are put between, of what, and how long they are.                *)
InBody   == <<"function", "x", "(", ")", "{">>
InStruct == <<"struct", "x", "{">>
Contexts ==
  {<<InBody, {"x", "1", "<", ">", "(", ")", ".", "as", "-", "{", "}", ";", ":"}, 4, <<"}">>>>,
   <<InBody, {"x", "<", ">", "(", ")", ","}, 6, <<"}">>>>,
   <<InBody, {"x", "1", "{", "}", ":", ";", "if"}, 5, <<"}">>>>,
   <<InStruct, {"x", ":", ",", "|", "i32", "function", "(", ")"}, 5, <<"}">>>>,
   <<<<>>, {"const", "type", "x", "=", ":", "-", "1", ";"}, 5, <<>>>>}

-----------------------------------------------------------------------------
Named(n)  == <<"Named", n, <<>>>>
I32       == <<"Primitive", "i32">>
Var(n)    == <<"Variable", n>>
One       == <<"Literal", "Int", "1">>
Gives(e)  == [statements |-> <<>>, returns |-> <<e>>]
Does(s)   == [statements |-> <<s>>, returns |-> <<>>]
Bin(l, op, r) == <<"BinaryOp", l, op, r>>

(* Every way an expression stands in another one: those with a level, and the rest.       *)
Ops == {"||", "&&", "==", "<", ">", "+", "-", "*"}
Leveled(e) ==
  {Bin(e, op, Var("y")) : op \in Ops} \cup {Bin(Var("y"), op, e) : op \in Ops}
    \cup {<<"UnaryOp", "-", e>>, <<"As", e, Named("A")>>, <<"Is", e, I32>>,
          <<"Member", e, "y">>, <<"Call", e, <<>>, <<Var("y")>>>>}
Other(e) ==
  {<<"Call", e, <<Named("A"), I32>>, <<>>>>, <<"Call", Var("y"), <<Named("A")>>, <<e, One>>>>,
   <<"LiteralList", <<e>>>>, <<"LiteralMap", <<<<One, e>>>>>>,
   <<"StructInit", <<"Named", "S", <<I32>>>>, <<<<"y", e>>>>>>,
   <<"If", e, Gives(Var("y")), <<>>>>, <<"If", e, EmptyBlock, <<Gives(One)>>>>,
   <<"If", Var("y"), Gives(e), <<Gives(<<"If", e, Gives(One), <<EmptyBlock>>>>)>>>>,
   <<"Block", Gives(e)>>, <<"Block", Does(<<"Expr", e>>)>>, <<"UnaryOp", "!", e>>,
   <<"As", e, <<"Union", <<Named("A"), <<"Named", "B", <<I32>>>>>>>>>>,
   <<"FunctionLiteral", <<>>, <<<<"y", I32, FALSE>>>>, I32, Gives(e)>>}

Atoms  == {Var("x"), One}
Both(e) == Leveled(e) \cup Other(e)

Heads == {Var("x"), <<"Literal", "true", "">>, <<"UnaryOp", "-", Var("x")>>, <<"Call", Var("x"), <<>>, <<>>>>,
          Bin(Bin(Var("x"), "||", Var("y")), "&&", <<"Is", Var("x"), Named("A")>>)}
Blocks == {EmptyBlock, Gives(Var("x")), Does(<<"Break">>), Does(<<"Expr", Var("x")>>)}
Statements ==
  {<<"VarDecl", "x", t, v>> : t \in {<<>>, <<I32>>}, v \in {<<>>, <<Var("y")>>}}
    \cup {<<"Return", <<>>>>, <<"Return", <<Var("x")>>>>, <<"Continue">>,
          <<"Assign", <<"Member", Var("x"), "y">>, One>>,
          <<"Expr", <<"Member", <<"Block", Gives(Var("x"))>>, "y">>>>,
          <<"Expr", Bin(Bin(Var("x"), "<", Var("y")), ">", Var("x"))>>,
          <<"Expr", <<"Call", <<"As", Bin(Var("x"), "+", One), Named("A")>>, <<>>, <<>>>>>>}
    \cup {<<"Expr", h>> : h \in Heads}
    \cup {<<"While", h, b>> : h \in Heads, b \in Blocks}
    \cup {<<"For", "x", Var("y"), b>> : b \in Blocks}
    \cup {<<"Expr", <<"If", h, b, e>>>> : h \in {Var("x"), One}, b \in Blocks, e \in {<<>>, <<EmptyBlock>>}}
Fn(name, extern, args, ret, body) == <<"FunctionDecl", name, extern, <<>>, args, ret, body>>
Types == {I32, Named("A"), <<"Primitive", "null">>, <<"Union", <<<<"Primitive", "null">>, Named("A")>>>>,
          <<"Named", "A", <<<<"Union", <<I32, Named("A")>>>>, <<"Named", "B", <<I32>>>>>>>>,
          <<"Function", <<>>, <<"Union", <<I32, Named("A")>>>>>>,
          <<"ExternFunction", <<<<"x", I32, TRUE>>, <<"y", Named("A"), FALSE>>>>, <<"Pointer", I32>>>>}
Generics == {<<>>, <<<<"G", <<>>>>>>, <<<<"G", <<Named("A"), <<"Named", "B", <<I32>>>>>>>>, <<"H", <<>>>>>>}
Members == {<<>>, <<Fn("f", FALSE, <<TRUE, <<>>>>, <<>>, <<>>), Fn("g", FALSE, <<FALSE, <<<<"x", I32, FALSE>>>>>>, <<I32>>, <<Gives(One)>>)>>}
Declarations ==
  {<<"TypeAlias", "x", g, t>> : g \in Generics, t \in Types}
    \cup {<<"Const", "x", I32, <<One, n>>>> : n \in BOOLEAN} \cup {<<"Const", "x", I32, <<<<"Literal", "true", "">>, FALSE>>>>}
    \cup {<<"Import", "m", s>> : s \in {<<"Glob">>, <<"Named", <<<<"x", <<"y">>>>, <<"y", <<>>>>>>>>}}
    \cup {<<v, "x", v = "Struct" /\ e, g, i, f, m>> :
            v \in {"Struct", "Interface"}, e \in BOOLEAN, g \in Generics, i \in {<<>>, <<Named("A"), Named("B")>>},
            f \in {<<>>, <<<<"x", I32, FALSE>>, <<"y", Named("A"), FALSE>>>>}, m \in Members}
    \cup {<<"Extend", Named("A"), g, i, m>> : g \in Generics, i \in {<<>>, <<Named("B")>>}, m \in Members}
    \cup {Fn("f", TRUE, <<FALSE, <<<<"x", I32, TRUE>>, <<"y", t, FALSE>>>>>>, <<<<"Pointer", I32>>>>, <<EmptyBlock>>) : t \in Types}

-----------------------------------------------------------------------------
FromBody(stmts, returns) ==
  FromTree(Fn("f", FALSE, <<FALSE, <<>>>>, <<>>, <<[statements |-> stmts, returns |-> returns]>>))

MCInit ==
  \/ \E n \in 1..4 : \E text \in [1..n -> TextChars] : FromText(text, <<>>)
  \/ \E g \in [1..6 -> Gaps] :
       /\ g[1] # <<>>
       /\ FromText(Laid(g), <<<<"TypeAlias", "s", <<>>, <<"Union", <<Named("i"), Named("n")>>>>>>>>)
  \/ \E c \in Contexts : \E n \in 0..c[3] : \E word \in [1..n -> c[2]] :
       LET kinds == c[1] \o word \o c[4] IN FromTokens([k \in DOMAIN kinds |-> Tok(kinds[k])])
  \/ \E item \in Declarations : FromTree(item)
  \/ \E a \in Atoms : \E e \in Both(a) : \E f \in Both(e) : FromBody(<<>>, <<f>>)
  \/ \E e \in Leveled(Var("x")) : \E f \in Leveled(e) : \E g \in Leveled(f) : FromBody(<<>>, <<g>>)
  \/ \E s, t \in Statements : FromBody(<<s, t>>, <<>>)
  \/ \E s \in Statements, h \in Heads : FromBody(<<s>>, <<h>>)

MCSpec == MCInit /\ [][SyntaxNext]_<<vars, meant>>
===============================================================================
