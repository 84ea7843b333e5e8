-------------------------------- MODULE Syntax --------------------------------
(***************************************************************************)
(* What the parser is for: a tree, written down with the parentheses its levels    *)
(* call for, is read back as that tree; and whatever is accepted is read in full.      *)
(* The writer knows nothing of how the parser looks ahead or goes back. The places     *)
(* where the language as implemented needs a parenthesis or a semicolon that the       *)
(* levels do not call for are the operators Guarded*, one for each.                *)
(***************************************************************************)
EXTENDS Parser

VARIABLE meant             (* the item that was written: <<>> or <<item>>             *)

T(kind)    == <<[kind |-> kind, text |-> "", position |-> 0]>>
Id(name)   == <<[kind |-> "Identifier", text |-> name, position |-> 0]>>
Lit(l)     == <<[kind |-> l[2], text |-> l[3], position |-> 0]>>
Concat(ss) == FlattenSeq(ss)
Sep(sep, ss) == FoldLeft(LAMBDA all, s : IF all = <<>> THEN s ELSE all \o T(sep) \o s, <<>>, ss)
In(open, ts, close) == T(open) \o ts \o T(close)
Paren(ts)  == In("(", ts, ")")
If(c, s)   == IF c THEN s ELSE <<>>

(* What is written calls on what it is made of; every such call is of Write, with what it is   *)
(* (for an expression, also the loosest level that needs no parentheses).                  *)
RECURSIVE Write(_, _)
WType(t)     == Write(<<"type">>, t)
WExpr(e, l)  == Write(<<"expr", l>>, e)
WBlock(b)    == Write(<<"block">>, b)
All(p, xs)   == [k \in DOMAIN xs |-> Write(p, xs[k])]
Maybe(before, opt, p) == IF opt = <<>> THEN <<>> ELSE T(before) \o Write(p, opt[1])

-----------------------------------------------------------------------------
TypeList(ts) == Sep(",", All(<<"type">>, ts))
Angles(ts)   == If(ts # <<>>, In("<", TypeList(ts), ">"))
WriteType(t) ==
  CASE t[1] = "Primitive"      -> IF t[2] = "null" THEN T("null") ELSE Id(t[2])
    [] t[1] = "Named"          -> Id(t[2]) \o Angles(t[3])
    [] t[1] = "Pointer"        -> T("*") \o WType(t[2])
    [] t[1] = "Union"          -> Sep("|", All(<<"type">>, t[2]))
    [] t[1] = "Function"       -> Paren(TypeList(t[2])) \o T("-") \o T(">") \o WType(t[3])
    [] t[1] = "ExternFunction" -> T("extern") \o Paren(Sep(",", All(<<"param">>, t[2]))) \o T("=>") \o WType(t[3])

WriteParam(p)   == Id(p[1]) \o T(":") \o If(p[3], T("*")) \o WType(p[2])
Bounds(ts)      == If(ts # <<>>, T(":") \o Sep("+", All(<<"type">>, ts)))
WriteGeneric(g) == Id(g[1]) \o Bounds(g[2])
WGenerics(gs)   == If(gs # <<>>, In("<", Sep(",", All(<<"generic">>, gs)), ">"))
WParams(a)      == Paren(Sep(",", If(a[1], <<T("self")>>) \o All(<<"param">>, a[2])))

-----------------------------------------------------------------------------
(* From the loosest to the tightest; operators of a level group to the left.          *)
Levels == <<{"||"}, {"&&"}, {"==", "!="}, {"<", "<=", ">", ">="}, {"+", "-"}, {"*", "/", "%"}>>
Unary  == 7
Chain  == 8
LevelOf(op) == CHOOSE l \in DOMAIN Levels : op \in Levels[l]
Level(e) ==
  CASE e[1] = "BinaryOp" -> LevelOf(e[3])
    [] e[1] = "UnaryOp"  -> Unary
    [] e[1] \in {"As", "Is", "Member", "Call"} -> Chain
    [] OTHER -> 9

(* `x as T < y`: what follows a type's name is taken for its arguments.                *)
RECURSIVE EndsInTypeName(_)
EndsInTypeName(e) ==
  CASE e[1] \in {"As", "Is"} -> LET t == IF e[3][1] = "Union" THEN e[3][2][Len(e[3][2])] ELSE e[3] IN
                                t[1] # "Primitive" /\ ~ (t[1] = "Named" /\ t[3] # <<>>)
    [] e[1] \in {"BinaryOp", "UnaryOp"} -> EndsInTypeName(e[Len(e)])
    [] OTHER                            -> FALSE

(* `x < y > (z)`, also with a comma in it, is a call of x.                           *)
GuardedLeft(op, l) ==
  \/ op = "<" /\ EndsInTypeName(l)
  \/ op = ">" /\ l[1] = "BinaryOp" /\ l[3] = "<"
GuardedCallee(type_args, f) == type_args # <<>> /\ EndsInTypeName(f)
GuardedList(es) == Sep(",", All(<<"expr", IF Len(es) > 1 THEN 5 ELSE 1>>, es))

(* `if x {}` makes a struct x; `while (x) && y` ends its condition at the parenthesis.    *)
GuardedHead(ts, body)  == IF body = EmptyBlock THEN Paren(ts) ELSE ts
GuardedWhile(ts, body) == IF body = EmptyBlock \/ ts[1].kind = "(" THEN Paren(ts) ELSE ts

WriteElse(b) ==
  IF b.statements = <<>> /\ b.returns # <<>> /\ b.returns[1][1] = "If"
  THEN WExpr(b.returns[1], 1) ELSE WBlock(b)

WriteExpr(e) ==
  CASE e[1] = "Literal"     -> Lit(e)
    [] e[1] = "Variable"    -> Id(e[2])
    [] e[1] = "SelfRef"     -> T("self")
    [] e[1] = "UnaryOp"     -> T(e[2]) \o WExpr(e[3], Unary)
    [] e[1] = "BinaryOp"    -> WExpr(e[2], IF GuardedLeft(e[3], e[2]) THEN 9 ELSE LevelOf(e[3]))
                                 \o T(e[3]) \o WExpr(e[4], LevelOf(e[3]) + 1)
    [] e[1] = "As"          -> WExpr(e[2], Chain) \o T("as") \o WType(e[3])
    [] e[1] = "Is"          -> WExpr(e[2], Chain) \o T("is") \o WType(e[3])
    [] e[1] = "Member"      -> WExpr(e[2], Chain) \o T(".") \o Id(e[3])
    [] e[1] = "Call"        -> WExpr(e[2], IF GuardedCallee(e[3], e[2]) THEN 9 ELSE Chain)
                                 \o Angles(e[3]) \o Paren(GuardedList(e[4]))
    [] e[1] = "LiteralList" -> In("[", GuardedList(e[2]), "]")
    [] e[1] = "LiteralMap"  -> In("{", Sep(",", All(<<"pair">>, e[2])), "}")
    [] e[1] = "StructInit"  -> WType(e[2]) \o In("{", Sep(",", All(<<"entry">>, e[3])), "}")
    [] e[1] = "If"          -> T("if") \o GuardedHead(WExpr(e[2], 1), e[3])
                                 \o WBlock(e[3]) \o Maybe("else", e[4], <<"else">>)
    [] e[1] = "Block"       -> WBlock(e[2])
    [] e[1] = "FunctionLiteral" ->
         T("function") \o WGenerics(e[2]) \o WParams(<<FALSE, e[3]>>) \o T(":") \o WType(e[4]) \o WBlock(e[5])

WriteStatement(s) ==
  CASE s[1] = "VarDecl"  -> T("var") \o Id(s[2]) \o Maybe(":", s[3], <<"type">>) \o Maybe("=", s[4], <<"expr", 1>>)
    [] s[1] = "Return"   -> T("return") \o If(s[2] # <<>>, WExpr(s[2][1], 1))
    [] s[1] = "While"    -> T("while") \o GuardedWhile(WExpr(s[2], 1), s[3]) \o WBlock(s[3])
    [] s[1] = "For"      -> T("for") \o GuardedHead(Id(s[2]) \o T("in") \o WExpr(s[3], 1), s[4]) \o WBlock(s[4])
    [] s[1] = "Break"    -> T("break")
    [] s[1] = "Continue" -> T("continue")
    [] s[1] = "Expr"     -> WExpr(s[2], 1)
    [] s[1] = "Assign"   -> WExpr(s[2], 1) \o T("=") \o WExpr(s[3], 1)

(* A statement that ends in a block needs no semicolon, except that an `if` or a block that  *)
(* is a statement would take what follows into an expression, were that `(` or `-`; and that  *)
(* last in a block it would be the block's value.                                    *)
GuardedEnd(s, rest) ==
  IF \/ s[1] \in {"While", "For"}
     \/ s[1] = "Expr" /\ s[2][1] \in {"If", "Block"} /\ rest # <<>> /\ rest[1].kind \notin {"(", "-"}
  THEN <<>> ELSE T(";")

WriteBlock(b) ==
  LET Before(s, rest) == Write(<<"statement">>, s) \o GuardedEnd(s, rest) \o rest
  IN  In("{", FoldRight(Before, b.statements, If(b.returns # <<>>, WExpr(b.returns[1], 1))), "}")

-----------------------------------------------------------------------------
WriteFunction(f) ==
  T("function") \o Id(f[2]) \o WGenerics(f[4]) \o WParams(f[5]) \o Maybe(":", f[6], <<"type">>)
    \o (IF f[7] = <<>> THEN T(",") ELSE WBlock(f[7][1]))

WBody(fields, methods) ==
  In("{", Concat(All(<<"field">>, fields)) \o Concat(All(<<"function">>, methods)), "}")
WStruct(x) == Id(x[2]) \o WGenerics(x[4]) \o Bounds(x[5]) \o WBody(x[6], x[7])
WSymbols(s) == IF s[1] = "Glob" THEN <<>> ELSE In("{", Sep(",", All(<<"symbol">>, s[2])), "}") \o T("from")

WriteItem(x) ==
  CASE x[1] = "Import"       -> T("import") \o WSymbols(x[3]) \o Lit(<<"Literal", "StringLit", x[2]>>) \o T(";")
    [] x[1] = "TypeAlias"    -> T("type") \o Id(x[2]) \o WGenerics(x[3]) \o T("=") \o WType(x[4]) \o T(";")
    [] x[1] = "Const"        -> T("const") \o Id(x[2]) \o T(":") \o WType(x[3]) \o T("=")
                                  \o If(x[4][2], T("-")) \o Lit(x[4][1]) \o T(";")
    [] x[1] = "Struct"       -> If(x[3], T("extern")) \o T("struct") \o WStruct(x)
    [] x[1] = "Interface"    -> T("interface") \o WStruct(x)
    [] x[1] = "FunctionDecl" -> If(x[3], T("extern")) \o WriteFunction(x)
    [] x[1] = "Extend"       -> T("extend") \o WGenerics(x[3]) \o WType(x[2]) \o Bounds(x[4]) \o WBody(<<>>, x[5])

Write(p, x) ==
  CASE p[1] = "type"      -> WriteType(x)
    [] p[1] = "param"     -> WriteParam(x)
    [] p[1] = "field"     -> WriteParam(x) \o T(",")
    [] p[1] = "generic"   -> WriteGeneric(x)
    [] p[1] = "expr"      -> IF Level(x) < p[2] THEN Paren(WriteExpr(x)) ELSE WriteExpr(x)
    [] p[1] = "pair"      -> Lit(x[1]) \o T(":") \o WExpr(x[2], 5)
    [] p[1] = "entry"     -> Id(x[1]) \o T(":") \o WExpr(x[2], 5)
    [] p[1] = "else"      -> WriteElse(x)
    [] p[1] = "block"     -> WriteBlock(x)
    [] p[1] = "statement" -> WriteStatement(x)
    [] p[1] = "function"  -> WriteFunction(x)
    [] p[1] = "symbol"    -> Id(x[1]) \o Maybe("as", x[2], <<"name">>)
    [] p[1] = "name"      -> Id(x)
    [] p[1] = "item"      -> WriteItem(x)
WItem(x) == Write(<<"item">>, x)

-----------------------------------------------------------------------------
FromText(text, items_meant) == meant = items_meant /\ Begin(text, <<>>)
FromTokens(ts) == meant = <<>> /\ Begin(<<>>, ts)
FromTree(item) == meant = <<item>> /\ Begin(<<>>, WItem(item))

SyntaxNext == Next /\ UNCHANGED meant

-----------------------------------------------------------------------------
(* An item that is written down is read back as it was meant, wherever it has operators      *)
(* next to one another, calls, casts, conditions, blocks, literals with braces and omitted     *)
(* semicolons (parse_expr_bp, parse_prefix, parse_block and the lookaheads of parser.rs).      *)
ReadAsMeant ==
  /\ stage = "done" /\ meant # <<>> => items = meant
  /\ stage = "failed" => meant = <<>>

(* The tokens that a tree does not keep: brackets and separators, and angle brackets that      *)
(* hold nothing.                                                              *)
Kept(ts) ==
  LET Kind(k) == IF k \in DOMAIN ts THEN ts[k].kind ELSE "EOF"
      keeps(k) == /\ Kind(k) \notin {"(", ")", "{", "}", ",", ";"}
                  /\ ~ (Kind(k) = "<" /\ Kind(k + 1) = ">") /\ ~ (Kind(k) = ">" /\ Kind(k - 1) = "<")
  IN  FoldLeft(LAMBDA all, k : IF keeps(k) THEN Append(all, <<ts[k].kind, ts[k].text>>) ELSE all,
               <<>>, [k \in DOMAIN ts |-> k])

(* Whatever tokens are accepted, the items hold every one of them once and in its order: no     *)
(* attempt that is given up (type arguments of a call or of a struct, the brace that may be a   *)
(* map) loses a token, takes one twice or leaves one out.                             *)
NothingLost == stage = "done" => Kept(Concat(All(<<"item">>, items))) = Kept(tokens)

(* What stands between the ends of two tokens, read by itself, is that token: no token needs a   *)
(* character that is not its own or leaves one of its own behind (next_token's lookahead, the      *)
(* scan_ functions and the `position` they record).                                 *)
TokensStandAlone ==
  \A k \in DOMAIN tokens : input # <<>> =>
    LET from  == IF k = 1 THEN 1 ELSE tokens[k - 1].position + 1
        piece == SubSeq(input, from, tokens[k].position)
        RECURSIVE Scan(_)      \* the first token that is not a comment
        Scan(p) == LET n == next_token(piece, p) IN IF n.token.kind = "Comment" THEN Scan(n.at) ELSE n
        next  == Scan(1)
    IN  /\ next.token.kind = tokens[k].kind /\ next.token.text = tokens[k].text
        /\ next.at = Len(piece) + 1
===============================================================================
