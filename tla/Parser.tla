-------------------------------- MODULE Parser --------------------------------
(***************************************************************************)
(* From tokens to items (parser.rs) after the tokens themselves (scan_all): a     *)
(* recursive-descent parser with precedence climbing and three places where it     *)
(* looks ahead or tries and goes back.                                        *)
(* Trees are tuples that start with the name of their variant in ast.rs; an        *)
(* Option is a sequence of at most one element; a block is a record. A parse        *)
(* function takes a cursor and returns one: `at` is the current token, `val` the      *)
(* tree just read, and once a token is unexpected `ok` is FALSE, `at` stays on that     *)
(* token and nothing that follows reads on (the operator ?).                                                       *)
(***************************************************************************)
EXTENDS Lexer

VARIABLES
  input,     (* the text                                                      *)
  position,  (* characters scanned                                            *)
  tokens,
  current,   (* index of the current token                                   *)
  items,
  stage      (* "lexing", "parsing", "done", "failed"                            *)

vars == <<input, position, tokens, current, items, stage>>

-----------------------------------------------------------------------------
(* The parser's hold on the tokens (peek, advance, expect, expect_optional,           *)
(* expect_identifier); scan_all leaves no comments for advance to pass over.         *)
peek(r)    == CASE ~r.ok -> "unexpected" [] r.at \in DOMAIN tokens -> tokens[r.at].kind [] OTHER -> "EOF"
lexeme(r)  == tokens[r.at].text
advance(r) == IF r.ok /\ r.at \in DOMAIN tokens THEN [r EXCEPT !.at = @ + 1] ELSE r

At(i)                == [ok |-> TRUE, at |-> i, val |-> <<>>]
Got(r, v)            == [r EXCEPT !.val = v]
Unexpected(r)        == [r EXCEPT !.ok = FALSE, !.val = <<>>]
expect(kind, r)      == IF peek(r) = kind THEN advance(r) ELSE Unexpected(r)
expect_identifier(r) == IF peek(r) = "Identifier" THEN Got(advance(r), lexeme(r)) ELSE Unexpected(r)

(* The productions call one another: each is an operator of its own below, and every call   *)
(* is of parse with the production's name (and, for an expression, its binding power).    *)
RECURSIVE parse(_, _)
Type(r)     == parse(<<"type_expr">>, r)
TypeArgs(r) == parse(<<"type_args">>, r)
Expr(r)     == parse(<<"expr_bp", 0>>, r)
Block(r)    == parse(<<"block">>, r)

(* After an optional token, one p; without it, nothing.                          *)
Optional(kind, r, p) ==
  IF peek(r) # kind THEN Got(r, <<>>) ELSE LET q == parse(p, advance(r)) IN Got(q, <<q.val>>)

(* One p and, after each sep, one more; `stop` after a sep ends the list too.           *)
Separated(sep, stop, r, p) ==
  LET RECURSIVE More(_, _)
      More(q, vs) ==
        IF peek(q) # sep THEN Got(q, vs)
        ELSE IF peek(advance(q)) = stop THEN Got(advance(q), vs)
        ELSE LET n == parse(p, advance(q)) IN More(n, Append(vs, n.val))
      first == parse(p, r)
  IN  More(first, <<first.val>>)

(* The same between brackets, or nothing between them; the first with a trailing comma. *)
Listed(close, r, p) == IF peek(r) = close THEN Got(r, <<>>) ELSE Separated(",", close, r, p)
Commas(close, r, p) == IF peek(r) = close THEN Got(r, <<>>) ELSE Separated(",", "none", r, p)
Bracketed(open, close, r, p) == LET list == Commas(close, expect(open, r), p) IN expect(close, list)

-----------------------------------------------------------------------------
(* Types.                                                                    *)
Primitives == {"i8", "i16", "i32", "i64", "u8", "u16", "u32", "u64", "f32", "f64", "str",
               "char", "bool", "null", "void"}
parse_optional_primitive(name) == IF name = "void" THEN "null" ELSE name

Pipes(r, atom) ==
  LET ts == Separated("|", "none", r, atom) IN Got(ts, IF Len(ts.val) = 1 THEN ts.val[1] ELSE <<"Union", ts.val>>)
parse_type_expr(r)        == Pipes(r, <<"type_atom">>)
parse_extern_type_expr(r) == Pipes(r, <<"extern_type_atom">>)

parse_extern_type_atom(r) ==
  IF peek(r) # "*" THEN parse(<<"type_atom">>, r)
  ELSE LET t == parse(<<"type_atom">>, advance(r)) IN Got(t, <<"Pointer", t.val>>)

(* name: type, with * before the type for a pointer where that is allowed.                 *)
Typed(r, star, p) ==
  LET name    == expect_identifier(r)
      colon   == expect(":", name)
      pointer == star /\ peek(colon) = "*"
      ty      == IF pointer THEN Type(advance(colon)) ELSE parse(p, colon)
  IN  Got(ty, <<name.val, ty.val, pointer>>)
parse_extern_fn_type_param(r) == Typed(r, TRUE, <<"type_expr">>)
parse_field(r, in_extern) == Typed(r, in_extern, IF in_extern THEN <<"extern_type_expr">> ELSE <<"type_expr">>)
parse_param_decl(r, in_extern) == parse_field(r, in_extern)

parse_type_atom(r) ==
  LET args   == TypeArgs(advance(r))
      params == IF peek(r) = "extern" THEN Bracketed("(", ")", advance(r), <<"extern_fn_type_param">>)
                ELSE Bracketed("(", ")", r, <<"type_expr">>)
      ret    == IF peek(r) = "extern" THEN parse(<<"extern_type_expr">>, expect("=>", params))
                ELSE Type(expect(">", expect("-", params)))
  IN
  CASE peek(r) = "Identifier" /\ lexeme(r) \in Primitives ->
         Got(advance(r), <<"Primitive", parse_optional_primitive(lexeme(r))>>)
    [] peek(r) = "Identifier" /\ lexeme(r) \notin Primitives -> Got(args, <<"Named", lexeme(r), args.val>>)
    [] peek(r) = "null"   -> Got(advance(r), <<"Primitive", "null">>)
    [] peek(r) = "extern" -> Got(ret, <<"ExternFunction", params.val, ret.val>>)
    [] peek(r) = "("      -> Got(ret, <<"Function", params.val, ret.val>>)
    [] OTHER              -> Unexpected(r)

parse_type_args(r) == IF peek(r) # "<" THEN Got(r, <<>>) ELSE Bracketed("<", ">", r, <<"type_expr">>)

(* Arguments of a generic call, or not ok: then nothing has been consumed.               *)
try_parse_type_args_for_call(r) ==
  LET args == TypeArgs(r) IN IF args.ok /\ args.val # <<>> /\ peek(args) = "(" THEN args ELSE Unexpected(r)

parse_generic_param(r) ==
  LET name   == expect_identifier(r)
      bounds == IF peek(name) = ":" THEN Separated("+", "none", advance(name), <<"type_atom">>) ELSE Got(name, <<>>)
  IN  Got(bounds, <<name.val, bounds.val>>)

parse_generic_params(r) ==
  IF peek(r) # "<" THEN Got(r, <<>>) ELSE Bracketed("<", ">", r, <<"generic_param">>)

parse_implements(r) ==
  IF peek(r) # ":" THEN Got(r, <<>>) ELSE Separated("+", "none", advance(r), <<"type_expr">>)

-----------------------------------------------------------------------------
(* Expressions. min is the least binding power an operator must have to be taken.        *)
infix_precedence(op) ==
  CASE op = "||"                     -> 1
    [] op = "&&"                     -> 2
    [] op \in {"==", "!="}           -> 3
    [] op \in {"<", "<=", ">", ">="} -> 4
    [] op \in {"+", "-"}             -> 5
    [] op \in {"*", "/", "%"}        -> 6
BinaryOperators == {"||", "&&", "==", "!=", "<", "<=", ">", ">=", "+", "-", "*", "/", "%"}
Prefix  == 13
Postfix == 15

parse_call_args(callee, type_args, r) ==
  LET args == Bracketed("(", ")", r, <<"expr_bp", 0>>) IN Got(args, <<"Call", callee, type_args, args.val>>)

(* The loop of parse_expr_bp: what follows lhs is taken into it as long as it binds.        *)
RECURSIVE Extend(_, _)
Extend(min, r) ==
  LET op     == peek(r)
      lhs    == r.val
      typed  == try_parse_type_args_for_call(r)
      member == expect_identifier(advance(r))
      ty     == Type(advance(r))
      rhs    == parse(<<"expr_bp", infix_precedence(op) + 1>>, advance(r))
      longer ==
        CASE op = "." -> Got(member, <<"Member", lhs, member.val>>)
          [] op = "(" -> parse_call_args(lhs, <<>>, r)
          [] op = "<" /\ typed.ok -> parse_call_args(lhs, typed.val, typed)
          [] op \in {"as", "is"} /\ Postfix >= min -> Got(ty, <<IF op = "as" THEN "As" ELSE "Is", lhs, ty.val>>)
          [] op \in BinaryOperators /\ ~ (op = "<" /\ typed.ok) /\ infix_precedence(op) >= min ->
               Got(rhs, <<"BinaryOp", lhs, op, rhs.val>>)
          [] OTHER -> r
  IN  IF longer.at = r.at THEN longer ELSE Extend(min, longer)

(* Literals: kinds of token that are expressions by themselves.                    *)
Literals == {"Int", "Float", "StringLit", "CharLit", "true", "false", "null"}
Literal(r) == <<"Literal", peek(r), lexeme(r)>>

(* Fault: without the look at the colon.                                          *)
AnyNamedBody(r) == peek(r) = "{" /\ peek(advance(r)) \in {"}", "Identifier"}

(* Two tokens ahead: `{}` or `{ name :` makes a struct of the name before it.             *)
peek_is_struct_init_body(r) ==
  /\ peek(r) = "{"
  /\ \/ peek(advance(r)) = "}"
     \/ peek(advance(r)) = "Identifier" /\ peek(advance(advance(r))) = ":"

FieldInit(r) ==
  LET name == expect_identifier(r)  value == Expr(expect(":", name)) IN Got(value, <<name.val, value.val>>)

parse_struct_init_body(ty, r) ==
  LET fields == Listed("}", expect("{", r), <<"field_init">>)
  IN  Got(expect("}", fields), <<"StructInit", ty, fields.val>>)

(* Fault: type arguments that no struct follows are not given back.                     *)
NameKeepingArgs(r) ==
  LET args  == TypeArgs(advance(r))
      after == IF args.ok THEN args ELSE advance(r)
  IN  IF peek_is_struct_init_body(after)
      THEN parse_struct_init_body(<<"Named", lexeme(r), IF args.ok THEN args.val ELSE <<>>>>, after)
      ELSE Got(after, <<"Variable", lexeme(r)>>)

(* A name: with a struct's fields after it and its type arguments, or by itself.            *)
Name(r) ==
  LET args  == TypeArgs(advance(r))
      after == IF args.ok THEN args ELSE advance(r)
  IN  IF peek_is_struct_init_body(after)
      THEN parse_struct_init_body(<<"Named", lexeme(r), IF args.ok THEN args.val ELSE <<>>>>, after)
      ELSE Got(IF args.ok /\ args.val = <<>> THEN after ELSE advance(r), <<"Variable", lexeme(r)>>)

parse_optional_has_self_param(r) ==
  LET next == advance(r) IN
  CASE peek(r) # "self"                        -> Got(r, FALSE)
    [] peek(r) = "self" /\ peek(next) = ","    -> Got(advance(next), TRUE)
    [] peek(r) = "self" /\ peek(next) = ")"    -> Got(next, TRUE)
    [] OTHER                                   -> Unexpected(next)

parse_function_args(r, in_extern) ==
  LET has_self == parse_optional_has_self_param(expect("(", r))
      params   == Commas(")", has_self, <<"param_decl", in_extern>>)
  IN  Got(expect(")", params), <<has_self.val, params.val>>)

parse_function_literal(r) ==
  LET generics == parse_generic_params(expect("function", r))
      args     == parse_function_args(generics, FALSE)
      ret      == Type(expect(":", args))
      body     == Block(ret)
  IN  Got(body, <<"FunctionLiteral", generics.val, args.val[2], ret.val, body.val>>)

parse_list_literal(r) ==
  LET es == Listed("]", expect("[", r), <<"expr_bp", 0>>) IN Got(expect("]", es), <<"LiteralList", es.val>>)

(* The else branch: a block, of just the next `if` where one follows.                    *)
Else(r) ==
  LET nested == parse(<<"if_expr">>, r) IN
  IF peek(r) # "if" THEN Block(r) ELSE Got(nested, [statements |-> <<>>, returns |-> <<nested.val>>])

parse_if_expr(r) ==
  LET cond == Expr(expect("if", r))
      then == Block(cond)
      else == Optional("else", then, <<"else">>)
  IN  Got(else, <<"If", cond.val, then.val, else.val>>)

(* A brace: an empty map, a map when a literal and a colon follow, else a block.           *)
MapKeys == {"StringLit", "Int", "Float", "CharLit"}
check_is_map(r) == peek(r) \in MapKeys /\ peek(advance(r)) = ":"

MapEntry(r) ==
  LET value == Expr(expect(":", advance(r))) IN
  IF peek(r) \in MapKeys THEN Got(value, <<Literal(r), value.val>>) ELSE Unexpected(r)

parse_map_literal(r) ==
  LET entries == Separated(",", "}", r, <<"map_entry">>) IN Got(expect("}", entries), <<"LiteralMap", entries.val>>)

parse_block_or_map(r) ==
  LET inside == advance(r)  block == Block(r) IN
  CASE peek(inside) = "}"   -> Got(advance(inside), <<"LiteralMap", <<>>>>)
    [] check_is_map(inside) -> parse_map_literal(inside)
    [] OTHER                -> Got(block, <<"Block", block.val>>)

parse_paren_or_fn_literal(r) == expect(")", Expr(expect("(", r)))

parse_prefix(r) ==
  LET kind == peek(r)  operand == parse(<<"expr_bp", Prefix>>, advance(r)) IN
  CASE kind \in {"-", "!"}  -> Got(operand, <<"UnaryOp", kind, operand.val>>)
    [] kind \in Literals    -> Got(advance(r), Literal(r))
    [] kind = "("           -> parse_paren_or_fn_literal(r)
    [] kind = "["           -> parse_list_literal(r)
    [] kind = "{"           -> parse_block_or_map(r)
    [] kind = "Identifier"  -> Name(r)
    [] kind = "self"        -> Got(advance(r), <<"SelfRef">>)
    [] kind = "if"          -> parse_if_expr(r)
    [] kind = "function"    -> parse_function_literal(r)
    [] OTHER                -> Unexpected(r)

parse_expr_bp(min, r) == Extend(min, parse_prefix(r))

-----------------------------------------------------------------------------
(* Statements and blocks.                                                      *)
VarDecl(r) ==
  LET name  == expect_identifier(r)
      ty    == Optional(":", name, <<"type_expr">>)
      value == Optional("=", ty, <<"expr_bp", 0>>)
  IN  Got(value, <<"VarDecl", name.val, ty.val, value.val>>)

Return(r) ==
  LET e == Expr(r) IN
  IF peek(r) \in {";", "}"} THEN Got(r, <<"Return", <<>>>>) ELSE Got(e, <<"Return", <<e.val>>>>)

(* A loop's head, with or without parentheses around it, and its body.                 *)
OpenHead(r)       == IF peek(r) = "(" THEN advance(r) ELSE r
LoopBody(r, head) == Block(IF peek(r) = "(" THEN expect(")", head) ELSE head)

While(r) ==
  LET cond == Expr(OpenHead(r))  body == LoopBody(r, cond) IN Got(body, <<"While", cond.val, body.val>>)

For(r) ==
  LET name     == expect_identifier(OpenHead(r))
      iterable == Expr(expect("in", name))
      body     == LoopBody(r, iterable)
  IN  Got(body, <<"For", name.val, iterable.val, body.val>>)

ExprOrAssign(r) ==
  LET e == Expr(r)  value == Optional("=", e, <<"expr_bp", 0>>) IN
  Got(value, IF value.val = <<>> THEN <<"Expr", e.val>> ELSE <<"Assign", e.val, value.val[1]>>)

parse_statement(r) ==
  CASE peek(r) = "var"      -> VarDecl(advance(r))
    [] peek(r) = "return"   -> Return(advance(r))
    [] peek(r) = "while"    -> While(advance(r))
    [] peek(r) = "for"      -> For(advance(r))
    [] peek(r) = "break"    -> Got(advance(r), <<"Break">>)
    [] peek(r) = "continue" -> Got(advance(r), <<"Continue">>)
    [] OTHER                -> ExprOrAssign(r)

stmt_allows_no_semicolon(stmt) ==
  \/ stmt[1] \in {"While", "For"}
  \/ stmt[1] = "Expr" /\ stmt[2][1] \in {"If", "Block"}

EmptyBlock == [statements |-> <<>>, returns |-> <<>>]

(* `;` alone is an empty block. In braces, an expression with no `;` after it that ends    *)
(* the block is its value; other statements need their `;`, unless they end in a block.   *)
parse_block(r) ==
  LET RECURSIVE Rest(_, _)
      Rest(q, stmts) ==
        LET n    == parse(<<"statement">>, q)
            stmt == n.val
            all  == Append(stmts, stmt)
        IN
        CASE peek(q) = "}" -> Got(advance(q), [statements |-> stmts, returns |-> <<>>])
          [] peek(q) # "}" /\ peek(n) = ";" -> Rest(advance(n), all)
          [] peek(q) # "}" /\ peek(n) = "}" ->
               Got(advance(n), IF stmt[1] = "Expr" THEN [statements |-> stmts, returns |-> <<stmt[2]>>]
                               ELSE [statements |-> all, returns |-> <<>>])
          [] peek(q) # "}" /\ peek(n) \notin {";", "}"} /\ n.ok /\ stmt_allows_no_semicolon(stmt) -> Rest(n, all)
          [] OTHER -> Unexpected(n)
  IN  IF peek(r) = ";" THEN Got(advance(r), EmptyBlock) ELSE Rest(expect("{", r), <<>>)

-----------------------------------------------------------------------------
(* Items.                                                                    *)
parse_return_type(in_extern) == IF in_extern THEN <<"extern_type_expr">> ELSE <<"type_expr">>

(* No body when a comma, which is consumed, or the end of the enclosing body follows.       *)
parse_function_decl(r, is_extern) ==
  LET name     == expect_identifier(expect("function", r))
      generics == parse_generic_params(name)
      args     == parse_function_args(generics, is_extern)
      ret      == Optional(":", args, parse_return_type(is_extern))
      body     == CASE peek(ret) = "," -> Got(advance(ret), <<>>)
                    [] peek(ret) = "}" -> Got(ret, <<>>)
                    [] OTHER           -> LET b == Block(ret) IN Got(b, <<b.val>>)
  IN  Got(body, <<"FunctionDecl", name.val, is_extern, generics.val, args.val, ret.val, body.val>>)

(* Fields and methods up to the closing brace. The code means to refuse two commas in a    *)
(* row, but never sets the flag it tests for that (found_comma).                       *)
parse_struct_body(r, in_extern) ==
  LET RECURSIVE Members(_, _, _)
      Members(q, fields, methods) ==
        LET field == parse_field(q, in_extern)  method == parse(<<"function_decl">>, q) IN
        CASE peek(q) = "Identifier" -> Members(field, Append(fields, field.val), methods)
          [] peek(q) = "function"   -> Members(method, fields, Append(methods, method.val))
          [] peek(q) = "}"          -> Got(advance(q), <<fields, methods>>)
          [] peek(q) = ","          -> Members(advance(q), fields, methods)
          [] OTHER                  -> Unexpected(q)
  IN  Members(expect("{", r), <<>>, <<>>)

parse_extend_body(r) ==
  LET RECURSIVE Methods(_, _)
      Methods(q, methods) ==
        LET method == parse(<<"function_decl">>, q) IN
        CASE peek(q) = "function" -> Methods(method, Append(methods, method.val))
          [] peek(q) = "}"        -> Got(advance(q), methods)
          [] OTHER                -> Unexpected(q)
  IN  Methods(expect("{", r), <<>>)

(* struct and interface: the same but for the keyword.                               *)
StructLike(keyword, variant, r, is_extern) ==
  LET name       == expect_identifier(expect(keyword, r))
      generics   == parse_generic_params(name)
      implements == parse_implements(generics)
      body       == parse_struct_body(implements, is_extern)
  IN  Got(body, <<variant, name.val, is_extern, generics.val, implements.val>> \o body.val)
parse_struct_decl(r, is_extern) == StructLike("struct", "Struct", r, is_extern)
parse_interface_decl(r)         == StructLike("interface", "Interface", r, FALSE)

parse_extend_decl(r) ==
  LET generics   == parse_generic_params(expect("extend", r))
      name       == expect_identifier(generics)
      args       == TypeArgs(name)
      implements == parse_implements(args)
      methods    == parse_extend_body(implements)
  IN  Got(methods, <<"Extend", <<"Named", name.val, args.val>>, generics.val, implements.val, methods.val>>)

parse_type_decl(r) ==
  LET name     == expect_identifier(expect("type", r))
      generics == parse_generic_params(name)
      ty       == Type(expect("=", generics))
  IN  Got(expect(";", ty), <<"TypeAlias", name.val, generics.val, ty.val>>)

(* A literal, negative only if it is a number.                                     *)
parse_const_literal(r) ==
  LET negate == peek(r) = "-"  n == IF negate THEN advance(r) ELSE r IN
  IF peek(n) \in {"Int", "Float"} \/ (peek(n) \in Literals /\ ~negate)
  THEN Got(advance(n), <<Literal(n), negate>>) ELSE Unexpected(n)

parse_const_decl(r) ==
  LET name  == expect_identifier(expect("const", r))
      ty    == Type(expect(":", name))
      value == parse_const_literal(expect("=", ty))
  IN  Got(expect(";", value), <<"Const", name.val, ty.val, value.val>>)

ImportSymbol(r) ==
  LET name == expect_identifier(r)  alias == Optional("as", name, <<"identifier">>) IN
  Got(alias, <<name.val, alias.val>>)

ModuleName(r, symbols) ==
  IF peek(r) # "StringLit" THEN Unexpected(r) ELSE Got(expect(";", advance(r)), <<"Import", lexeme(r), symbols>>)

parse_import_decl(r) ==
  LET after   == expect("import", r)
      symbols == Listed("}", expect("{", after), <<"import_symbol">>)
  IN  IF peek(after) = "StringLit" THEN ModuleName(after, <<"Glob">>)
      ELSE ModuleName(expect("from", expect("}", symbols)), <<"Named", symbols.val>>)

parse_item(r) ==
  CASE peek(r) = "import"    -> parse_import_decl(r)
    [] peek(r) = "type"      -> parse_type_decl(r)
    [] peek(r) = "struct"    -> parse_struct_decl(r, FALSE)
    [] peek(r) = "interface" -> parse_interface_decl(r)
    [] peek(r) = "function"  -> parse_function_decl(r, FALSE)
    [] peek(r) = "extend"    -> parse_extend_decl(r)
    [] peek(r) = "const"     -> parse_const_decl(r)
    [] peek(r) = "extern" /\ peek(advance(r)) = "struct"   -> parse_struct_decl(advance(r), TRUE)
    [] peek(r) = "extern" /\ peek(advance(r)) = "function" -> parse_function_decl(advance(r), TRUE)
    [] OTHER -> Unexpected(IF peek(r) = "extern" THEN advance(r) ELSE r)

-----------------------------------------------------------------------------
parse(p, r) ==
  CASE p[1] = "identifier"           -> expect_identifier(r)
    [] p[1] = "type_expr"            -> parse_type_expr(r)
    [] p[1] = "type_atom"            -> parse_type_atom(r)
    [] p[1] = "type_args"            -> parse_type_args(r)
    [] p[1] = "extern_type_expr"     -> parse_extern_type_expr(r)
    [] p[1] = "extern_type_atom"     -> parse_extern_type_atom(r)
    [] p[1] = "extern_fn_type_param" -> parse_extern_fn_type_param(r)
    [] p[1] = "generic_param"        -> parse_generic_param(r)
    [] p[1] = "param_decl"           -> parse_param_decl(r, p[2])
    [] p[1] = "expr_bp"              -> parse_expr_bp(p[2], r)
    [] p[1] = "field_init"           -> FieldInit(r)
    [] p[1] = "map_entry"            -> MapEntry(r)
    [] p[1] = "if_expr"              -> parse_if_expr(r)
    [] p[1] = "else"                 -> Else(r)
    [] p[1] = "block"                -> parse_block(r)
    [] p[1] = "statement"            -> parse_statement(r)
    [] p[1] = "function_decl"        -> parse_function_decl(r, FALSE)
    [] p[1] = "import_symbol"        -> ImportSymbol(r)
    [] p[1] = "item"                 -> parse_item(r)

-----------------------------------------------------------------------------
(* Lexer::new on a text; Parser::new on tokens.                                 *)
Begin(text, ts) ==
  /\ input = text /\ tokens = ts
  /\ stage = IF text # <<>> THEN "lexing" ELSE "parsing"
  /\ position = 1 /\ current = 1 /\ items = <<>>

(* scan_all: the next token, which is kept unless it is a comment.                       *)
ScanToken ==
  LET next == next_token(input, position) IN
  /\ stage = "lexing"
  /\ position' = next.at
  /\ tokens' = IF next.token.kind \in {"EOF", "Comment", "Error"} THEN tokens ELSE Append(tokens, next.token)
  /\ stage' = CASE next.token.kind = "EOF"   -> "parsing"
                [] next.token.kind = "Error" -> "failed"
                [] OTHER                     -> "lexing"
  /\ UNCHANGED <<input, current, items>>

(* parse: the next item, or the first unexpected token.                              *)
ParseItem ==
  LET r == parse(<<"item">>, At(current)) IN
  /\ stage = "parsing" /\ peek(At(current)) # "EOF"
  /\ current' = r.at
  /\ items' = IF r.ok THEN Append(items, r.val) ELSE items
  /\ stage' = IF r.ok THEN "parsing" ELSE "failed"
  /\ UNCHANGED <<input, position, tokens>>

ParseEnd ==
  /\ stage = "parsing" /\ peek(At(current)) = "EOF"
  /\ stage' = "done"
  /\ UNCHANGED <<input, position, tokens, current, items>>

Next == ScanToken \/ ParseItem \/ ParseEnd
===============================================================================
