-------------------------------- MODULE Lexer ---------------------------------
(***************************************************************************)
(* From a source text to tokens (lexer.rs). A text is a sequence of one-         *)
(* character strings, p the 1-based index of the next character. A token keeps    *)
(* its kind (for keywords and punctuation, what is written), the text of a name   *)
(* or a literal, and `position`, the number of characters before its end; lines    *)
(* and columns, which only messages show, are left out.                       *)
(***************************************************************************)
EXTENDS Naturals, SequencesExt, FiniteSetsExt

CONSTANTS Letter, Digit     (* the identifier starters and the digits of the instance *)

ASSUME CharsAssumption == IsFiniteSet(Letter) /\ Digit \cap Letter = {}

Whitespace == {" ", "\n"}

Keywords ==
  {"struct", "function", "for", "while", "null", "true", "false", "var", "extend", "return",
   "interface", "is", "type", "as", "in", "self", "match", "class", "if", "else", "continue",
   "break", "extern", "import", "from", "const"}

(* What one character is, and what two make that would also stand alone ("&" would not). *)
Single == {"(", ")", "{", "}", "[", "]", "<", ">", "=", "!", "+", "-", "*", "/", "%", "|",
           ".", ",", ":", ";"}
Double == {<<"<", "=">>, <<">", "=">>, <<"=", "=">>, <<"=", ">">>, <<"!", "=">>, <<"&", "&">>,
           <<"|", "|">>}

Token(kind, text, at) == [at |-> at, token |-> [kind |-> kind, text |-> text, position |-> at - 1]]
LexError(why, at)     == [at |-> at, token |-> [kind |-> "Error", text |-> why, position |-> at - 1]]

CharAt(s, p) == IF p <= Len(s) THEN s[p] ELSE "end"          \* peek
Text(s)      == FoldLeft(LAMBDA whole, c : whole \o c, "", s)

(* Where the run of characters of C that starts at p ends.                        *)
RunEnd(s, p, C) == Min({q \in p..Len(s) + 1 : CharAt(s, q) \notin C})

-----------------------------------------------------------------------------
(* A word is a keyword or a name.                                              *)
scan_literal(s, p) ==
  LET q == RunEnd(s, p, Letter \cup Digit)  word == Text(SubSeq(s, p, q - 1)) IN
  IF word \in Keywords THEN Token(word, "", q) ELSE Token("Identifier", word, q)

(* Digits, with one dot among them that is neither followed by a second one nor last. *)
scan_number(s, p) ==
  LET q == RunEnd(s, p, Digit)
      r == RunEnd(s, q + 1, Digit)
  IN  IF CharAt(s, q) # "." THEN Token("Int", Text(SubSeq(s, p, q - 1)), q)
      ELSE IF r = q + 1 \/ CharAt(s, r) = "." THEN LexError("InvalidNumber", r)
      ELSE Token("Float", Text(SubSeq(s, p, r - 1)), r)

Escapes == [c \in {"n", "t", "r", "\\", "\""} |->
              CASE c = "n" -> "\n" [] c = "t" -> "\t" [] c = "r" -> "\r" [] OTHER -> c]

(* One character of a string literal: where the scan stands after it.                  *)
InString(st, c) ==
  CASE st.end # "" -> st
    [] OTHER ->
       LET seen == [st EXCEPT !.at = @ + 1, !.escaped = FALSE] IN
       CASE st.escaped /\ c \in DOMAIN Escapes -> [seen EXCEPT !.value = @ \o Escapes[c]]
         [] st.escaped                         -> [seen EXCEPT !.end = "UnexpectedCharacter"]
         [] c = "\\"                           -> [seen EXCEPT !.escaped = TRUE]
         [] c = "\""                           -> [seen EXCEPT !.end = "closed"]
         [] OTHER                              -> [seen EXCEPT !.value = @ \o c]

scan_string(s, p) ==
  LET st == FoldLeft(InString, [at |-> p, value |-> "", escaped |-> FALSE, end |-> ""],
                     SubSeq(s, p, Len(s)))
  IN  CASE st.end = "closed" -> Token("StringLit", st.value, st.at)
        [] st.end = ""       -> LexError("UnterminatedString", st.at)
        [] OTHER             -> LexError(st.end, st.at)

scan_char(s, p) ==
  IF CharAt(s, p) \notin {"'", "end"} /\ CharAt(s, p + 1) = "'"
  THEN Token("CharLit", s[p], p + 2)
  ELSE LexError("UnexpectedCharacter", IF p > Len(s) THEN p ELSE p + 1)

scan_comment(s, p) ==
  LET q == Min({n \in p..Len(s) + 1 : CharAt(s, n) \in {"\n", "end"}})
  IN  Token("Comment", Text(SubSeq(s, p, q - 1)), q)

(* Fault: the second of two characters is seen and not consumed.                     *)
PeekedSymbol(s, p) ==
  IF <<s[p], CharAt(s, p + 1)>> \in Double THEN Token(s[p] \o s[p + 1], "", p + 1)
  ELSE IF s[p] \in Single THEN Token(s[p], "", p + 1)
  ELSE LexError("UnexpectedCharacter", p + 1)

scan_symbol(s, p) ==
  IF <<s[p], CharAt(s, p + 1)>> \in Double THEN Token(s[p] \o s[p + 1], "", p + 2)
  ELSE IF s[p] \in Single THEN Token(s[p], "", p + 1)
  ELSE LexError("UnexpectedCharacter", p + 1)

(* The first character that is not white space says what is scanned.                   *)
next_token(s, start) ==
  LET p == RunEnd(s, start, Whitespace)  c == CharAt(s, p) IN
  CASE c = "end"                           -> Token("EOF", "", p)
    [] c \in Letter                        -> scan_literal(s, p)
    [] c \in Digit                         -> scan_number(s, p)
    [] c = "'"                             -> scan_char(s, p + 1)
    [] c = "\""                            -> scan_string(s, p + 1)
    [] c = "/" /\ CharAt(s, p + 1) = "/"   -> scan_comment(s, p + 2)
    [] OTHER                               -> scan_symbol(s, p)
===============================================================================
