---- MODULE Lexer ----
(***************************************************************************)
(* The lexer of pell (compiler/pell/lexer.py).  A token is its kind, its   *)
(* text and the positions it was read from; a LexError ends the reading.   *)
(***************************************************************************)
EXTENDS Text, TLC, SequencesExt

\* Longest first, as tokenize tries them.
multi_char_operators ==
  <<<<".", ".", "=">>, <<":", ":">>, <<"-", ">">>, <<"=", ">">>, <<"=", "=">>, <<"!", "=">>, <<"<", "=">>,
    <<">", "=">>, <<"&", "&">>, <<"|", "|">>, <<".", ".">>, <<"|", ">">>>>

punct_kind ==
  ("(" :> "LPAREN" @@ ")" :> "RPAREN" @@ "{" :> "LBRACE" @@ "}" :> "RBRACE" @@ "[" :> "LBRACKET"
   @@ "]" :> "RBRACKET" @@ ";" :> "SEMI" @@ "," :> "COMMA" @@ ":" :> "COLON" @@ "." :> "DOT" @@ "@" :> "AT"
   @@ "?" :> "QUESTION" @@ "|" :> "PIPE" @@ "&" :> "AMP" @@ "!" :> "BANG" @@ "+" :> "PLUS" @@ "-" :> "MINUS"
   @@ "*" :> "STAR" @@ "/" :> "SLASH" @@ "%" :> "PERCENT" @@ "<" :> "LT" @@ ">" :> "GT" @@ "=" :> "EQ")
operator_kind ==
  <<"DOTDOTEQ", "COLONCOLON", "ARROW", "FATARROW", "EQEQ", "BANGEQ", "LE", "GE", "AMPAMP", "PIPEPIPE",
    "DOTDOT", "PIPEGT">>

VALUE_TOKEN_KINDS ==
  {"IDENT", "NUMBER", "STRING", "RAWSTRING", "REGEX", "RPAREN", "RBRACKET", "RBRACE", "KW_TRUE", "KW_FALSE",
   "KW_NIL", "KW_NULL", "KW_SELF", "SQL_BLOCK", "JQ_BLOCK"}
regex_allowed_after(toks) == toks = <<>> \/ toks[Len(toks)].k \notin VALUE_TOKEN_KINDS

\* `sql!` or `jq!`, white space of any kind, `{`.
macro_words == [sql |-> "SQL_BLOCK", jq |-> "JQ_BLOCK"]
matches_macro_block_start(s, i) ==
  /\ AtSymbol(s, i) \in DOMAIN macro_words
  /\ AtSymbol(s, i + 1) = "!"
  /\ AtSymbol(s, Skip(s, i + 2, Space)) = "{"

\* The closing brace of a macro block whose text is read from i at depth;
\* braces in literals and in line comments do not count.
RECURSIVE macro_block_end(_, _, _)
macro_block_end(s, i, depth) ==
  CASE i > Len(s) -> Len(s) + 1
    [] s[i] = "{" -> macro_block_end(s, i + 1, depth + 1)
    [] s[i] = "}" -> IF depth = 1 THEN i ELSE macro_block_end(s, i + 1, depth - 1)
    [] s[i] = "'" -> macro_block_end(s, PastQuote(s, i + 1, "'", TRUE), depth)
    [] s[i] = "\"" -> macro_block_end(s, PastQuote(s, i + 1, "\"", FALSE), depth)
    [] Starts(s, i, <<"-", "-">>) -> macro_block_end(s, LineEnd(s, i), depth)
    [] OTHER -> macro_block_end(s, i + 1, depth)

\* The closing slash of a regular expression; past the end if a line ends first.
regex_end(s, i) ==
  LET close == CloseQuote(s, i, "/", TRUE)
      \* a newline that no backslash hides
      breaks == CloseQuote(s, i, NL, TRUE) < close
  IN IF breaks THEN Len(s) + 1 ELSE close
Flags == {w \in Words : w \in {"x", "import", "sql", "match", "select"}}   \* words that start with i, m, s or x

Tok(k, s, from, text, to) == [k |-> k, text |-> text, from |-> from, to |-> to]
Error(toks) == [ok |-> FALSE, toks |-> toks]

RECURSIVE tokenize_from(_, _, _)
tokenize_from(s, i, toks) ==
  LET c == s[i]
      go(k, from, until, to) == tokenize_from(s, to, Append(toks, Tok(k, s, i, SubSeq(s, from, until - 1), to)))
      \* a literal between a quote and the one at j
      literal(k, j) == IF j > Len(s) THEN Error(toks) ELSE go(k, i + 1, j, j + 1)
      word == Skip(s, i, WordChars)
      text == SubSeq(s, i, word - 1)
      open == Skip(s, i + 2, Space)
      block == macro_block_end(s, open + 1, 1)
      ops == {o \in 1 .. Len(multi_char_operators) : Starts(s, i, multi_char_operators[o])}
      regex == regex_end(s, i + 1)
  IN CASE i > Len(s) -> [ok |-> TRUE, toks |-> Append(toks, Tok("EOF", s, i, <<>>, i))]
       [] c \in Space -> tokenize_from(s, i + 1, toks)
       [] Starts(s, i, <<"/", "/">>) -> tokenize_from(s, LineEnd(s, i), toks)
       [] Starts(s, i, <<"/", "*">>) ->
            LET end == Find(s, i + 2, <<"*", "/">>)
            IN IF end > Len(s) THEN Error(toks) ELSE tokenize_from(s, end + 2, toks)
       [] matches_macro_block_start(s, i) ->
            IF block > Len(s) THEN Error(toks) ELSE go(macro_words[c], open + 1, block, block + 1)
       [] c \in Words ->
            IF Len(text) = 1 /\ c \in DOMAIN Keyword THEN go(Keyword[c], i, word, word) ELSE go("IDENT", i, word, word)
       [] c \in Digits -> go("NUMBER", i, NumberEnd(s, i), NumberEnd(s, i))
       [] c = "\"" -> literal("STRING", CloseQuote(s, i + 1, "\"", TRUE))
       [] c = Backtick -> literal("RAWSTRING", CloseQuote(s, i + 1, Backtick, FALSE))
       [] c = "/" /\ regex_allowed_after(toks) ->
            IF AtSymbol(s, regex + 1) \in Flags THEN Error(toks) ELSE literal("REGEX", regex)
       [] ops # {} -> LET o == Least(ops)
                          to == i + Len(multi_char_operators[o])
                      IN go(operator_kind[o], i, to, to)
       [] c \in DOMAIN punct_kind -> go(punct_kind[c], i, i + 1, i + 1)
       [] OTHER -> Error(toks)

tokenize(s) == tokenize_from(s, 1, <<>>)
====
