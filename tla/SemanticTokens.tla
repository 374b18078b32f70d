---- MODULE SemanticTokens ----
(***************************************************************************)
(* The highlighter of the language server                                  *)
(* (lsp/pell_lsp/semantic_tokens.py): a second scanner of the same source, *)
(* which goes on where the lexer gives up.  A span is where it starts, its *)
(* length, its type and its modifiers.                                     *)
(***************************************************************************)
EXTENDS Text, SequencesExt

CONSTANT SqlKeywords   \* the words that Oracle reserves, as the highlighter knows them

HighlightKeywords == DOMAIN Keyword \ {"null"}
PrimTypes == {"number", "int", "text", "bool", "date", "timestamp", "bytes", "json", "Unit", "Option",
              "Result", "list", "map", "set", "cursor", "stream", "rowtype"}
MultiOps == {<<".", ".", "=">>, <<":", ":">>, <<"-", ">">>, <<"=", ">">>, <<"=", "=">>, <<"!", "=">>, <<"<", "=">>,
             <<">", "=">>, <<"&", "&">>, <<"|", "|">>, <<".", ".">>, <<"|", ">">>}
DECLARATION == 1

Span(i, to, ty) == [at |-> i, len |-> to - i, ty |-> ty, mods |-> 0]

\* One span per line of the text from i up to `to`; empty lines have none.
emit_multiline(s, i, to, ty) ==
  LET starts == {i} \cup {j + 1 : j \in {j \in i .. to - 1 : s[j] = NL}}
      end(j) == Least({LineEnd(s, j), to})
      lines == {Span(j, end(j), ty) : j \in {j \in starts : j = i \/ end(j) > j}}
  IN SetToSortSeq(lines, LAMBDA a, b : a.at < b.at)

PastComment(s, i) == LET j == Find(s, i + 2, <<"*", "/">>) IN IF j > Len(s) THEN Len(s) + 1 ELSE j + 2
\* Mutant: the first operator that fits, be it the start of a longer one.
ShortestOp(s, i) ==
  LET lengths == {Len(w) : w \in {w \in MultiOps : Starts(s, i, w)}}
  IN IF lengths = {} THEN 0 ELSE Least(lengths)
LongestOp(s, i) ==
  LET lengths == {Len(w) : w \in {w \in MultiOps : Starts(s, i, w)}}
  IN IF lengths = {} THEN 0 ELSE CHOOSE n \in lengths : \A m \in lengths : m <= n

\* The body of a sql!{} block; stops at the closing brace.
RECURSIVE scan_sql_body(_, _, _, _)
scan_sql_body(s, i, depth, out) ==
  LET c == s[i]
      emit(spans, to) == scan_sql_body(s, to, depth, out \o spans)
      one(to, ty) == emit(<<Span(i, to, ty)>>, to)
      lines(to, ty) == emit(emit_multiline(s, i, to, ty), to)
      word == Skip(s, i, WordChars)
  IN CASE i > Len(s) -> [i |-> i, out |-> out]
       [] c = "{" -> scan_sql_body(s, i + 1, depth + 1, out)
       [] c = "}" -> IF depth = 1 THEN [i |-> i, out |-> out] ELSE scan_sql_body(s, i + 1, depth - 1, out)
       [] Starts(s, i, <<"-", "-">>) -> one(LineEnd(s, i), "comment")
       [] Starts(s, i, <<"/", "*">>) -> lines(PastComment(s, i), "comment")
       [] c = "'" -> lines(PastQuote(s, i + 1, "'", TRUE), "string")
       [] c = "\"" -> one(PastQuote(s, i + 1, "\"", FALSE), "variable")
       [] c = ":" /\ AtSymbol(s, i + 1) \in Words -> one(Skip(s, i + 1, WordChars), "parameter")
       [] c \in Digits -> one(NumberEnd(s, i), "number")
       [] c \in Words -> one(word, IF word = i + 1 /\ c \in SqlKeywords THEN "keyword" ELSE "variable")
       [] Starts(s, i, <<"|", "|">>) \/ Starts(s, i, <<"=", ">">>) -> one(i + 2, "operator")
       [] OTHER -> emit(<<>>, i + 1)

\* The end of a jq!{} block, by its braces alone.
RECURSIVE jq_end(_, _, _)
jq_end(s, i, depth) ==
  CASE i > Len(s) -> Len(s) + 1
    [] s[i] = "}" /\ depth = 1 -> i
    [] OTHER -> jq_end(s, i + 1, CASE s[i] = "{" -> depth + 1 [] s[i] = "}" -> depth - 1 [] OTHER -> depth)

\* A block's brace must follow `sql!` on the same line.
OpensBlock(s, i, w) == s[i] = w /\ AtSymbol(s, i + 1) = "!" /\ AtSymbol(s, Skip(s, i + 2, Blank)) = "{"

RECURSIVE scan(_, _, _)
scan(s, i, out) ==
  LET c == s[i]
      emit(spans, to) == scan(s, to, out \o spans)
      one(to, ty) == emit(<<Span(i, to, ty)>>, to)
      lines(to, ty) == emit(emit_multiline(s, i, to, ty), to)
      word == Skip(s, i, WordChars)
      marked == Append(out, Span(i, i + 2, "macro"))
      body == Skip(s, i + 2, Blank) + 1
      sql == scan_sql_body(s, body, 1, marked)
      op == LongestOp(s, i)
      name == Skip(s, i + 1, WordChars)
  IN CASE i > Len(s) -> out
       [] c \in Space -> scan(s, i + 1, out)
       [] Starts(s, i, <<"/", "/">>) -> one(LineEnd(s, i), "comment")
       [] Starts(s, i, <<"/", "*">>) -> lines(PastComment(s, i), "comment")
       [] c = "\"" -> lines(PastQuote(s, i + 1, "\"", TRUE), "string")
       [] OpensBlock(s, i, "sql") -> scan(s, sql.i + 1, sql.out)
       [] OpensBlock(s, i, "jq") -> scan(s, jq_end(s, body, 1) + 1, marked)
       [] c = "@" -> IF name > i + 1 THEN one(name, "decorator") ELSE scan(s, i + 1, out)
       [] c \in Words -> one(word, IF word = i + 1 /\ c \in HighlightKeywords THEN "keyword" ELSE "variable")
       [] c \in Digits -> one(NumberEnd(s, i), "number")
       [] op > 0 -> one(i + op, "operator")
       [] OTHER -> scan(s, i + 1, out)

Slice(s, t) == SubSeq(s, t.at, Least({t.at + t.len, LineEnd(s, t.at)}) - 1)

\* The first variable from span n on; a span on a later line ends the search.
next_variable(s, toks, n) ==
  LET found == {j \in n .. Len(toks) :
        /\ toks[j].ty = "variable"
        /\ \A k \in n .. j - 1 : LineOf(s, toks[k].at) = LineOf(s, toks[n].at)}
  IN IF found = {} THEN 0 ELSE Least(found)

\* What a declaration keyword makes of the name after it, and an import of the
\* names on its line; keyword after keyword.
Declares == [fn |-> "function", record |-> "type", error |-> "class"]
RECURSIVE classify_followers(_, _, _)
classify_followers(s, toks, n) ==
  LET t == toks[n]
      text == Slice(s, t)[1]
      j == next_variable(s, toks, n + 1)
      named == [toks EXCEPT ![j].ty = Declares[text], ![j].mods = DECLARATION]
      imported == [k \in 1 .. Len(toks) |->
        IF k > n /\ toks[k].ty = "variable" /\ LineOf(s, toks[k].at) = LineOf(s, t.at)
        THEN [toks[k] EXCEPT !.ty = "namespace"] ELSE toks[k]]
  IN CASE n > Len(toks) -> toks
       [] t.ty = "keyword" /\ text \in DOMAIN Declares /\ j # 0 -> classify_followers(s, named, n + 1)
       [] t.ty = "keyword" /\ text = "import" -> classify_followers(s, imported, n + 1)
       [] OTHER -> classify_followers(s, toks, n + 1)

\* What the symbols around a variable make of it, on its line.
classify_contextual(s, toks) ==
  LET end(t) == Least({t.at + t.len, LineEnd(s, t.at)})
      next(t) == Skip(s, end(t), Blank)
      after(t, w) == Starts(s, next(t), w)
      blanks(t) == {k \in 1 .. t.at : \A j \in k .. t.at - 1 : s[j] \in Blank}
      before(t) == AtSymbol(s, Least(blanks(t)) - 1)
      class(t) ==
        CASE Len(Slice(s, t)) = 1 /\ Slice(s, t)[1] \in PrimTypes -> "type"
          [] after(t, <<":">>) /\ ~after(t, <<":", ":">>) -> "parameter"
          [] after(t, <<"(">>) -> "function"
          [] after(t, <<":", ":">>) -> "namespace"
          [] before(t) \in {":", ">"} -> "type"
          [] OTHER -> "variable"
  IN [k \in 1 .. Len(toks) |->
        IF toks[k].ty = "variable" THEN [toks[k] EXCEPT !.ty = class(toks[k])] ELSE toks[k]]

\* Mutant: columns always from the span before.
encode_relative_columns(s, toks) ==
  [n \in 1 .. Len(toks) |->
     LET from == IF n = 1 THEN 1 ELSE toks[n - 1].at
     IN [line |-> LineOf(s, toks[n].at) - LineOf(s, from), col |-> ColOf(s, toks[n].at) - ColOf(s, from),
         len |-> toks[n].len, ty |-> toks[n].ty, mods |-> toks[n].mods]]
\* Each span after the one before it: lines down, columns right (of the line's
\* start if the line is another), as the protocol wants it.
encode(s, toks) ==
  LET shown == SelectSeq(toks, LAMBDA t : t.len > 0)
      line(n) == IF n = 0 THEN 0 ELSE LineOf(s, shown[n].at)
      col(n) == IF n = 0 THEN 0 ELSE ColOf(s, shown[n].at)
  IN [n \in 1 .. Len(shown) |->
        LET down == line(n) - line(n - 1)
        IN [line |-> down, col |-> IF down = 0 THEN col(n) - col(n - 1) ELSE col(n),
            len |-> shown[n].len, ty |-> shown[n].ty, mods |-> shown[n].mods]]

compute(s) ==
  LET toks == classify_contextual(s, classify_followers(s, scan(s, 1, <<>>), 1))
  IN encode(s, SortSeq(toks, LAMBDA a, b : a.at < b.at))
====
