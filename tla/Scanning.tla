---- MODULE Scanning ----
(***************************************************************************)
(* A pell source as it is typed, and what its scanners make of it: the     *)
(* lexer, on which the compiler and the diagnostics rest, the highlighter, *)
(* and for every sql!{} block the bind extraction of the parser and the    *)
(* table extraction of the dependency analysis.  They are five scanners of *)
(* one language, written apart; the properties say where they agree.       *)
(***************************************************************************)
EXTENDS Lexer, SqlText, SemanticTokens

CONSTANT Files   \* files being typed: the text before and after the caret, the symbols typed, how many

ASSUME FilesAssumption ==
  \A f \in Files : f.before \in Seq(STRING) /\ f.after \in Seq(STRING) /\ f.most \in Nat

VARIABLES file, typed, read, shown
scanned == <<file, typed, read, shown>>

TextOf(f, t) == f.before \o t \o f.after
text == TextOf(file, typed)

\* What the server does with a text: the diagnostics read it, and the editor
\* asks for its highlights.
Scan(s) == read' = tokenize(s) /\ shown' = compute(s)

Open(f) == /\ file = f
           /\ typed = <<>>
           /\ read = tokenize(TextOf(f, <<>>))
           /\ shown = compute(TextOf(f, <<>>))

Type(c) == /\ Len(typed) < file.most
           /\ typed' = Append(typed, c)
           /\ Scan(TextOf(file, typed'))
           /\ UNCHANGED file

Typing == \E c \in file.typed : Type(c)

-----------------------------------------------------------------------------
(* What the highlighter reads at a sql!{} block of its own.                *)

spans == scan(text, 1, <<>>)
InBlock(i, t) == i > t.from /\ i < t.to
BlockTokens == {t \in ToSet(read.toks) : t.k \in {"SQL_BLOCK", "JQ_BLOCK"}}
Bodies ==
  {scan_sql_body(text, Skip(text, m.at + 2, Blank) + 1, 1, <<>>).out :
     m \in {m \in ToSet(spans) : m.ty = "macro" /\ text[m.at] = "sql"}}

\* A block comment of SQL that holds what the lexer, which does not know
\* these comments, takes for itself.
Sly(t) == \E i \in t.at .. t.at + t.len - 1 :
            text[i] \in {"'", "\"", "{", "}"} \/ Starts(text, i, <<"-", "-">>)
SlyComment == \E b \in Bodies : \E t \in ToSet(b) :
                t.ty = "comment" /\ ~Starts(text, t.at, <<"-", "-">>) /\ Sly(t)

\* What else the highlighter is known not to read as the lexer does.
Unmirrored ==
  \/ \E t \in ToSet(read.toks) : t.k \in {"RAWSTRING", "REGEX"}
  \/ \E t \in BlockTokens : AtSymbol(text, Skip(text, t.from + 2, Blank)) # "{"
  \/ \E t \in BlockTokens : t.k = "JQ_BLOCK" /\ \E c \in {"'", "\"", "-"} : Contains(t.text, c)
  \/ \E t \in ToSet(read.toks) : t.k = "AT" /\ AtSymbol(text, t.to) \in Digits
  \/ \E t \in BlockTokens : AtSymbol(text, t.from - 1) = "@"
  \/ \E t \in ToSet(read.toks) : t.k = "KW_NULL"
  \/ SlyComment

\* The spans the tokens ask for.  A word right after an `@` is its decorator.
TokenSpan(t) ==
  LET decorated == AtSymbol(text, t.from - 1) = "@" /\ t.k # "AT" /\ text[t.from] \in Words
      from == IF decorated THEN t.from - 1 ELSE t.from
      class == CASE decorated -> "decorator"
                 [] t.k = "IDENT" -> "variable"
                 [] text[t.from] \in DOMAIN Keyword -> "keyword"
                 [] t.k = "NUMBER" -> "number"
                 [] t.k = "STRING" -> "string"
                 [] t \in BlockTokens -> "macro"
                 [] OTHER -> "operator"
      to == CASE t \in BlockTokens -> t.from + 2
              [] t.k = "STRING" -> Least({LineEnd(text, t.from), t.to})
              [] OTHER -> t.to
  IN Span(from, to, class)
Wordless == {punct_kind[c] : c \in DOMAIN punct_kind} \cup {"EOF"}

\* Where the lexer reads a source to its end, the highlighter, a scanner of its
\* own (semantic_tokens.py _Scanner.scan), sees the same words, numbers,
\* strings, operators and blocks at the same places, but for the seven things
\* named in Unmirrored (`null` is the one word of lexer.KEYWORDS that the list
\* said to mirror it, semantic_tokens.py:62, leaves out): no comment, literal or block of the one may spill into
\* the code of the other.
HighlightsAgree ==
  read.ok /\ ~Unmirrored =>
    {TokenSpan(t) : t \in {t \in ToSet(read.toks) : t.k \notin Wordless}} =
    {t \in ToSet(spans) :
       /\ t.ty # "comment"
       /\ ~\E b \in ToSet(read.toks) : b.k \in {"STRING", "SQL_BLOCK", "JQ_BLOCK"} /\ InBlock(t.at, b)}

-----------------------------------------------------------------------------
(* What the editor makes of the encoded spans.                             *)

RECURSIVE decoded(_, _, _)
decoded(line, col, n) ==
  IF n > Len(shown) THEN <<>>
  ELSE LET t == shown[n]
           l == line + t.line
           c == IF t.line = 0 THEN col + t.col ELSE t.col
       IN <<[line |-> l, col |-> c, len |-> t.len]>> \o decoded(l, c, n + 1)

LineLength(l) ==
  LET starts == {1} \cup {j + 1 : j \in {j \in 1 .. Len(text) : text[j] = NL}}
      start == CHOOSE j \in starts \cup {0} : IF j = 0 THEN \A k \in starts : LineOf(text, k) # l ELSE LineOf(text, j) = l
  IN IF start = 0 THEN 0 ELSE LineEnd(text, start) - start

QuotedAcrossLines ==
  \E b \in Bodies : \E t \in ToSet(b) : t.ty = "variable" /\ \E i \in t.at .. t.at + t.len - 1 : text[i] = NL

\* The editor decodes the relative positions it is sent into the spans that
\* were found, whatever the text and however broken: each on one line of the
\* document, none overlapping the next, none lost (_encode, _emit_multiline).  A
\* double-quoted SQL name that a newline breaks is the one span of two lines.
DecodesToSpans ==
  LET seen == decoded(0, 0, 1)
  IN /\ seen = [n \in 1 .. Len(spans) |->
          [line |-> LineOf(text, spans[n].at), col |-> ColOf(text, spans[n].at), len |-> spans[n].len]]
     /\ \A n \in 2 .. Len(seen) :
          seen[n].line > seen[n - 1].line \/ seen[n].col >= seen[n - 1].col + seen[n - 1].len
     /\ QuotedAcrossLines \/ \A n \in 1 .. Len(seen) : seen[n].col + seen[n].len <= LineLength(seen[n].line)

-----------------------------------------------------------------------------
(* The three readers of a sql!{} block that both scanners end at one place.*)

SqlTokens == {t \in ToSet(read.toks) : t.k = "SQL_BLOCK"}
BodyStart(t) == t.to - 1 - Len(t.text)
InSpan(i, ty) == \E u \in ToSet(spans) : u.ty = ty /\ i \in u.at .. u.at + u.len - 1

\* The binds the parser takes from a block (_extract_binds_and_kind) are the
\* ones shown as such in the editor, except that it takes those of a block
\* comment too, and none that follows a letter or a digit; the statement is a
\* change just when it starts with a word for one (a block comment in front
\* hides it), and RETURNING counts outside literals and line comments.
StatementsAgree ==
  read.ok /\ ~Unmirrored =>
    \A t \in SqlTokens :
      LET at(i) == BodyStart(t) + i - 1
          positions == 1 .. Len(t.text)
          lineComment(i) == \E u \in ToSet(spans) :
            u.ty = "comment" /\ Starts(text, u.at, <<"-", "-">>) /\ at(i) \in u.at .. u.at + u.len - 1
          shownAs(i, ty) == \E u \in ToSet(spans) : u.at = at(i) /\ u.ty = ty
          leads(i) == \A j \in 1 .. i - 1 : t.text[j] \in Space \/ lineComment(j)
      IN /\ \A i \in positions : ~InSpan(at(i), "comment") =>
              (i \in extract_binds(t.text) <=>
                 shownAs(i, "parameter") /\ AtSymbol(t.text, i - 1) \notin WordChars)
         /\ is_dml(t.text) <=>
              \E i \in positions : t.text[i] \in DmlWords /\ shownAs(i, "keyword") /\ leads(i)
         /\ is_dml(t.text) /\ (\E i \in positions : t.text[i] = "returning" /\ shownAs(i, "keyword"))
              => has_returning(t.text)
         /\ has_returning(t.text) =>
              \E i \in positions : t.text[i] = "returning" /\ (shownAs(i, "keyword") \/ InSpan(at(i), "comment"))

\* Texts in which the three passes of the dependency analysis cannot mistake
\* the inside of a literal or a comment for its end.
PlainSql(t) ==
  /\ ~Contains(t.text, "\"") /\ ~Contains(t.text, "\\")
  /\ \A i \in 1 .. Len(t.text) :
       LET p == BodyStart(t) + i - 1
       IN (InSpan(p, "string") \/ InSpan(p, "comment")) =>
            /\ Starts(text, p, <<"/", "*">>) => \E u \in ToSet(spans) : u.at = p /\ u.ty = "comment"
            /\ Starts(text, p, <<"-", "-">>) => \E u \in ToSet(spans) : u.at = p /\ u.ty = "comment"

\* A table of the manifest (extract_sql_deps) is a word of the statement, never
\* of a literal or a comment, and every table after FROM is one, unless that
\* `from` is itself part of a name.
TablesAgree ==
  read.ok /\ ~Unmirrored =>
    \A t \in {t \in SqlTokens : PlainSql(t)} :
      LET at(i) == BodyStart(t) + i - 1
          tables == extract_sql_deps(t.text)
          word(i, c) == t.text[i] = c /\ \E u \in ToSet(spans) : u.at = at(i) /\ u.len = 1
          name(i) == Skip(t.text, i + 1, Space)
          part(i) == AtSymbol(t.text, i - 1) \in {".", "@"}
      IN /\ \A i \in tables : \E u \in ToSet(spans) : u.at = at(i) /\ u.ty \in {"variable", "keyword"}
         /\ \A i \in 1 .. Len(t.text) :
              i \notin tables /\ ~part(i) /\ word(i, "from") /\ name(i) > i + 1 /\ AtSymbol(t.text, name(i)) \in Words => name(i) \in tables

\* What the compiler makes of the SQL of a block is what the editor shows: the
\* kind of statement and its binds, and the tables of the manifest.
EmbeddedSqlAgrees == StatementsAgree /\ TablesAgree
====
