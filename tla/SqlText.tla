---- MODULE SqlText ----
(***************************************************************************)
(* What the compiler reads out of the text of a sql!{} block: the binds    *)
(* and the kind of the statement (parser._extract_binds_and_kind) and the  *)
(* tables and dblinks (deps.extract_sql_deps).  Each strips literals and   *)
(* comments in its own way; the positions that are left are "code".        *)
(***************************************************************************)
EXTENDS Text

\* The parser: line comments, then '...' with backslash escapes, then "...".
\* The text that is left, position by position; a stripped literal leaves a quote.
RECURSIVE stripped(_, _)
stripped(s, i) ==
  CASE i > Len(s) -> <<>>
    [] Starts(s, i, <<"-", "-">>) -> stripped(s, LineEnd(s, i))
    [] s[i] \in {"'", "\""} ->
         <<[at |-> 0, c |-> s[i]]>> \o stripped(s, PastQuote(s, i + 1, s[i], s[i] = "'"))
    [] OTHER -> <<[at |-> i, c |-> s[i]]>> \o stripped(s, i + 1)

Char(t, i) == IF i \in 1 .. Len(t) THEN t[i].c ELSE ""

\* Mutant: binds are looked for in the text as it is, literals included.
binds_of_raw_text(s) ==
  {i \in 1 .. Len(s) : s[i] = ":" /\ AtSymbol(s, i - 1) \notin WordChars /\ AtSymbol(s, i + 1) \in Words}
\* `:name` not after a letter or a digit: the positions of the colons.
extract_binds(s) ==
  LET t == stripped(s, 1)
  IN {t[i].at : i \in {i \in 1 .. Len(t) :
        t[i].c = ":" /\ Char(t, i - 1) \notin WordChars /\ Char(t, i + 1) \in Words}}

\* The first word tells a change from a query.
DmlWords == {"insert", "update", "delete", "merge"}
is_dml(s) ==
  LET t == stripped(s, 1)
      first == Least({i \in 1 .. Len(t) : t[i].c \notin Space} \cup {Len(t) + 1})
  IN Char(t, first) \in DmlWords /\ Char(t, first + 1) \notin WordChars
has_returning(s) ==
  LET t == stripped(s, 1)
  IN is_dml(s) /\ \E i \in 1 .. Len(t) :
       t[i].c = "returning" /\ Char(t, i - 1) \notin WordChars /\ Char(t, i + 1) \notin WordChars

\* Dependencies: block comments, then line comments, then '...' in which a
\* doubled quote is part of the literal; each pass works on what the one
\* before left.
Positioned(s) == [i \in 1 .. Len(s) |-> [at |-> i, c |-> s[i]]]
Chars(t) == [i \in 1 .. Len(t) |-> t[i].c]
RECURSIVE without_block_comments(_)
without_block_comments(t) ==
  LET open == Find(Chars(t), 1, <<"/", "*">>)
      close == Find(Chars(t), open + 2, <<"*", "/">>)
  IN IF open > Len(t) \/ close > Len(t) THEN t
     ELSE without_block_comments(SubSeq(t, 1, open - 1) \o SubSeq(t, close + 2, Len(t)))
RECURSIVE without_line_comments(_)
without_line_comments(t) ==
  LET open == Find(Chars(t), 1, <<"-", "-">>)
  IN IF open > Len(t) THEN t
     ELSE without_line_comments(SubSeq(t, 1, open - 1) \o SubSeq(t, LineEnd(Chars(t), open), Len(t)))
RECURSIVE without_literals(_, _)
without_literals(t, i) ==
  LET cs == Chars(t)
      open == Find(cs, i, <<"'">>)
      \* the regular expression prefers a doubled quote to the end of the literal,
      \* and gives it back when no quote follows
      RECURSIVE close(_)
      close(j) == LET q == Find(cs, j, <<"'">>)
                  IN IF q > Len(t) THEN 0
                     ELSE IF AtSymbol(cs, q + 1) = "'" /\ close(q + 2) # 0 THEN close(q + 2) ELSE q
      end == close(open + 1)
  IN IF open > Len(t) THEN t
     ELSE IF end = 0 THEN without_literals(t, open + 1)
     ELSE LET rest == SubSeq(t, end + 1, Len(t))
              mark == [at |-> 0, c |-> "'"]
          IN without_literals(SubSeq(t, 1, open - 1) \o <<mark, mark>> \o rest, open + 2)
strip_strings_and_comments(s) ==
  without_literals(without_line_comments(without_block_comments(Positioned(s))), 1)

\* FROM, JOIN, UPDATE, and INTO after INSERT or MERGE, then a name that may
\* have a schema and a dblink: the positions where the names start.
TableWords == {"from", "join", "update"}
IntoWords == {"insert", "merge"}
extract_sql_deps(s) ==
  LET t == strip_strings_and_comments(s)
      cs == Chars(t)
      word(i) == Char(t, i - 1) \notin WordChars /\ Char(t, i + 1) \notin WordChars
      intro(i) == word(i) /\
        \/ t[i].c \in TableWords
        \/ t[i].c = "into" /\ \E j \in 1 .. i - 1 :
             t[j].c \in IntoWords /\ word(j) /\ Skip(cs, j + 1, Space) = i
      name(i) == Skip(cs, i + 1, Space)
      past(i) == Skip(cs, i, WordChars)
      part(c, i) == IF Char(t, i) = c /\ Char(t, i + 1) \in Words THEN past(i + 1) ELSE i
      end(i) == part("@", part(".", past(name(i))))
      \* left to right: a name that was taken introduces nothing
      RECURSIVE names(_)
      names(i) ==
        IF i > Len(t) THEN {}
        ELSE IF intro(i) /\ Char(t, name(i)) \in Words THEN {t[name(i)].at} \cup names(end(i))
        ELSE names(i + 1)
  IN names(1)
====
