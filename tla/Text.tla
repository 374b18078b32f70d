---- MODULE Text ----
(***************************************************************************)
(* Texts for the scanners of pell.  A text is a sequence of symbols: one   *)
(* character each, except that a word of the languages is one symbol too   *)
(* (scanners look at words only as a whole; symbols of words that stand    *)
(* next to each other are one longer word).                                *)
(***************************************************************************)
EXTENDS Sequences, Naturals, FiniteSets

CONSTANTS
  Words,    \* the symbols that are words or letters
  Keyword   \* the words that are keywords of pell, each with its token kind

NL == "\n"
Backtick == "backtick"   \* a symbol TLA+ has no string for
Space == {" ", "\t", "\r", NL}
Blank == {" ", "\t"}
Digits == {"0", "1"}
WordChars == Words \cup Digits

\* Python's str.startswith(w, i) and str.find(w, i); not found is past the end.
Starts(s, i, w) == i + Len(w) - 1 <= Len(s) /\ \A j \in 1 .. Len(w) : s[i + j - 1] = w[j]
Least(S) == CHOOSE m \in S : \A n \in S : m <= n
Find(s, i, w) == Least({j \in i .. Len(s) : Starts(s, j, w)} \cup {Len(s) + 1})
\* The first position from i on whose symbol is not in C.
Skip(s, i, C) == Least({j \in i .. Len(s) : s[j] \notin C} \cup {IF i > Len(s) THEN i ELSE Len(s) + 1})
LineEnd(s, i) == Find(s, i, <<NL>>)
AtSymbol(s, i) == IF i \in 1 .. Len(s) THEN s[i] ELSE ""

\* Where the literal that q closes ends; with escapes, a backslash hides the
\* symbol after it.
RECURSIVE CloseQuote(_, _, _, _)
CloseQuote(s, i, q, escapes) ==
  IF i > Len(s) THEN Len(s) + 1
  ELSE IF s[i] = q THEN i
  ELSE CloseQuote(s, IF escapes /\ s[i] = "\\" THEN i + 2 ELSE i + 1, q, escapes)

\* Past the closing quote, or at the end.
PastQuote(s, i, q, escapes) ==
  LET j == CloseQuote(s, i, q, escapes) IN IF j > Len(s) THEN j ELSE j + 1

\* The end of a number: digits, and a fraction if a digit follows the point.
NumberEnd(s, i) ==
  LET j == Skip(s, i, Digits)
  IN IF AtSymbol(s, j) = "." /\ AtSymbol(s, j + 1) \in Digits THEN Skip(s, j + 1, Digits) ELSE j

\* Zero-based line and column of a position, as the language server counts them.
LineOf(s, i) == Cardinality({j \in 1 .. i - 1 : s[j] = NL})
ColOf(s, i) == i - 1 - (CHOOSE m \in 0 .. i - 1 : (m = 0 \/ s[m] = NL) /\ \A j \in m + 1 .. i - 1 : s[j] # NL)
====
