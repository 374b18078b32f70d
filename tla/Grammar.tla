---- MODULE Grammar ----
(***************************************************************************)
(* The vocabulary of the recursive-descent parser: what its methods do     *)
(* with the token stream (Parser.__init__ .. _eat_keyword, and the loops   *)
(* and branches that recur in every _parse_ method), as data that Run      *)
(* interprets.  Nothing backtracks: a token that does not fit ends the     *)
(* parse, as a ParseError does.  A phrase yields a sequence of values.     *)
(***************************************************************************)
EXTENDS Sequences, Naturals, SequencesExt

\* A token: its kind and, for names and literals, the text it stands for.
Tk(kind) == [k |-> kind, v |-> kind]

T(kind) == [op |-> "token", k |-> kind]           \* _expect, value unused
Cap(kind) == [op |-> "capture", k |-> kind]       \* _expect(kind).value
AnyToken == [op |-> "any"]                        \* self.pos += 1, value used
Give(v) == [op |-> "give", v |-> v]               \* a value that reads nothing
NT(name) == [op |-> "phrase", name |-> name]      \* self._parse_<name>()
Then(gs) == [op |-> "seq", gs |-> gs]
Nothing == Then(<<>>)
Fail == [op |-> "fail"]
Listed(g) == [op |-> "list", g |-> g]             \* the values as one list
Node(class, g) == [op |-> "node", class |-> class, g |-> g]
Split(classes, g) == [op |-> "split", classes |-> classes, g |-> g]
Act(name, g) == [op |-> "act", name |-> name, g |-> g]
Drop(g) == [op |-> "drop", g |-> g]

\* What _at, _at_keyword and _peek(1), _peek(2) are asked before a branch.
Ahead(kinds) == [kinds |-> kinds, words |-> {}, unless |-> {}]
At(kinds) == Ahead(<<kinds>>)
AtWord(w) == [kinds |-> <<{"IDENT"}>>, words |-> {w}, unless |-> {}]
AtUnless(kind, next) == [kinds |-> <<{kind}>>, words |-> {}, unless |-> next]

When(la, g, h) == [op |-> "when", la |-> la, g |-> g, h |-> h]
Switch(on, otherwise) == [op |-> "switch", on |-> on, h |-> otherwise]
While(la, g) == [op |-> "while", la |-> la, g |-> g]
Until(kinds, g) == [op |-> "until", kinds |-> kinds, g |-> g]
\* while not at a closer: g, and a comma or the end of the list
CommaUntil(kinds, g) ==
  Until(kinds, Then(<<g, When(At({"COMMA"}), T("COMMA"), When(At(kinds), Nothing, Fail))>>))
\* a first value that later tokens wrap: left-associative operators, postfixes;
\* a gathering step makes one list of the first value and the others
Step(la, class, g) == [la |-> la, class |-> class, g |-> g, gather |-> FALSE]
Gather(kind, class, g) == [la |-> At({kind}), class |-> class, g |-> g, gather |-> TRUE]
Fold(g, steps) == [op |-> "fold", g |-> g, steps |-> steps, many |-> TRUE]
FoldOnce(g, steps) == [op |-> "fold", g |-> g, steps |-> steps, many |-> FALSE]

Maybe(kind, g) == When(At({kind}), Then(<<T(kind), Listed(g)>>), Give(<<>>))
Flag(kind) == When(At({kind}), Then(<<T(kind), Give(TRUE)>>), Give(FALSE))
Name == Listed(Cap("IDENT"))
Chain(kind) == Then(<<Cap("IDENT"), While(At({kind}), Then(<<T(kind), Cap("IDENT")>>))>>)
Commas(g) == Then(<<g, While(At({"COMMA"}), Then(<<T("COMMA"), g>>))>>)
InParens(g) == Then(<<T("LPAREN"), g, T("RPAREN")>>)
InBraces(g) == Then(<<T("LBRACE"), g, T("RBRACE")>>)

\* The token at an offset; past the end it is the last one, EOF.
Peek(toks, p) == IF p <= Len(toks) THEN toks[p] ELSE toks[Len(toks)]

Sees(la, toks, p) ==
  /\ \A i \in 1 .. Len(la.kinds) : Peek(toks, p + i - 1).k \in la.kinds[i]
  /\ la.words = {} \/ Peek(toks, p).v \in la.words
  /\ Peek(toks, p + 1).k \notin la.unless

\* Where a parse stands and what it has read; at 0 it has failed.
Read(p, vals) == [at |-> p, vals |-> vals]
Failed == Read(0, <<>>)

\* The values of each of the classes, one list for each.
Groups(classes, vals) ==
  [j \in 1 .. Len(classes) |-> SelectSeq(vals, LAMBDA v : v[1] \in classes[j])]

\* A dict: a key keeps its first place and its last value.
Dict(kwargs) ==
  LET n == Len(kwargs)
      same(i) == {j \in 1 .. n : kwargs[j][2] = kwargs[i][2]}
      firsts == SelectSeq([i \in 1 .. n |-> i], LAMBDA i : \A j \in same(i) : i <= j)
  IN [f \in 1 .. Len(firsts) |-> kwargs[CHOOSE j \in same(firsts[f]) : \A l \in same(firsts[f]) : l <= j]]
====
