---- MODULE FrontEnd ----
(***************************************************************************)
(* From tokens to the dependency manifest: Parser reads a source, Deps     *)
(* walks the items it read.  A source may carry the tree it was written    *)
(* for (SourceText), to compare with.                                      *)
(***************************************************************************)
EXTENDS Parser, Deps, SourceText

Reading == [header |-> header, items |-> items, stmts |-> stmts]

--------------------------------------------------------------------------
(* What the parser promises. *)

\* Does the text of an expression end in a name that a `{` turns into a struct literal?
EndsInName(e) ==
  LET s == Show(e)
      n == Len(s)
  IN s[n].k = "IDENT" /\ (n = 1 \/ s[n - 1].k # "DOT")

\* Headers followed by a block: the field of the header, that of the block.
Headed == [IfStmt |-> <<1, 2>>, IfExpr |-> <<1, 2>>, ForStmt |-> <<2, 3>>, ForallStmt |-> <<2, 3>>,
           MatchStmt |-> <<1, 2>>, MatchExpr |-> <<1, 2>>]
Swallowed(t) ==
  \E n \in Reached(t, FullWalker) :
    n[1] \in DOMAIN Headed /\ EndsInName(n[Headed[n[1]][1] + 1]) /\ n[Headed[n[1]][2] + 1] = <<>>

Trees == {items[i] : i \in 1 .. Len(items)} \cup {stmts[i] : i \in 1 .. Len(stmts)}
SourceTrees ==
  {src.tree.items[i] : i \in 1 .. Len(src.tree.items)}
  \cup {src.tree.stmts[i] : i \in 1 .. Len(src.tree.stmts)}

\* What is read has the shape of the classes of ast.py, and reading back
\* what was written for a tree gives the tree: no operator
\* binds or associates otherwise than the language says and no construct is
\* taken for another.  Nothing is said of an empty block after a header that
\* ends in a name: see EmptyBlocksRead.
SwallowsBlock == \E t \in SourceTrees : Swallowed(t)
ReadAsWritten == status = "done" /\ Reading = src.tree
RoundTrip ==
  /\ \A i \in 1 .. Len(items) : items[i][1] \in Classes.Item /\ Conforms(items[i])
  /\ \A i \in 1 .. Len(stmts) : stmts[i][1] \in Classes.Stmt /\ Conforms(stmts[i])
  /\ src.written /\ status \in {"done", "error"} => SwallowsBlock \/ ReadAsWritten

\* "in statement position after `if`/`for`/`while`/etc., it's a block"
\* (design.md:3134), "This avoids mis-parsing `if cond { ... }`"
\* bodies (parser.py:1162): an empty block after a header that ends in a name too.
\* It is not: `if x { }` is read as the struct literal `x { }`, and rejected
\* for want of a block (_looks_like_struct_lit).
EmptyBlocksRead == src.written /\ status \in {"done", "error"} /\ SwallowsBlock => ReadAsWritten

\* The names, numbers and texts of a tree.
RECURSIVE WordsOf(_)
WordsOf(t) ==
  LET sorts == Fields[t[1]]
      words(x, c) == CASE c = "name" -> {x[i] : i \in 1 .. Len(x)}
                       [] c = "word" -> {x}
                       [] c \in {"literal", "bool"} -> {}
                       [] OTHER -> WordsOf(x)
  IN UNION {LET xs == FieldValues(t[i + 1], sorts[i])
            IN UNION {words(xs[j], sorts[i].of) : j \in 1 .. Len(xs)} : i \in 1 .. Len(sorts)}

WordKinds == {"IDENT", "NUMBER", "STRING", "RAWSTRING", "REGEX", "SQL_BLOCK", "JQ_BLOCK"}
Contextual == {"_", "map", "state", "step", "merge", "finish"}

\* The places whose words the parser reads and forgets.
ForgottenAt(i) ==
  LET toks == src.toks
      is(j, k) == j \in 1 .. Len(toks) /\ toks[j].k = k
      none(kinds, j, l) == \A m \in j .. l : toks[m].k \notin kinds
      opened(j, l) == Cardinality({m \in j .. l : toks[m].k \in {"LPAREN", "LBRACE", "LBRACKET"}})
      closed(j, l) == Cardinality({m \in j .. l : toks[m].k \in {"RPAREN", "RBRACE", "RBRACKET"}})
      inside(j, l) == \A m \in j .. l : closed(j, m) <= opened(j, m)
      keyword(j) == is(j, "IDENT") /\ is(j + 1, "EQ") /\ (is(j - 1, "LPAREN") \/ is(j - 1, "COMMA"))
      category(j) == is(j - 1, "AT") /\ <<toks[j].v>> \in categories
  IN \* the type of merge's parameter
     \/ \E j \in 1 .. i - 4 : toks[j].v = "merge" /\ is(j + 1, "LPAREN") /\ is(j + 3, "COLON")
                              /\ none({"RPAREN"}, j + 2, i)
     \* the value of a keyword argument that the same list gives again
     \/ \E j \in 1 .. i - 2, l \in i + 1 .. Len(toks) :
          /\ keyword(j) /\ keyword(l) /\ toks[j].v = toks[l].v
          /\ inside(j, l) /\ opened(j, l) = closed(j, l)
          /\ \A m \in j .. i : is(m, "COMMA") => opened(j, m) # closed(j, m)
     \* an aggregate's result, when its finish states one too
     \/ \E a, j \in 1 .. i - 1, l \in i + 1 .. Len(toks) :
          /\ a < j /\ is(a, "KW_AGGREGATE") /\ is(j, "ARROW") /\ none({"LBRACE"}, a, i)
          /\ toks[l].v = "finish" /\ is(l + 3, "ARROW") /\ none({"KW_AGGREGATE"}, i, l)
     \* a category of an error, when a later annotation of it is one too
     \/ category(i) /\ \E l \in i + 2 .. Len(toks) : category(l) /\ none(ItemStart, i, l)

\* Nothing of an accepted source is silently lost: every name, number and
\* text of it is in what was read, outside the four places above.
NothingLost ==
  status = "done" =>
    LET read == UNION {WordsOf(t) : t \in Trees \cup {Append(header[i], items) : i \in 1 .. Len(header)}}
    IN \A i \in 1 .. Len(src.toks) :
         src.toks[i].k \in WordKinds /\ src.toks[i].v \notin read \cup Contextual => ForgottenAt(i)

--------------------------------------------------------------------------
(* What the manifest promises. *)

\* The expressions no walker goes into: keyword arguments, tuples, defaults
\* of parameters and of aggregate state, arguments of annotations.
Unwalked ==
  [Call |-> {4}, TupleLit |-> {1}, Param |-> {4}, AggregateDef |-> {7}, Annotation |-> {2, 3}]
\* Those the SQL walker alone leaves out: conditions of if statements and
\* targets of assignments.
UnwalkedSql == [IfStmt |-> {1}, AssignStmt |-> {1}]

\* The nodes below a field of the table, from any node of t.
Within(t, table) ==
  UNION {UNION {UNION {Reached(xs[j], FullWalker) : j \in 1 .. Len(xs)} :
                  xs \in {FieldValues(n[i + 1], Fields[n[1]][i]) : i \in table[n[1]]}} :
           n \in {n \in Reached(t, FullWalker) : n[1] \in DOMAIN table}}

\* A DBA who reads the manifest of a module sees every table its SQL blocks
\* name and every package it calls, wherever they stand in its functions,
\* methods and aggregates, except in the places above; a package that has the
\* name of one of the module's enums is taken for the enum.
ManifestComplete ==
  status = "done" =>
    LET deps == collect_module_deps(items)
        enums == {LowerName(items[i][4]) : i \in {i \in 1 .. Len(items) : items[i][1] = "EnumDef"}}
        pseudo == {<<"pivot">>, <<"json">>}
    IN \A i \in 1 .. Len(items) :
         LET seen == Reached(items[i], FullWalker) \ Within(items[i], Unwalked)
         IN /\ \A n \in seen \ Within(items[i], UnwalkedSql) :
                 n[1] = "SqlBlock" => Tables(n[2]) \subseteq deps.tables /\ Dblinks(n[2]) \subseteq deps.dblinks
            /\ \A n \in seen :
                 n[1] = "Ident" => package_from_qualified(n[2]) \subseteq deps.packages \cup enums \cup pseudo
====
