---- MODULE Assist ----
(***************************************************************************)
(* The answers of the language server to requests about a line of a text:  *)
(* where a name is defined and used, how a qualified name goes on, and how *)
(* a diagnostic is fixed (lsp/pell_lsp/server.py).  c are the registries   *)
(* of the project, mod the module last parsed from the document.           *)
(***************************************************************************)
EXTENDS Project

CONSTANTS
  NoModule,  \* in place of a module, when the document has none
  TopLines   \* the lines of a text among which a record looks for header and imports (20)

Place(f, i) == [file |-> f, line |-> i]
qualifier_before(l) == IF l.is \in {"call", "make"} /\ l.path # <<>> /\ ~(l.is = "call" /\ l.dotted)
                       THEN l.path[Len(l.path)] ELSE ""

\* The caret is on the name in line i of t.  The items of the file come first,
\* whatever qualifies the name; a bare name is looked for in every module.
on_definition(f, t, mod, c, i) ==
  LET word == t[i].name
      own == IF mod = NoModule THEN {} ELSE {j \in LocalDefs(mod, {"fn", "record", "error"}) : mod[j].name = word}
      pkg == qualifier_before(t[i])
      keys == {k \in DOMAIN c.defs : k[2] = word /\ pkg \in {"", k[1]}}
  IN IF own # {} THEN {Place(f, Least(own))}
     ELSE IF Cardinality(keys) = 1 THEN {c.defs[k] : k \in keys} ELSE {}

\* A name without a qualifier is the one of the module that alone has it.
on_references(t, c, i) ==
  LET word == t[i].name
      owners == {k[1] : k \in {k \in DOMAIN c.defs : k[2] = word}}
      pkg == IF qualifier_before(t[i]) = "" THEN CHOOSE p \in owners : TRUE ELSE qualifier_before(t[i])
      refs(k) == IF k \in DOMAIN c.refs THEN c.refs[k] ELSE {}
  IN IF qualifier_before(t[i]) = "" /\ Cardinality(owners) # 1 THEN {}
     ELSE refs(<<pkg, word>>) \cup (IF Cardinality(owners) = 1 THEN refs(<<"", word>>) ELSE {})

\* How `pkg::` goes on.
qualified_completions(c, pkg) ==
  {k[2] : k \in {k \in DOMAIN c.sigs : k[1] = <<pkg>>}} \cup {k[2] : k \in {k \in DOMAIN c.recs : k[1] = pkg}}

-----------------------------------------------------------------------------
(* Quick fixes: the text with the fix of diagnostic g applied, and, where   *)
(* a line is inserted, where it goes.                                      *)

InsertBefore(t, i, l) == SubSeq(t, 1, i - 1) \o <<l>> \o SubSeq(t, i, Len(t))
Plain(l) == l.is = "module" /\ ~l.tail

let_underscore(t, g) == [t EXCEPT ![g.line] = [@ EXCEPT !.bound = TRUE]]
dot_vs_colon(t, g) == [t EXCEPT ![g.line] = [@ EXCEPT !.dotted = FALSE]]

ImportOf(name) == [is |-> "import", schema |-> "", path |-> <<name>>]
\* Mutant: the import always goes on top.
import_on_top(t, g) == InsertBefore(t, 1, ImportOf(g.name))
\* After the module header, if nothing follows its semicolon; else on top.
import_line(t) == LET headers == {i \in DOMAIN t : Plain(t[i])} IN IF headers = {} THEN 1 ELSE Least(headers) + 1
missing_import(t, g) == InsertBefore(t, import_line(t), ImportOf(g.name))

\* A zero value is written for the types that have a literal and for those that
\* are one name, as a record of that name; what is written for others (`bytes`,
\* other generic types, qualified names, unions and options) no parser accepts.
zero_value_parses(type) == type \in {"literal", "name"}
\* On the line of the brace that closes the function.
return_line(t, g) ==
  IF t[g.line].oneline THEN g.line ELSE Least({j \in g.line + 1 .. Len(t) : t[j].is = "end"})
missing_return(t, g) ==
  InsertBefore(t, return_line(t, g), [is |-> IF zero_value_parses(t[g.line].type) THEN "return" ELSE "junk"])

\* After the header and the imports among the first lines.  The name is taken
\* with its qualifier, and then is none.
record_line(t) ==
  LET above == {i \in DOMAIN t : i <= TopLines /\ (Plain(t[i]) \/ t[i].is = "import")}
  IN 1 + CHOOSE i \in above \cup {0} : \A j \in above : j <= i
RecordOf(name) == [is |-> "def", kind |-> "record", name |-> name, pub |-> TRUE, ret |-> FALSE, oneline |-> TRUE]
unknown_struct_type(t, g) ==
  InsertBefore(t, record_line(t), IF t[g.line].path = <<>> THEN RecordOf(g.name) ELSE [is |-> "junk"])

Fixes == {"pell.unused-return", "pell.dot-vs-colon", "pell.missing-import", "pell.missing-return",
          "pell.unknown-struct-type"}
on_code_action(t, g) ==
  CASE g.code = "pell.unused-return" -> let_underscore(t, g)
    [] g.code = "pell.dot-vs-colon" -> dot_vs_colon(t, g)
    [] g.code = "pell.missing-import" -> missing_import(t, g)
    [] g.code = "pell.missing-return" -> missing_return(t, g)
    [] g.code = "pell.unknown-struct-type" -> unknown_struct_type(t, g)
\* Where line g.line of t is after the fix.
line_after(t, g) ==
  LET moved == \/ g.code = "pell.missing-import" /\ import_line(t) <= g.line
               \/ g.code = "pell.missing-return" /\ return_line(t, g) <= g.line
               \/ g.code = "pell.unknown-struct-type" /\ record_line(t) <= g.line
  IN IF moved THEN g.line + 1 ELSE g.line
====
