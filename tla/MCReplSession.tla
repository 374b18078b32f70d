---- MODULE MCReplSession ----
(***************************************************************************)
(* What TLC types at ReplSession's prompt.                                 *)
(***************************************************************************)
EXTENDS ReplSession, TLC

Def(kind, name, fields, ok) == [kind |-> kind, name |-> name, fields |-> fields, ok |-> ok]
Let(x, type, typing, val) == [op |-> "let", var |-> x, type |-> type, typing |-> typing, val |-> val]
LetOne(x, type, typing, val) == Let(x, type, typing, "" :> val)
Set(x, val) == [op |-> "set", var |-> x, val |-> "" :> val]
Do(op) == [op |-> op]
Cell(defs, stmts) == [defs |-> defs, stmts |-> stmts]

MyVars == {"x", "y"}
Record(fields) == Def("record", "E", fields, TRUE)
Text(fields) == [f \in fields |-> "VARCHAR2"]
E1 == Record(Text({"f"}))
E2 == Record(Text({"f", "g"}))
E3 == Record([f |-> "VARCHAR2", g |-> "NUMBER"])

MyCells ==
  {Cell({}, <<LetOne("x", "NUMBER", "annotated", "1"), Do("print")>>),
   Cell({}, <<LetOne("x", "VARCHAR2", "annotated", "abc")>>),
   Cell({}, <<LetOne("x", "NUMBER", "inferred", "2"), Do("insert")>>),
   Cell({}, <<Set("x", "2"), Do("print"), Do("insert")>>),
   Cell({}, <<LetOne("x", "NUMBER", "annotated", "null")>>),
   Cell({}, <<LetOne("x", "NUMBER", "annotated", "2"), Do("return")>>),
   Cell({}, <<LetOne("x", "VARCHAR2", "annotated", "1"), LetOne("y", "VARCHAR2", "annotated", "huge")>>),
   Cell({E2}, <<Let("y", "E", "annotated", [f |-> "1", g |-> "huge"])>>),
   Cell({}, <<Do("print")>>),
   Cell({E2}, <<Let("y", "E", "annotated", [f |-> "1", g |-> "abc"])>>),
   Cell({E1}, <<>>), Cell({E3}, <<>>),
   Cell({}, <<Do("insert"), Do("commit"), Do("insert")>>),
   Cell({}, <<Let("y", "E", "registry", [f |-> "1", g |-> "null"])>>),
   Cell({}, <<LetOne("y", "LIST", "annotated", "1")>>),
   Cell({Def("error", "E", <<>>, FALSE)}, <<>>)}
====
