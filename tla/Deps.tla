---- MODULE Deps ----
(***************************************************************************)
(* The dependency manifest of a module (compiler/pell/deps.py): which      *)
(* tables, dblinks, sequences and packages the comment at the top of the   *)
(* generated PL/SQL names.  A walker of the code is a table of the fields  *)
(* it goes into, by their numbers in Ast.                                  *)
(***************************************************************************)
EXTENDS Ast, FiniteSets

CONSTANTS
  Lower(_),       \* str.lower, on the words in use
  Tables(_),      \* extract_sql_deps(text): the tables, lower case
  Dblinks(_)      \* and the dblinks of a sql!{} text

\* Mutant: finally blocks are not walked.
walk_items_without_finally ==
  [FnDef |-> {6}, TypeDef |-> {5}, SealedTypeDef |-> {5, 6}, CaseDef |-> {3},
   MethodDef |-> {7}, AggregateDef |-> {9, 10, 12}]

walk_items_for_sql ==
  [FnDef |-> {6, 7}, TypeDef |-> {5}, SealedTypeDef |-> {5, 6}, CaseDef |-> {3},
   MethodDef |-> {7}, AggregateDef |-> {9, 10, 12}]

walk_stmts_for_sql ==
  [LetStmt |-> {4}, AssignStmt |-> {2}, ReturnStmt |-> {1}, ExprStmt |-> {1}, YieldStmt |-> {1},
   IfStmt |-> {2, 3}, ForStmt |-> {2, 3}, ForallStmt |-> {2, 3}, MatchStmt |-> {1, 2},
   MatchArm |-> {2}, Block |-> {1}, TransactionStmt |-> {1}]

walk_expr_for_sql ==
  [QuestionMark |-> {1}, Call |-> {1, 3}, MemberAccess |-> {1}, BinOp |-> {1, 3}, UnaryOp |-> {2},
   StructLit |-> {2}, FieldInit |-> {2}, ListLit |-> {1}, PipelineExpr |-> {1, 2},
   OkExpr |-> {1}, ErrExpr |-> {1}, SomeExpr |-> {1}, IfExpr |-> {1, 2, 3}, MatchExpr |-> {1, 2}]

walk_items_for_qualified_idents ==
  [FnDef |-> {6, 7}, TypeDef |-> {5}, SealedTypeDef |-> {5, 6}, CaseDef |-> {3},
   MethodDef |-> {7}, AggregateDef |-> {9, 10, 12}]

walk_stmts_for_idents ==
  [LetStmt |-> {4}, AssignStmt |-> {1, 2}, ReturnStmt |-> {1}, ExprStmt |-> {1}, YieldStmt |-> {1},
   IfStmt |-> {1, 2, 3}, ForStmt |-> {2, 3}, ForallStmt |-> {2, 3}, MatchStmt |-> {1, 2},
   MatchArm |-> {2}, Block |-> {1}, TransactionStmt |-> {1}]

walk_expr_for_idents ==
  [Call |-> {1, 3}, MemberAccess |-> {1}, QuestionMark |-> {1}, BinOp |-> {1, 3}, UnaryOp |-> {2},
   StructLit |-> {2}, FieldInit |-> {2}, ListLit |-> {1}, PipelineExpr |-> {1, 2},
   OkExpr |-> {1}, ErrExpr |-> {1}, SomeExpr |-> {1}, IfExpr |-> {1, 2, 3}, MatchExpr |-> {1, 2}]

Walker(item, stmts, expr) ==
  [k \in DOMAIN item \cup DOMAIN stmts \cup DOMAIN expr |->
     CASE k \in DOMAIN item -> item[k] [] k \in DOMAIN stmts -> stmts[k] [] OTHER -> expr[k]]

SqlWalker == Walker(walk_items_for_sql, walk_stmts_for_sql, walk_expr_for_sql)
IdentWalker == Walker(walk_items_for_qualified_idents, walk_stmts_for_idents, walk_expr_for_idents)

\* A walker that goes into every field that holds a node.
FullWalker ==
  [k \in DOMAIN Fields |-> {i \in 1 .. Len(Fields[k]) : Fields[k][i].of \notin Leaves}]

\* The nodes a walker reaches from t, t included.
RECURSIVE Reached(_, _)
Reached(t, walker) ==
  {t} \cup
  (IF t[1] \notin DOMAIN walker THEN {}
   ELSE UNION {UNION {Reached(xs[j], walker) : j \in 1 .. Len(xs)} :
                 xs \in {FieldValues(t[i + 1], Fields[t[1]][i]) : i \in walker[t[1]]}})

Nodes(class, item, walker) == {t \in Reached(item, walker) : t[1] = class}

\* Everything before the last segment, in lower case; none without `::`.
package_from_qualified(name) ==
  IF Len(name) = 1 THEN {} ELSE {[i \in 1 .. Len(name) - 1 |-> Lower(name[i])]}

LowerName(name) == [i \in 1 .. Len(name) |-> Lower(name[i])]

\* @touches(t1, t2) on a function adds the names it is given.
touched(item) ==
  IF item[1] # "FnDef" THEN {}
  ELSE UNION {{LowerName(item[2][i][3][j][2]) :
                 j \in {j \in 1 .. Len(item[2][i][3]) : item[2][i][3][j][1] = "Ident"}} :
                i \in {i \in 1 .. Len(item[2]) : item[2][i][2] = <<"touches">>}}

collect_module_deps(items) ==
  LET of(class) == {items[i] : i \in {i \in 1 .. Len(items) : items[i][1] = class}}
      walked == {items[i] : i \in {i \in 1 .. Len(items) : items[i][1] \notin {"SequenceDef", "ErrorDef"}}}
      texts == UNION {{s[2] : s \in Nodes("SqlBlock", it, SqlWalker)} : it \in walked}
      idents == UNION {{n[2] : n \in Nodes("Ident", it, IdentWalker)} : it \in walked}
      named == UNION {package_from_qualified(n) : n \in idents}
      enums == {LowerName(e[4]) : e \in of("EnumDef")}
  IN [tables |-> UNION {Tables(x) : x \in texts} \cup UNION {touched(it) : it \in walked},
      dblinks |-> UNION {Dblinks(x) : x \in texts},
      sequences |-> {LowerName(q[4]) : q \in of("SequenceDef")},
      packages |-> (named \cup (IF of("ErrorDef") = {} THEN {} ELSE {<<"pell_runtime">>}))
                   \ (enums \cup {<<"pivot">>, <<"json">>})]
====
