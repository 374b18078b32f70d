---- MODULE MCFrontEnd ----
(***************************************************************************)
(* The sources TLC reads: each expression form around each other one, each *)
(* statement and item around each expression form, written out by          *)
(* SourceText, and every deletion, doubling, exchange and replacement of a *)
(* token in a few programs that use the whole grammar.                     *)
(***************************************************************************)
EXTENDS FrontEnd, TLC

MCLower(w) == IF w = "Acct" THEN "acct" ELSE w
MCTables(text) == IF text = "select" THEN {<<"emp">>} ELSE {}
MCDblinks(text) == IF text = "remote" THEN {"prod"} ELSE {}

x == <<"Ident", <<"x">>>>
one == <<"NumberLit", "1">>
sql == <<"SqlBlock", "select">>
call == <<"Call", <<"Ident", <<"Acct", "pay">>>>, <<>>, <<x>>, <<>>>>
use == <<"ExprStmt", call>>
num == <<"PrimType", <<"number">>>>
rec == <<"NamedType", <<"pkg", "Rec">>>>
\* written like an expression whose text starts or ends in every kind of token
Simple == {x, one, <<"TextLit", "t", FALSE>>, <<"TextLit", "raw", TRUE>>, <<"BoolLit", TRUE>>, <<"UnitLit">>,
           <<"NullLit">>, <<"NoneExpr">>, <<"Ident", <<"self">>>>, <<"Ident", <<"a", "b">>>>, sql,
           <<"JqBlock", "path">>, <<"StructLit", <<"S">>, <<>>>>, <<"ListLit", <<>>>>}

Ops == {"DOTDOT", "PIPEPIPE", "AMPAMP", "EQEQ", "LT", "GE", "PLUS", "MINUS", "SLASH"}
\* The forms with e in one place.
Around(e) ==
  {<<"BinOp", e, op, x>> : op \in Ops} \cup {<<"BinOp", one, op, e>> : op \in Ops}
  \cup {<<"UnaryOp", op, e>> : op \in {"MINUS", "BANG"}}
  \cup {<<"PipelineExpr", e, x>>, <<"PipelineExpr", x, e>>, <<"QuestionMark", e>>,
        <<"MemberAccess", e, <<"f">>>>, <<"Call", e, <<>>, <<one>>, <<>>>>,
        <<"Call", x, <<>>, <<one, e>>, <<<<"Kwarg", <<"k">>, e>>>>>>,
        <<"Call", <<"MemberAccess", e, <<"into">>>>, <<num, rec>>, <<e>>, <<>>>>,
        <<"StructLit", <<"p", "S">>, <<<<"FieldInit", <<"f">>, e>>, <<"FieldInit", <<"g">>, one>>>>>>,
        <<"ListLit", <<e, e>>>>, <<"TupleLit", <<e>>>>, <<"TupleLit", <<e, x>>>>,
        <<"OkExpr", e>>, <<"ErrExpr", e>>, <<"SomeExpr", e>>}
Control(e) ==
  {<<"IfExpr", e, <<>>, <<>>>>, <<"IfExpr", e, <<use>>, <<<<use>>>>>>, <<"MatchExpr", e, <<>>>>,
   <<"MatchExpr", x, <<<<"MatchArm", <<"VariantPattern", <<"KW_SOME">>, <<<<"BindingPattern", <<"v">>>>>>, <<>>, FALSE>>, e>>,
                       <<"MatchArm", <<"WildcardPattern">>, <<"Block", <<<<"ReturnStmt", <<e>>>>>>>>>>>>>>}
Forms == UNION {Around(e) \cup Control(e) : e \in {x, one}} \cup Simple

Patterns ==
  {<<"WildcardPattern">>, <<"LiteralPattern", "text", "1">>, <<"LiteralPattern", "bool", "KW_TRUE">>,
   <<"VariantPattern", <<"KW_NONE">>, <<>>, <<>>, FALSE>>,
   <<"VariantPattern", <<"KW_ERR">>,
     <<<<"VariantPattern", <<"NotFound">>, <<>>, <<<<"FieldPattern", <<"id">>, <<>>>>,
                             <<"FieldPattern", <<"why">>, <<<<"BindingPattern", <<"w">>>>>>>>>>, TRUE>>>>, <<>>, FALSE>>,
   <<"VariantPattern", <<"Pair">>, <<<<"BindingPattern", <<"l">>>>, <<"WildcardPattern">>>>, <<>>, FALSE>>}

StmtsOf(e) ==
  {<<"ExprStmt", e>>, <<"ReturnStmt", <<e>>>>, <<"YieldStmt", e>>, <<"AssignStmt", x, e>>, <<"AssignStmt", e, x>>,
   <<"LetStmt", TRUE, <<"n">>, <<num>>, <<e>>>>, <<"IfStmt", e, <<>>, <<>>>>, <<"IfStmt", e, <<use>>, <<>>>>,
   <<"IfStmt", e, <<use>>, <<<<<<"IfStmt", x, <<<<"ReturnStmt", <<>>>>>>, <<<<>>>>>>>>>>>>,
   <<"ForStmt", <<"i">>, e, <<>>>>, <<"ForStmt", <<"i">>, e, <<use>>>>, <<"ForallStmt", <<"i">>, e, <<use>>>>,
   <<"TransactionStmt", <<<<"ExprStmt", e>>, use>>>>, <<"MatchStmt", e, <<>>>>}
  \cup {<<"MatchStmt", e, <<<<"MatchArm", p, e>>, <<"MatchArm", p, <<"Block", <<use>>>>>>>>>> : p \in Patterns}

Item1(e) ==
  LET p(mode, t, default) == <<"Param", mode, <<"p">>, t, default>>
      field(t) == <<"FieldDef", <<"f">>, t>>
      s == <<"ExprStmt", e>>
      ann == <<"Annotation", <<"touches">>, <<e, <<"Ident", <<"dept">>>>>>, <<<<"Kwarg", <<"order">>, e>>>>>>
      opt == <<"OptionalType", <<"GenericType", <<"list">>, <<<<"OptionalType", num>>, rec>>>>>>
      union == <<"ErrorUnionType", <<num, <<"NamedType", <<"E">>>>>>>>
      method(abstract) == <<"MethodDef", <<ann>>, abstract, <<"m">>, <<p("in", num, <<>>)>>, <<num>>, abstract,
                            IF abstract THEN <<>> ELSE <<s>>>>
      case == <<"CaseDef", <<"C">>, <<field(num)>>, <<method(FALSE)>>>>
      agg(merge) == <<"AggregateDef", <<>>, TRUE, <<"agg">>, <<p("in", num, <<>>)>>, <<<<"NamedType", <<"Total">>>>>>, <<field(num)>>, <<e>>,
                      <<p("in", opt, <<e>>)>>, <<s>>, merge, <<IF merge = <<>> THEN "other" ELSE "o">>, <<s>>>>
  IN {<<"FnDef", <<ann>>, TRUE, <<"g">>, <<p("out", union, <<e>>), p("inout", opt, <<>>)>>,
        <<<<"GenericType", <<"Result">>, <<<<"PrimType", <<"Unit">>>>, union>>>>>>, <<s>>, <<<<s, use>>>>, TRUE>>,
      <<"FnDef", <<>>, FALSE, <<"g">>, <<>>, <<>>, <<s>>, <<>>, FALSE>>,
      <<"TypeDef", <<>>, FALSE, <<"P">>, <<field(rec)>>, <<method(TRUE), method(FALSE)>>>>,
      <<"SealedTypeDef", <<ann>>, FALSE, <<"P">>, <<>>, <<method(FALSE)>>, <<case>>>>,
      agg(<<>>), agg(<<<<s>>>>),
      <<"RecordDef", <<ann>>, TRUE, <<"R">>, <<field(opt), field(<<"PrimType", <<"Never">>>>)>>>>}

Plain ==
  {<<"ErrorDef", <<>>, TRUE, <<"E">>, <<>>, "skip">>,
   <<"ErrorDef", <<>>, FALSE, <<"E">>, <<<<"FieldDef", <<"id">>, num>>>>, "propagate">>,
   <<"ImportStmt", <<>>, FALSE, <<"s", "COLONCOLON", "a", "DOT", "b">>>>,
   <<"SequenceDef", <<>>, TRUE, <<"hr", "ids">>>>,
   <<"EnumDef", <<>>, TRUE, <<"Acct">>, <<<<"EnumVariant", <<"A">>, <<>>>>, <<"EnumVariant", <<"B">>, <<"b">>>>>>>>}

Cell(is, ss) == [kind |-> "cell", tree |-> [header |-> <<>>, items |-> is, stmts |-> ss]]
Unit(m, is) == [kind |-> "module", tree |-> [header |-> <<m>>, items |-> is, stmts |-> <<>>]]

\* Items with e in one place only.
Fn(body, finally) == <<"FnDef", <<>>, FALSE, <<"g">>, <<>>, <<>>, body, finally, FALSE>>
Queries(e) ==
  LET all == StmtsOf(e) \cup {<<"ExprStmt", f>> : f \in Around(e) \cup Control(e)}
      without(t, is) == [i \in 1 .. Len(t) |-> IF i \in is THEN <<>> ELSE t[i]]
      parts == [TypeDef |-> {{}}, SealedTypeDef |-> {{6}, {7}}, AggregateDef |-> {{10, 13}, {10}, {13}}]
  IN {Fn(<<s>>, <<>>) : s \in all} \cup {Fn(<<>>, <<<<s>>>>) : s \in all}
     \cup UNION {{without(t, is) : is \in parts[t[1]]} : t \in {t \in Item1(e) : t[1] \in DOMAIN parts}}

Tokens(tree) ==
  FlattenSeq([i \in 1 .. Len(tree.header) |-> Header(tree.header[i])])
  \o FlattenSeq([i \in 1 .. Len(tree.items) |-> ShowItem(tree.items[i])])
  \o FlattenSeq([i \in 1 .. Len(tree.stmts) |-> ShowStmt(tree.stmts[i])])

\* A token deleted, doubled, exchanged with the next one, followed by a result type, or replaced.
Ways == {"delete", "double", "exchange", "result"} \cup {"k", "LBRACE", "COMMA", "KW_UNSAFE"}
Damaged(t, i, way) ==
  CASE way = "exchange" /\ i = Len(t) -> t
    [] way = "delete" -> RemoveAt(t, i)
    [] way = "double" -> InsertAt(t, i, t[i])
    [] way = "exchange" -> [t EXCEPT ![i] = t[i + 1], ![i + 1] = t[i]]
    [] way = "result" -> SubSeq(t, 1, i) \o Result(<<num>>) \o SubSeq(t, i + 1, Len(t))
    [] OTHER -> [t EXCEPT ![i] = IF way = "k" THEN Id("k")[1] ELSE Tk(way)]

\* A source as it was written, or with damage; its tree then stands for nothing.
AsWritten(of) ==
  [kind |-> of.kind, written |-> TRUE, toks |-> Append(Tokens(of.tree), Tk("EOF")), tree |-> of.tree]
WithDamage(of, toks) ==
  [kind |-> of.kind, written |-> FALSE, toks |-> Append(toks, Tk("EOF")),
   tree |-> [header |-> <<>>, items |-> <<>>, stmts |-> <<>>]]

\* Written out: expressions in expressions, statements and items around expressions.
Written ==
  UNION ({{Cell(<<>>, <<<<"ExprStmt", e>>>>) : e \in UNION {Around(f) : f \in Around(x) \cup Control(x)}},
          {Unit(<<"Module", <<>>, schema, <<"app", "lex">>>>, <<i, Fn(<<use>>, <<>>)>>) :
             schema \in {<<>>, <<<<"hr">>>>}, i \in Plain}}
         \cup {{Cell(<<>>, <<s, use>>) : s \in StmtsOf(e)} : e \in Forms}
         \cup {{Cell(<<i>>, <<use>>) : i \in Item1(e)} : e \in Simple \cup Around(one)}
         \cup {{Cell(<<f>>, <<>>) : f \in Queries(e)} : e \in {sql, <<"SqlBlock", "remote">>, call}})

\* Damaged: a program of each item and statement, at each of its tokens.
TwoCategories == <<"ErrorDef", <<<<"Annotation", <<"skip">>, <<>>, <<>>>>>>, TRUE, <<"E">>, <<>>, "panic">>
Programs ==
  {Cell(<<i>>, <<>>) : i \in Item1(<<"BinOp", x, "PLUS", one>>) \cup Plain \cup {TwoCategories}}
  \cup {Cell(<<>>, <<s>>) :
           s \in StmtsOf(<<"Call", x, <<>>, <<one>>, <<<<"Kwarg", <<"k">>, sql>>, <<"Kwarg", <<"l">>, x>>>>>>)}

\* The sources a reading starts from.
StartsAsWritten == \E of \in Written : \E s \in {AsWritten(of)} : Start(s)
StartsDamaged ==
  \E of \in Programs : \E toks \in {Tokens(of.tree)} : \E i \in 1 .. Len(toks), way \in Ways :
    Start(WithDamage(of, Damaged(toks, i, way)))

\* Statements with a name in every place, the end of a header among them.
StatementsInit == \E s \in StmtsOf(x) : Start(AsWritten(Cell(<<>>, <<s, use>>)))
StatementsSpec == StatementsInit /\ [][Next]_vars
====
