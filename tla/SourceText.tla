---- MODULE SourceText ----
(***************************************************************************)
(* What a programmer writes for a syntax tree: the tokens of each kind of  *)
(* node, with parentheses where an operand binds less tightly than its     *)
(* place demands.  Written from the language, not from the parser, so that *)
(* Parser can be compared with it.                                         *)
(***************************************************************************)
EXTENDS Ast, SequencesExt

LOCAL Tk(kind) == [k |-> kind, v |-> kind]
Tks(kinds) == [i \in 1 .. Len(kinds) |-> Tk(kinds[i])]
Word(kind, v) == <<[k |-> kind, v |-> v]>>
Id(x) == Word("IDENT", x)

RECURSIVE Joined(_, _)
Joined(parts, sep) ==
  IF parts = <<>> THEN <<>>
  ELSE IF Len(parts) = 1 THEN parts[1]
  ELSE parts[1] \o sep \o Joined(Tail(parts), sep)

Path(name, sep) == Joined([i \in 1 .. Len(name) |-> Id(name[i])], <<Tk(sep)>>)
Commad(parts) == Joined(parts, <<Tk("COMMA")>>)
Parens(s) == <<Tk("LPAREN")>> \o s \o <<Tk("RPAREN")>>
Braces(s) == <<Tk("LBRACE")>> \o s \o <<Tk("RBRACE")>>
IfAny(opt, kind, s) == IF opt = <<>> THEN <<>> ELSE <<Tk(kind)>> \o s
Optional(flag, kind) == IF flag THEN <<Tk(kind)>> ELSE <<>>

\* How tightly an operator binds; ranges do not associate, the others to the left.
Levels == <<{"PIPEGT"}, {"DOTDOT", "DOTDOTEQ"}, {"PIPEPIPE"}, {"AMPAMP"}, {"EQEQ", "BANGEQ"},
            {"LT", "LE", "GT", "GE"}, {"PLUS", "MINUS"}, {"STAR", "SLASH", "PERCENT"}>>
LevelOf(op) == CHOOSE l \in 1 .. Len(Levels) : op \in Levels[l]
Prefix == 9
Postfix == 10
Level(e) ==
  CASE e[1] = "PipelineExpr" -> 1
    [] e[1] = "BinOp" -> LevelOf(e[3])
    [] e[1] = "UnaryOp" -> Prefix
    [] e[1] \in {"MemberAccess", "Call", "QuestionMark"} -> Postfix
    [] OTHER -> Postfix + 1

RECURSIVE ShowType(_), ShowPattern(_), Show(_), Expr(_, _), ShowStmt(_), ShowArm(_)
Shows(ts) == [i \in 1 .. Len(ts) |-> Show(ts[i])]

ShowType(t) ==
  LET atom(u) == IF u[1] = "ErrorUnionType" THEN Parens(ShowType(u)) ELSE ShowType(u)
      each(ts, f(_)) == [i \in 1 .. Len(ts) |-> f(ts[i])]
  IN CASE t = <<"PrimType", <<"Unit">>>> -> Tks(<<"LPAREN", "RPAREN">>)
       [] t = <<"PrimType", <<"Never">>>> -> Tks(<<"BANG">>)
       [] t[1] = "OptionalType" -> ShowType(t[2]) \o Tks(<<"QUESTION">>)
       [] t[1] = "GenericType" ->
            Path(t[2], "COLONCOLON") \o Tks(<<"LT">>) \o Commad(each(t[3], ShowType)) \o Tks(<<"GT">>)
       [] t[1] = "ErrorUnionType" -> Joined(each(t[2], atom), Tks(<<"PIPE">>))
       [] OTHER -> Path(t[2], "COLONCOLON")

ShowPattern(t) ==
  LET patterns(ps) == Commad([i \in 1 .. Len(ps) |-> ShowPattern(ps[i])])
      field(f) == Id(f[2][1]) \o (IF f[3] = <<>> THEN <<>> ELSE <<Tk("COLON")>> \o ShowPattern(f[3][1]))
      constructors == {"KW_SOME", "KW_OK", "KW_ERR", "KW_NONE"}
      name == IF t[2][1] \in constructors THEN Tks(t[2]) ELSE Id(t[2][1])
  IN CASE t[1] = "WildcardPattern" -> Id("_")
       [] t[1] = "BindingPattern" -> Id(t[2][1])
       [] t[1] = "LiteralPattern" -> IF t[2] = "bool" THEN Tks(<<t[3]>>) ELSE Word("STRING", t[3])
       [] t[4] # <<>> \/ t[5] ->
            name \o Braces(Commad([i \in 1 .. Len(t[4]) |-> field(t[4][i])]
                                  \o (IF t[5] THEN <<Tks(<<"DOTDOT">>)>> ELSE <<>>)))
       [] OTHER -> name \o IfAny(t[3], "LPAREN", patterns(t[3]) \o Tks(<<"RPAREN">>))

\* e where something that binds at least as tightly as level is wanted.
Expr(e, level) == IF Level(e) < level THEN Parens(Show(e)) ELSE Show(e)

Statements(ss) == Braces(FlattenSeq([i \in 1 .. Len(ss) |-> ShowStmt(ss[i])]))
Types(ts) == Tks(<<"LT">>) \o Commad([i \in 1 .. Len(ts) |-> ShowType(ts[i])]) \o Tks(<<"GT">>)
Named(kws) == [i \in 1 .. Len(kws) |-> Id(kws[i][2][1]) \o Tks(<<"EQ">>) \o Show(kws[i][3])]
Arms(as) == Braces(FlattenSeq([i \in 1 .. Len(as) |-> ShowArm(as[i])]))
ShowArm(a) ==
  ShowPattern(a[2]) \o Tks(<<"ARROW">>)
  \o (IF a[3][1] = "Block" THEN Statements(a[3][2]) ELSE Show(a[3])) \o Tks(<<"COMMA">>)
Wrapped(kind, e) == Tks(<<kind>>) \o Parens(Show(e))

Show(e) ==
  CASE e[1] = "NumberLit" -> Word("NUMBER", e[2])
    [] e[1] = "TextLit" -> Word(IF e[3] THEN "RAWSTRING" ELSE "STRING", e[2])
    [] e[1] = "BoolLit" -> Tks(<<IF e[2] THEN "KW_TRUE" ELSE "KW_FALSE">>)
    [] e[1] = "UnitLit" -> Parens(<<>>)
    [] e[1] = "NullLit" -> Tks(<<"KW_NULL">>)
    [] e[1] = "NoneExpr" -> Tks(<<"KW_NONE">>)
    [] e[1] = "Ident" -> IF e[2] = <<"self">> THEN Tks(<<"KW_SELF">>) ELSE Path(e[2], "COLONCOLON")
    [] e[1] = "SqlBlock" -> Word("SQL_BLOCK", e[2])
    [] e[1] = "JqBlock" -> Word("JQ_BLOCK", e[2])
    [] e[1] = "MemberAccess" -> Expr(e[2], Postfix) \o Tks(<<"DOT">>) \o Id(e[3][1])
    [] e[1] = "QuestionMark" -> Expr(e[2], Postfix) \o Tks(<<"QUESTION">>)
    [] e[1] = "Call" ->
         Expr(e[2], Postfix) \o IfAny(e[3], "COLONCOLON", Types(e[3]))
         \o Parens(Commad(Shows(e[4]) \o Named(e[5])))
    [] e[1] = "UnaryOp" -> Tks(<<e[2]>>) \o Expr(e[3], Prefix)
    [] e[1] = "PipelineExpr" -> Expr(e[2], 1) \o Tks(<<"PIPEGT">>) \o Expr(e[3], 2)
    [] e[1] = "BinOp" ->
         LET l == LevelOf(e[3])
         IN Expr(e[2], IF l = 2 THEN 3 ELSE l) \o Tks(<<e[3]>>) \o Expr(e[4], l + 1)
    [] e[1] = "StructLit" ->
         Path(e[2], "COLONCOLON")
         \o Braces(Commad([i \in 1 .. Len(e[3]) |-> Id(e[3][i][2][1]) \o Tks(<<"COLON">>) \o Show(e[3][i][3])]))
    [] e[1] = "ListLit" -> Tks(<<"LBRACKET">>) \o Commad(Shows(e[2])) \o Tks(<<"RBRACKET">>)
    [] e[1] = "TupleLit" -> Parens(Commad(Shows(e[2])) \o (IF Len(e[2]) = 1 THEN Tks(<<"COMMA">>) ELSE <<>>))
    [] e[1] = "OkExpr" -> IF e[2] = <<"UnitLit">> THEN Tks(<<"KW_OK", "LPAREN", "RPAREN">>) ELSE Wrapped("KW_OK", e[2])
    [] e[1] = "ErrExpr" -> Wrapped("KW_ERR", e[2])
    [] e[1] = "SomeExpr" -> Wrapped("KW_SOME", e[2])
    [] e[1] = "IfExpr" ->
         Tks(<<"KW_IF">>) \o Show(e[2]) \o Statements(e[3])
         \o IfAny(e[4], "KW_ELSE", IF e[4] = <<>> THEN <<>> ELSE Statements(e[4][1]))
    [] e[1] = "MatchExpr" -> Tks(<<"KW_MATCH">>) \o Show(e[2]) \o Arms(e[3])

\* An expression that starts a statement must not look like another statement.
Leading(e) ==
  LET s == Show(e) IN IF s[1].k \in {"KW_IF", "KW_MATCH"} THEN Parens(s) ELSE s

ShowStmt(t) ==
  LET end == Tks(<<"SEMI">>)
      loop(kw) == Tks(<<kw>>) \o Id(t[2][1]) \o Tks(<<"KW_IN">>) \o Show(t[3]) \o Statements(t[4])
      is == t[1]
  IN CASE is = "LetStmt" ->
            Tks(<<IF t[2] THEN "KW_VAR" ELSE "KW_LET">>) \o Id(t[3][1])
            \o (IF t[4] = <<>> THEN <<>> ELSE Tks(<<"COLON">>) \o ShowType(t[4][1]))
            \o (IF t[5] = <<>> THEN <<>> ELSE Tks(<<"EQ">>) \o Show(t[5][1])) \o end
       [] is = "AssignStmt" -> Leading(t[2]) \o Tks(<<"EQ">>) \o Show(t[3]) \o end
       [] is = "ReturnStmt" -> Tks(<<"KW_RETURN">>) \o (IF t[2] = <<>> THEN <<>> ELSE Show(t[2][1])) \o end
       [] is = "IfStmt" ->
            Tks(<<"KW_IF">>) \o Show(t[2]) \o Statements(t[3])
            \o IfAny(t[4], "KW_ELSE", IF t[4] = <<>> THEN <<>> ELSE Statements(t[4][1]))
       [] is = "ForStmt" -> loop("KW_FOR")
       [] is = "ForallStmt" -> loop("KW_FORALL")
       [] is = "MatchStmt" -> Tks(<<"KW_MATCH">>) \o Show(t[2]) \o Arms(t[3])
       [] is = "TransactionStmt" -> Tks(<<"KW_TRANSACTION">>) \o Statements(t[2])
       [] is = "YieldStmt" -> Tks(<<"KW_YIELD">>) \o Show(t[2]) \o end
       [] is = "ExprStmt" -> Leading(t[2]) \o end

--------------------------------------------------------------------------
(* Items. *)

Annotations(as) ==
  FlattenSeq([i \in 1 .. Len(as) |->
    Tks(<<"AT">>) \o Id(as[i][2][1])
    \o (IF as[i][3] \o as[i][4] = <<>> THEN <<>>
        ELSE Parens(Commad(Shows(as[i][3]) \o Named(as[i][4]))))])
FieldList(fs, sep) ==
  [i \in 1 .. Len(fs) |-> Id(fs[i][2][1]) \o Tks(<<"COLON">>) \o ShowType(fs[i][3]) \o sep]
Params(ps) ==
  Parens(Commad([i \in 1 .. Len(ps) |->
    (IF ps[i][2] = "in" THEN <<>> ELSE Tks(<<IF ps[i][2] = "out" THEN "KW_OUT" ELSE "KW_INOUT">>))
    \o Id(ps[i][3][1]) \o Tks(<<"COLON">>) \o ShowType(ps[i][4])
    \o (IF ps[i][5] = <<>> THEN <<>> ELSE Tks(<<"EQ">>) \o Show(ps[i][5][1]))]))
Result(r) == IF r = <<>> THEN <<>> ELSE Tks(<<"ARROW">>) \o ShowType(r[1])

Method(m) ==
  Annotations(m[2]) \o (IF m[3] THEN Id("map") ELSE <<>>) \o Tks(<<"KW_FN">>) \o Id(m[4][1])
  \o Params(m[5]) \o Result(m[6]) \o (IF m[7] THEN Tks(<<"SEMI">>) ELSE Statements(m[8]))
Methods(ms) == FlattenSeq([i \in 1 .. Len(ms) |-> Method(ms[i])])
Members(fs) == FlattenSeq(FieldList(fs, Tks(<<"SEMI">>)))
Case(c) == Tks(<<"KW_CASE">>) \o Id(c[2][1]) \o Braces(Members(c[3])) \o Braces(Methods(c[4]))

ShowItem(t) ==
  LET head(kinds) == Tks(kinds) \o Id(t[4][1])
      is == t[1]
      category == IF is = "ErrorDef" THEN IF t[6] = "propagate" THEN <<>> ELSE Tks(<<"AT">>) \o Id(t[6]) ELSE <<>>
  IN Annotations(t[2]) \o category \o Optional(t[3], "KW_PUB") \o
     CASE is = "FnDef" ->
            Optional(t[9], "KW_UNSAFE") \o head(<<"KW_FN">>) \o Params(t[5]) \o Result(t[6])
            \o Statements(t[7]) \o IfAny(t[8], "KW_FINALLY", IF t[8] = <<>> THEN <<>> ELSE Statements(t[8][1]))
       [] is = "RecordDef" -> head(<<"KW_RECORD">>) \o Braces(Commad(FieldList(t[5], <<>>)))
       [] is = "ErrorDef" ->
            head(<<"KW_ERROR">>)
            \o (IF t[5] = <<>> THEN Tks(<<"SEMI">>) ELSE Braces(Commad(FieldList(t[5], <<>>))))
       [] is = "ImportStmt" -> Tks(<<"KW_IMPORT">>)
            \o FlattenSeq([i \in 1 .. Len(t[4]) |->
                 IF t[4][i] \in {"DOT", "COLONCOLON"} THEN Tks(<<t[4][i]>>) ELSE Id(t[4][i])])
            \o Tks(<<"SEMI">>)
       [] is = "SequenceDef" -> Tks(<<"KW_SEQ">>) \o Path(t[4], "COLONCOLON") \o Tks(<<"SEMI">>)
       [] is = "EnumDef" -> head(<<"KW_ENUM">>)
            \o Braces(Commad([i \in 1 .. Len(t[5]) |-> Id(t[5][i][2][1])
                 \o (IF t[5][i][3] = <<>> THEN <<>> ELSE Tks(<<"EQ">>) \o Word("STRING", t[5][i][3][1]))]))
       [] is = "TypeDef" -> head(<<"KW_TYPE">>) \o Braces(Members(t[5]) \o Methods(t[6]))
       [] is = "SealedTypeDef" -> head(<<"KW_SEALED", "KW_TYPE">>)
            \o Braces(Members(t[5]) \o Methods(t[6]) \o FlattenSeq([i \in 1 .. Len(t[7]) |-> Case(t[7][i])]))
       [] is = "AggregateDef" -> head(<<"KW_AGGREGATE">>) \o Params(t[5]) \o Result(t[6])
            \o Braces(Id("state")
                 \o Braces(FlattenSeq([i \in 1 .. Len(t[7]) |->
                      FieldList(t[7], <<>>)[i] \o Tks(<<"EQ">>) \o Show(t[8][i]) \o Tks(<<"SEMI">>)]))
                 \o Id("step") \o Params(t[9]) \o Statements(t[10])
                 \o (IF t[11] = <<>> THEN <<>>
                     ELSE Id("merge") \o Parens(Id(t[12][1]) \o Tks(<<"COLON">>) \o Id("Self"))
                          \o Statements(t[11][1]))
                 \o Id("finish") \o Parens(<<>>) \o Statements(t[13]))

Header(m) ==
  Annotations(m[2]) \o Tks(<<"KW_MODULE">>)
  \o (IF m[3] = <<>> THEN <<>> ELSE Path(m[3][1], "DOT") \o Tks(<<"COLONCOLON">>))
  \o Path(m[4], "DOT") \o Tks(<<"SEMI">>)
====
