---- MODULE Parser ----
(***************************************************************************)
(* The parser of pell (compiler/pell/parser.py): one definition for each   *)
(* method, in the vocabulary of Grammar, and the two drivers: parse, for a *)
(* module, and parse_cell, for the REPL.                                   *)
(* Tokens come from Lexer; locations and error texts are left out; the     *)
(* value of a keyword or of punctuation is its kind.                       *)
(***************************************************************************)
EXTENDS Grammar, Ast, FiniteSets

CONSTANT BadJq      \* the texts of jq!{} blocks that parse_jq rejects

ItemStart == {"KW_PUB", "KW_UNSAFE", "KW_IMPORT", "KW_FN", "KW_RECORD", "KW_ERROR", "KW_SEALED",
              "KW_TYPE", "KW_AGGREGATE", "KW_SEQ", "KW_ENUM"}
PRIMITIVES == {<<p>> : p \in {"number", "int", "text", "bigtext", "bool", "date", "timestamp",
                              "interval", "bytes", "json", "Unit"}}

--------------------------------------------------------------------------
(* Names, annotations, parameters and fields. *)

parse_dotted_ident == Listed(Chain("DOT"))
parse_qualified_ident == Listed(Chain("COLONCOLON"))

\* The header; parse reads the items that follow.
parse_module ==
  Node("Module",
    Then(<<NT("annotations"), T("KW_MODULE"),
           When(Ahead(<<{"IDENT"}, {"COLONCOLON"}>>),
                Then(<<Listed(Name), T("COLONCOLON"), parse_dotted_ident>>),
                Then(<<Give(<<>>), parse_dotted_ident>>)),
           T("SEMI")>>))

\* `name = expr` is a keyword argument, anything else a positional one.
arguments ==
  Act("kwargs", Split(<<Classes.Expr, {"Kwarg"}>>,
    CommaUntil({"RPAREN"},
      When(Ahead(<<{"IDENT"}, {"EQ"}>>),
           Node("Kwarg", Then(<<Name, T("EQ"), NT("expr")>>)), NT("expr")))))

\* Mutant: the arguments of an annotation are read and forgotten.
annotations_without_arguments ==
  Listed(While(At({"AT"}),
    Node("Annotation",
      Then(<<T("AT"), Name, When(At({"LPAREN"}), Drop(InParens(arguments)), Nothing),
             Give(<<>>), Give(<<>>)>>))))

parse_annotations ==
  Listed(While(At({"AT"}),
    Node("Annotation",
      Then(<<T("AT"), Name,
             When(At({"LPAREN"}), InParens(arguments), Then(<<Give(<<>>), Give(<<>>)>>))>>))))

parse_param_list ==
  Listed(CommaUntil({"RPAREN"},
    Node("Param",
      Then(<<Switch([KW_OUT |-> Then(<<T("KW_OUT"), Give("out")>>),
                     KW_INOUT |-> Then(<<T("KW_INOUT"), Give("inout")>>)], Give("in")),
             Name, T("COLON"), NT("type"), Maybe("EQ", NT("expr"))>>))))

params_and_result == Then(<<InParens(parse_param_list), Maybe("ARROW", NT("type"))>>)

FieldDecl == Node("FieldDef", Then(<<Name, T("COLON"), NT("type")>>))
parse_field_defs == Listed(CommaUntil({"RBRACE"}, FieldDecl))

--------------------------------------------------------------------------
(* Items. *)

parse_item ==
  Act("item",
    Then(<<NT("annotations"), Flag("KW_PUB"), Flag("KW_UNSAFE"),
           Switch([KW_IMPORT |-> NT("import"), KW_FN |-> NT("fn_def"), KW_RECORD |-> NT("record_def"),
                   KW_ERROR |-> NT("error_def"), KW_SEALED |-> NT("sealed_type_def"),
                   KW_TYPE |-> NT("type_def"), KW_AGGREGATE |-> NT("aggregate_def"),
                   KW_SEQ |-> NT("seq_def"), KW_ENUM |-> NT("enum_def")], Fail)>>))

parse_import ==
  Node("ImportStmt",
    Then(<<T("KW_IMPORT"),
           Listed(Then(<<Cap("IDENT"),
                         While(At({"COLONCOLON"}), Then(<<AnyToken, Cap("IDENT")>>)),
                         While(At({"DOT"}), Then(<<AnyToken, Cap("IDENT")>>))>>)),
           T("SEMI")>>))

parse_seq_def == Node("SequenceDef", Then(<<T("KW_SEQ"), parse_qualified_ident, T("SEMI")>>))

parse_enum_def ==
  Node("EnumDef",
    Then(<<T("KW_ENUM"), Name,
           InBraces(Listed(CommaUntil({"RBRACE"},
             Node("EnumVariant", Then(<<Name, Maybe("EQ", Cap("STRING"))>>)))))>>))

parse_fn_def ==
  Node("FnDef",
    Then(<<T("KW_FN"), Name, params_and_result, NT("block"), Maybe("KW_FINALLY", NT("block"))>>))

parse_record_def ==
  Node("RecordDef", Then(<<T("KW_RECORD"), Name, InBraces(parse_field_defs)>>))

\* The category is lifted out of the annotations by Built.
parse_error_def ==
  Node("ErrorDef",
    Then(<<T("KW_ERROR"), Name,
           When(At({"LBRACE"}), InBraces(parse_field_defs), Then(<<T("SEMI"), Give(<<>>)>>))>>))

\* A method starts with an annotation, `fn` or the contextual `map fn`.
IfMethod(g, h) ==
  When(At({"AT", "KW_FN"}), g,
       When([AtWord("map") EXCEPT !.kinds = <<{"IDENT"}, {"KW_FN"}>>], g, h))

member_field == Then(<<FieldDecl, T("SEMI")>>)

parse_type_body ==
  InBraces(Split(<<{"FieldDef"}, {"MethodDef"}>>,
    Until({"RBRACE"}, IfMethod(NT("method_def"), member_field))))
parse_type_def == Node("TypeDef", Then(<<T("KW_TYPE"), Name, parse_type_body>>))

parse_sealed_body ==
  InBraces(Split(<<{"FieldDef"}, {"MethodDef"}, {"CaseDef"}>>,
    Until({"RBRACE"},
      When(At({"KW_CASE"}), NT("case_def"), IfMethod(NT("method_def"), member_field)))))
parse_sealed_type_def ==
  Node("SealedTypeDef", Then(<<T("KW_SEALED"), T("KW_TYPE"), Name, parse_sealed_body>>))

\* Fields and methods in one block, more methods in a second one.
parse_case_def ==
  LET separator == When(At({"SEMI", "COMMA"}), Drop(AnyToken), When(At({"RBRACE"}), Nothing, Fail))
      first == InBraces(Until({"RBRACE"}, IfMethod(NT("method_def"), Then(<<FieldDecl, separator>>))))
      second == InBraces(Until({"RBRACE"}, IfMethod(NT("method_def"), Fail)))
      block(g) == When(At({"LBRACE"}), g, Nothing)
  IN Node("CaseDef",
       Then(<<T("KW_CASE"), Name,
              Split(<<{"FieldDef"}, {"MethodDef"}>>, block(Then(<<first, block(second)>>))),
              When(At({"SEMI"}), T("SEMI"), Nothing)>>))

parse_method_def ==
  Node("MethodDef",
    Then(<<NT("annotations"),
           When(AtWord("map"), Then(<<T("IDENT"), Give(TRUE)>>), Give(FALSE)),
           T("KW_FN"), Name, params_and_result,
           When(At({"SEMI"}), Then(<<T("SEMI"), Give(TRUE), Give(<<>>)>>),
                Then(<<Give(FALSE), NT("block")>>))>>))

\* The four sections, in any order; Built counts them and puts them in place.
parse_aggregate_def ==
  LET state == Node("state", InBraces(Split(<<{"FieldDef"}, Classes.Expr>>,
                 Until({"RBRACE"}, Then(<<FieldDecl, T("EQ"), NT("expr"), T("SEMI")>>)))))
      step == Node("step", Then(<<When(At({"LPAREN"}), Listed(InParens(parse_param_list)), Give(<<>>)),
                                  NT("block")>>))
      merge == Node("merge", Then(<<InParens(When(At({"RPAREN"}), Give(<<"other">>),
                                       Then(<<Name, T("COLON"), Drop(NT("type"))>>))), NT("block")>>))
      finish == Node("finish", Then(<<InParens(Nothing), Maybe("ARROW", NT("type")), NT("block")>>))
      section(w, g, h) == When(AtWord(w), Then(<<T("IDENT"), g>>), h)
  IN Act("aggregate",
       Then(<<T("KW_AGGREGATE"), Name, params_and_result,
              InBraces(Until({"RBRACE"},
                section("state", state, section("step", step,
                  section("merge", merge, section("finish", finish, Fail))))))>>))

--------------------------------------------------------------------------
(* Types and patterns. *)

parse_type ==
  FoldOnce(NT("type_atom"),
    <<Gather("PIPE", "ErrorUnionType", While(At({"PIPE"}), Then(<<T("PIPE"), NT("type_atom")>>)))>>)

qualified == Listed(Then(<<Cap("IDENT"),
               While(AtUnless("COLONCOLON", {"LT"}), Then(<<T("COLONCOLON"), Cap("IDENT")>>))>>))

type_arguments == Then(<<T("LT"), Listed(Commas(NT("type"))), T("GT")>>)

parse_type_atom ==
  Switch([IDENT |-> Fold(Act("base_type", Then(<<qualified, When(At({"LT"}), type_arguments, Nothing)>>)),
                         <<Step(At({"QUESTION"}), "OptionalType", T("QUESTION"))>>),
          LPAREN |-> InParens(When(At({"RPAREN"}), Give(<<"PrimType", <<"Unit">>>>), NT("type"))),
          BANG |-> Then(<<T("BANG"), Give(<<"PrimType", <<"Never">>>>)>>)], Fail)

pattern_arguments == Listed(InParens(When(At({"RPAREN"}), Nothing, Commas(NT("pattern")))))

parse_pattern ==
  LET variant(name, args, fields, rest) == Node("VariantPattern", Then(<<name, args, fields, rest>>))
      none == Give(<<>>)
      no == Give(FALSE)
      constructor == variant(Listed(AnyToken), When(At({"LPAREN"}), pattern_arguments, none), none, no)
      field == Node("FieldPattern", Then(<<Name, Maybe("COLON", NT("pattern"))>>))
      fields == Then(<<T("LBRACE"),
                  Listed(Until({"RBRACE", "DOTDOT"},
                    Then(<<field, When(At({"COMMA"}), T("COMMA"), When(At({"RBRACE"}), Nothing, Fail))>>))),
                  Flag("DOTDOT"), T("RBRACE")>>)
      literal(type) == Node("LiteralPattern", Then(<<Give(type), AnyToken>>))
      named ==
        When(Ahead(<<{"IDENT"}, {"LBRACE"}>>),
             Node("VariantPattern", Then(<<Name, none, fields>>)),
             When(Ahead(<<{"IDENT"}, {"LPAREN"}>>),
                  variant(Name, pattern_arguments, none, no), Node("BindingPattern", Name)))
  IN Switch([IDENT |-> When(AtWord("_"), Node("WildcardPattern", T("IDENT")), named),
             KW_NONE |-> variant(Listed(AnyToken), none, none, no),
             KW_SOME |-> constructor, KW_OK |-> constructor, KW_ERR |-> constructor,
             NUMBER |-> literal("text"), STRING |-> literal("text"),
             KW_TRUE |-> literal("bool"), KW_FALSE |-> literal("bool")], Fail)

--------------------------------------------------------------------------
(* Statements. *)

parse_block == Listed(InBraces(Until({"RBRACE"}, NT("stmt"))))

parse_stmt ==
  Switch([KW_LET |-> NT("let_var"), KW_VAR |-> NT("let_var"), KW_RETURN |-> NT("return"),
          KW_IF |-> NT("if_stmt"), KW_FOR |-> NT("for_stmt"), KW_FORALL |-> NT("forall_stmt"),
          KW_MATCH |-> NT("match_stmt"), KW_TRANSACTION |-> NT("transaction_stmt"),
          KW_YIELD |-> NT("yield_stmt")],
    Act("expr_stmt", Then(<<NT("expr"), When(At({"EQ"}), Then(<<T("EQ"), NT("expr")>>), Nothing), T("SEMI")>>)))

parse_let_var ==
  Node("LetStmt", Then(<<Switch([KW_VAR |-> Flag("KW_VAR")], Then(<<T("KW_LET"), Give(FALSE)>>)),
                         Name, Maybe("COLON", NT("type")), Maybe("EQ", NT("expr")), T("SEMI")>>))
parse_return ==
  Node("ReturnStmt", Then(<<T("KW_RETURN"), Listed(When(At({"SEMI"}), Nothing, NT("expr"))), T("SEMI")>>))
parse_if_stmt ==
  Node("IfStmt", Then(<<T("KW_IF"), NT("expr"), NT("block"),
    Maybe("KW_ELSE", When(At({"KW_IF"}), Listed(NT("if_stmt")), NT("block")))>>))
loop_over(class, kw) ==
  Node(class, Then(<<T(kw), Name, T("KW_IN"), NT("expr"), NT("block")>>))
parse_for_stmt == loop_over("ForStmt", "KW_FOR")
parse_forall_stmt == loop_over("ForallStmt", "KW_FORALL")
match_of(class) ==
  Node(class, Then(<<T("KW_MATCH"), NT("expr"),
    InBraces(Listed(Until({"RBRACE"},
      Then(<<NT("match_arm"), When(At({"COMMA"}), T("COMMA"), Nothing)>>))))>>))
parse_match_stmt == match_of("MatchStmt")
parse_match_arm ==
  Node("MatchArm", Then(<<NT("pattern"), T("ARROW"),
    When(At({"LBRACE"}), Node("Block", NT("block")), NT("expr"))>>))
parse_yield_stmt == Node("YieldStmt", Then(<<T("KW_YIELD"), NT("expr"), T("SEMI")>>))
parse_transaction_stmt == Node("TransactionStmt", Then(<<T("KW_TRANSACTION"), NT("block")>>))

--------------------------------------------------------------------------
(* Expressions, from the loosest operator to the tightest. *)

\* Left-associative: an operand of the next level, then operator and operand.
operators(kinds, next) ==
  Fold(NT(next), <<Step(At(kinds), "BinOp", Then(<<AnyToken, NT(next)>>))>>)

parse_pipeline ==
  Fold(NT("range"), <<Step(At({"PIPEGT"}), "PipelineExpr", Then(<<T("PIPEGT"), NT("range")>>))>>)
parse_range ==
  FoldOnce(NT("logical_or"),
    <<Step(At({"DOTDOT", "DOTDOTEQ"}), "BinOp", Then(<<AnyToken, NT("logical_or")>>))>>)
parse_logical_or == operators({"PIPEPIPE"}, "logical_and")
parse_logical_and == operators({"AMPAMP"}, "equality")
parse_equality == operators({"EQEQ", "BANGEQ"}, "comparison")
parse_comparison == operators({"LT", "LE", "GT", "GE"}, "addition")
\* Mutant: additions associate to the right.
addition_to_the_right ==
  Fold(NT("multiplication"), <<Step(At({"PLUS", "MINUS"}), "BinOp", Then(<<AnyToken, NT("addition")>>))>>)

parse_addition == operators({"PLUS", "MINUS"}, "multiplication")
parse_multiplication == operators({"STAR", "SLASH", "PERCENT"}, "unary")
parse_unary ==
  When(At({"MINUS", "BANG"}), Node("UnaryOp", Then(<<AnyToken, NT("unary")>>)), NT("postfix"))

parse_postfix ==
  Fold(NT("primary"),
    <<Step(At({"DOT"}), "MemberAccess", Then(<<T("DOT"), Name>>)),
      Step(At({"LPAREN"}), "Call", Then(<<Give(<<>>), InParens(arguments)>>)),
      Step(Ahead(<<{"COLONCOLON"}, {"LT"}>>), "Call",
           Then(<<T("COLONCOLON"), type_arguments,
                  Listed(InParens(When(At({"RPAREN"}), Nothing, Commas(NT("expr"))))), Give(<<>>)>>)),
      Step(At({"QUESTION"}), "QuestionMark", T("QUESTION"))>>)

struct_or_name ==
  LET field == Act("field_init", Then(<<Name, When(At({"COLON"}), Then(<<T("COLON"), NT("expr")>>), Nothing)>>))
      struct == InBraces(Listed(CommaUntil({"RBRACE"}, field)))
      looks_like_struct_lit(g, h) ==
        When(Ahead(<<{"LBRACE"}, {"RBRACE"}>>), g,
             When(Ahead(<<{"LBRACE"}, {"IDENT"}, {"COLON", "COMMA", "RBRACE"}>>), g, h))
  IN Act("name_or_struct", Then(<<qualified, looks_like_struct_lit(struct, Nothing)>>))

parse_primary ==
  LET literal(class, more) == Node(class, Then(<<AnyToken>> \o more))
      constant(class, v) == Node(class, Then(<<Drop(AnyToken)>> \o v))
      wrap(class, g) == Node(class, Then(<<Drop(AnyToken), InParens(g)>>))
      \* elements separated by commas, one more comma allowed at the end
      trailing(kind) == While(At({"COMMA"}), Then(<<T("COMMA"), When(At({kind}), Nothing, NT("expr"))>>))
  IN Switch(
       [NUMBER |-> literal("NumberLit", <<>>), STRING |-> literal("TextLit", <<Give(FALSE)>>),
        RAWSTRING |-> literal("TextLit", <<Give(TRUE)>>), REGEX |-> literal("TextLit", <<Give(TRUE)>>),
        KW_TRUE |-> constant("BoolLit", <<Give(TRUE)>>), KW_FALSE |-> constant("BoolLit", <<Give(FALSE)>>),
        KW_NONE |-> constant("NoneExpr", <<>>), KW_NULL |-> constant("NullLit", <<>>),
        KW_SELF |-> constant("Ident", <<Give(<<"self">>)>>),
        KW_SOME |-> wrap("SomeExpr", NT("expr")), KW_ERR |-> wrap("ErrExpr", NT("expr")),
        KW_OK |-> wrap("OkExpr", When(At({"RPAREN"}), Give(<<"UnitLit">>), NT("expr"))),
        SQL_BLOCK |-> literal("SqlBlock", <<>>), JQ_BLOCK |-> Act("jq", literal("JqBlock", <<>>)),
        LPAREN |-> InParens(When(At({"RPAREN"}), Give(<<"UnitLit">>),
                     FoldOnce(NT("expr"), <<Gather("COMMA", "TupleLit", trailing("RPAREN"))>>))),
        LBRACKET |-> Node("ListLit", Then(<<T("LBRACKET"),
                       Listed(When(At({"RBRACKET"}), Nothing, Then(<<NT("expr"), trailing("RBRACKET")>>))),
                       T("RBRACKET")>>)),
        IDENT |-> struct_or_name, KW_IF |-> NT("if_expr"), KW_MATCH |-> NT("match_expr")], Fail)

parse_if_expr ==
  Node("IfExpr", Then(<<T("KW_IF"), NT("expr"), NT("block"), Maybe("KW_ELSE", NT("block"))>>))
parse_match_expr == match_of("MatchExpr")

Phrases ==
  [annotations |-> parse_annotations, import |-> parse_import, fn_def |-> parse_fn_def,
   record_def |-> parse_record_def, error_def |-> parse_error_def,
   sealed_type_def |-> parse_sealed_type_def, type_def |-> parse_type_def,
   aggregate_def |-> parse_aggregate_def, seq_def |-> parse_seq_def, enum_def |-> parse_enum_def,
   method_def |-> parse_method_def, case_def |-> parse_case_def, type |-> parse_type,
   type_atom |-> parse_type_atom, pattern |-> parse_pattern, block |-> parse_block,
   stmt |-> parse_stmt, let_var |-> parse_let_var, return |-> parse_return, if_stmt |-> parse_if_stmt,
   for_stmt |-> parse_for_stmt, forall_stmt |-> parse_forall_stmt, match_stmt |-> parse_match_stmt,
   match_arm |-> parse_match_arm, yield_stmt |-> parse_yield_stmt,
   transaction_stmt |-> parse_transaction_stmt, expr |-> parse_pipeline, range |-> parse_range,
   logical_or |-> parse_logical_or, logical_and |-> parse_logical_and, equality |-> parse_equality,
   comparison |-> parse_comparison, addition |-> parse_addition,
   multiplication |-> parse_multiplication, unary |-> parse_unary, postfix |-> parse_postfix,
   primary |-> parse_primary, if_expr |-> parse_if_expr, match_expr |-> parse_match_expr,
   item |-> parse_item, module |-> parse_module]

--------------------------------------------------------------------------
(* What the methods build out of the values they read. *)

\* @skip, @propagate or @panic, without arguments, becomes the category.
categories == {<<"skip">>, <<"propagate">>, <<"panic">>}
with_category(annotations, name, fields) ==
  LET lifted == SelectSeq(annotations, LAMBDA a : a[2] \in categories)
  IN IF \E i \in 1 .. Len(lifted) : lifted[i][3] # <<>> \/ lifted[i][4] # <<>> THEN <<>>
     ELSE <<<<SelectSeq(annotations, LAMBDA a : a[2] \notin categories), name, fields,
              IF lifted = <<>> THEN "propagate" ELSE lifted[Len(lifted)][2][1]>>>>

\* Each section once, `merge` at most once; finish's result overrides the outer one.
aggregate_of(name, params, result, sections) ==
  LET of(class) == SelectSeq(sections, LAMBDA s : s[1] = class)
      state == of("state")[1]
      step == of("step")[1]
      finish == of("finish")[1]
  IN IF Len(of("state")) # 1 \/ Len(of("step")) # 1 \/ Len(of("finish")) # 1 \/ Len(of("merge")) > 1
     THEN <<>>
     ELSE <<<<"AggregateDef", name, params, IF finish[2] = <<>> THEN result ELSE finish[2],
              state[2], state[3], IF step[2] = <<>> THEN params ELSE step[2][1], step[3],
              IF of("merge") = <<>> THEN <<>> ELSE <<of("merge")[1][3]>>,
              IF of("merge") = <<>> THEN <<"other">> ELSE of("merge")[1][2], finish[3]>>>>

item_of(annotations, pub, unsafe, node) ==
  LET as(anns, fields) == <<node[1], anns, pub>> \o fields
      error == with_category(annotations, node[2], node[3])
  IN CASE node[1] = "FnDef" -> <<as(annotations, Append(Tail(node), unsafe))>>
       [] node[1] = "ErrorDef" ->
            IF error = <<>> THEN <<>> ELSE <<as(error[1][1], Tail(error[1]))>>
       [] OTHER -> <<as(annotations, Tail(node))>>

\* The values an Act yields from those it read; none when the code raises.
Built(act, vals) ==
  CASE act = "kwargs" -> <<vals[1], Dict(vals[2])>>
    [] act = "item" -> item_of(vals[1], vals[2], vals[3], vals[4])
    [] act = "aggregate" -> aggregate_of(vals[1], vals[2], vals[3], SubSeq(vals, 4, Len(vals)))
    [] act = "expr_stmt" -> <<IF Len(vals) = 2 THEN <<"AssignStmt">> \o vals ELSE <<"ExprStmt">> \o vals>>
    [] act = "base_type" ->
         <<IF Len(vals) = 2 THEN <<"GenericType">> \o vals
           ELSE <<IF vals[1] \in PRIMITIVES THEN "PrimType" ELSE "NamedType">> \o vals>>
    [] act = "field_init" ->
         <<<<"FieldInit", vals[1], IF Len(vals) = 2 THEN vals[2] ELSE <<"Ident", vals[1]>>>>>>
    [] act = "name_or_struct" -> <<IF Len(vals) = 2 THEN <<"StructLit">> \o vals ELSE <<"Ident">> \o vals>>
    [] act = "jq" -> IF vals[1][2] \in BadJq THEN <<>> ELSE vals

RECURSIVE Run(_, _, _), RunAll(_, _, _), RunLoop(_, _, _), RunFold(_, _, _)
Run(g, toks, p) ==
  LET cur == Peek(toks, p)
      map(r, vals) == IF r.at = 0 THEN Failed ELSE Read(r.at, vals)
      r == Run(g.g, toks, p)
  IN CASE g.op = "token" -> IF cur.k = g.k THEN Read(p + 1, <<>>) ELSE Failed
       [] g.op = "capture" -> IF cur.k = g.k THEN Read(p + 1, <<cur.v>>) ELSE Failed
       [] g.op = "any" -> Read(p + 1, <<cur.v>>)
       [] g.op = "phrase" -> Run(Phrases[g.name], toks, p)
       [] g.op = "seq" -> RunAll(g.gs, toks, Read(p, <<>>))
       [] g.op = "when" -> Run(IF Sees(g.la, toks, p) THEN g.g ELSE g.h, toks, p)
       [] g.op = "switch" -> Run(IF cur.k \in DOMAIN g.on THEN g.on[cur.k] ELSE g.h, toks, p)
       [] g.op \in {"while", "until"} -> RunLoop(g, toks, Read(p, <<>>))
       [] g.op = "fold" -> RunFold(g, toks, r)
       [] g.op = "node" -> map(r, <<<<g.class>> \o r.vals>>)
       [] g.op = "list" -> map(r, <<r.vals>>)
       [] g.op = "give" -> Read(p, <<g.v>>)
       [] g.op = "split" -> map(r, Groups(g.classes, r.vals))
       [] g.op = "drop" -> map(r, <<>>)
       [] g.op = "act" ->
            IF r.at = 0 THEN Failed
            ELSE LET b == Built(g.name, r.vals) IN IF b = <<>> THEN Failed ELSE Read(r.at, b)
       [] g.op = "fail" -> Failed

More(r, s) == IF s.at = 0 THEN Failed ELSE Read(s.at, r.vals \o s.vals)

RunAll(gs, toks, r) ==
  IF r.at = 0 \/ gs = <<>> THEN r
  ELSE RunAll(Tail(gs), toks, More(r, Run(Head(gs), toks, r.at)))

RunLoop(g, toks, r) ==
  LET again == IF g.op = "while" THEN Sees(g.la, toks, r.at) ELSE Peek(toks, r.at).k \notin g.kinds
  IN IF r.at = 0 \/ ~again THEN r ELSE RunLoop(g, toks, More(r, Run(g.g, toks, r.at)))

\* r.vals holds the value so far, and nothing else
RunFold(g, toks, r) ==
  LET fits == {i \in 1 .. Len(g.steps) : Sees(g.steps[i].la, toks, r.at)}
      step == g.steps[CHOOSE i \in fits : TRUE]
      s == Run(step.g, toks, r.at)
      wrapped == IF step.gather THEN <<step.class, r.vals \o s.vals>> ELSE <<step.class>> \o r.vals \o s.vals
  IN CASE r.at = 0 \/ fits = {} -> r
       [] s.at = 0 -> Failed
       [] g.many -> RunFold(g, toks, Read(s.at, <<wrapped>>))
       [] OTHER -> Read(s.at, <<wrapped>>)

--------------------------------------------------------------------------
(* The drivers: one item or statement at a time.                           *)

VARIABLES
  src,     \* the source being read
  pos,     \* Parser.pos
  header,  \* the Module node so far: annotations, schema and name
  items, stmts,
  status   \* "header", "reading", "done" or "error"
vars == <<src, pos, header, items, stmts, status>>

\* Reading a source s begins.
Start(s) ==
  /\ src = s
  /\ pos = 1
  /\ header = <<>>
  /\ items = <<>>
  /\ stmts = <<>>
  /\ status = IF s.kind = "module" THEN "header" ELSE "reading"

Got(r) == pos' = r.at
Raise == status' = "error" /\ UNCHANGED <<pos, header, items, stmts>>

ParseHeader ==
  /\ status = "header"
  /\ LET r == Run(NT("module"), src.toks, pos)
     IN IF r.at = 0 THEN Raise
        ELSE Got(r) /\ header' = r.vals /\ status' = "reading" /\ UNCHANGED <<items, stmts>>
  /\ UNCHANGED src

AtItem == src.kind = "module" \/ Peek(src.toks, pos).k \in {"AT"} \cup ItemStart
AtEnd == Peek(src.toks, pos).k = "EOF"

ParseItem ==
  /\ status = "reading" /\ ~AtEnd /\ AtItem
  /\ LET r == Run(NT("item"), src.toks, pos)
     IN IF r.at = 0 THEN Raise
        ELSE Got(r) /\ items' = items \o r.vals /\ UNCHANGED <<header, stmts, status>>
  /\ UNCHANGED src

ParseStmt ==
  /\ status = "reading" /\ ~AtEnd /\ ~AtItem
  /\ LET r == Run(NT("stmt"), src.toks, pos)
     IN IF r.at = 0 THEN Raise
        ELSE Got(r) /\ stmts' = stmts \o r.vals /\ UNCHANGED <<header, items, status>>
  /\ UNCHANGED src

Finish ==
  /\ status = "reading" /\ AtEnd
  /\ status' = "done"
  /\ UNCHANGED <<src, pos, header, items, stmts>>

Next == ParseHeader \/ ParseItem \/ ParseStmt \/ Finish
====
