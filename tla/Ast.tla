---- MODULE Ast ----
(***************************************************************************)
(* The syntax trees of pell (compiler/pell/ast.py).  A node is a tuple:    *)
(* its class first, then its fields in the order in which the source text  *)
(* writes them.  Left out are the location, what the parser never fills    *)
(* (TextLit's parts, is_overriding) and what the name tells                *)
(* (is_constructor).  A name is the sequence of its segments; an optional  *)
(* field is <<>> or <<value>>.                                             *)
(***************************************************************************)
EXTENDS Sequences, Naturals, TLC

\* The sort of a field: how many nodes of which class it holds.
One(c) == [many |-> "one", of |-> c]
Opt(c) == [many |-> "opt", of |-> c]
List(c) == [many |-> "list", of |-> c]
OptList(c) == [many |-> "optlist", of |-> c]

TypeRef ==
  [PrimType |-> <<One("name")>>, NamedType |-> <<One("name")>>,
   OptionalType |-> <<One("TypeRef")>>,
   GenericType |-> <<One("name"), List("TypeRef")>>,
   ErrorUnionType |-> <<List("TypeRef")>>]

Pattern ==
  [WildcardPattern |-> <<>>, BindingPattern |-> <<One("name")>>,
   LiteralPattern |-> <<One("literal"), One("word")>>,
   VariantPattern |-> <<One("name"), List("Pattern"), List("FieldPattern"), One("bool")>>]

FieldPattern == [FieldPattern |-> <<One("name"), Opt("Pattern")>>]

\* Literals, names and what is applied to them.
Operand ==
  [NumberLit |-> <<One("word")>>, TextLit |-> <<One("word"), One("bool")>>,
   BoolLit |-> <<One("bool")>>, UnitLit |-> <<>>, NullLit |-> <<>>,
   Ident |-> <<One("name")>>, MemberAccess |-> <<One("Expr"), One("name")>>,
   Call |-> <<One("Expr"), List("TypeRef"), List("Expr"), List("Kwarg")>>,
   BinOp |-> <<One("Expr"), One("word"), One("Expr")>>,
   UnaryOp |-> <<One("word"), One("Expr")>>, QuestionMark |-> <<One("Expr")>>,
   StructLit |-> <<One("name"), List("FieldInit")>>]

\* Embedded queries, control expressions, constructors and collections.
Compound ==
  [SqlBlock |-> <<One("word")>>, JqBlock |-> <<One("word")>>,
   IfExpr |-> <<One("Expr"), List("Stmt"), OptList("Stmt")>>,
   MatchExpr |-> <<One("Expr"), List("MatchArm")>>,
   OkExpr |-> <<One("Expr")>>, ErrExpr |-> <<One("Expr")>>, SomeExpr |-> <<One("Expr")>>,
   NoneExpr |-> <<>>, ListLit |-> <<List("Expr")>>, TupleLit |-> <<List("Expr")>>,
   PipelineExpr |-> <<One("Expr"), One("Expr")>>]

\* A match arm's body is an expression or a block of statements.
ExprPart ==
  [Kwarg |-> <<One("name"), One("Expr")>>, FieldInit |-> <<One("name"), One("Expr")>>,
   MatchArm |-> <<One("Pattern"), One("ArmBody")>>, Block |-> <<List("Stmt")>>]

Stmt ==
  [LetStmt |-> <<One("bool"), One("name"), Opt("TypeRef"), Opt("Expr")>>,
   AssignStmt |-> <<One("Expr"), One("Expr")>>, ReturnStmt |-> <<Opt("Expr")>>,
   IfStmt |-> <<One("Expr"), List("Stmt"), OptList("Stmt")>>,
   ForStmt |-> <<One("name"), One("Expr"), List("Stmt")>>,
   ForallStmt |-> <<One("name"), One("Expr"), List("Stmt")>>,
   MatchStmt |-> <<One("Expr"), List("MatchArm")>>,
   TransactionStmt |-> <<List("Stmt")>>, ExprStmt |-> <<One("Expr")>>,
   YieldStmt |-> <<One("Expr")>>]

\* What every item starts with: annotations, is_pub, and the name.
ItemHead == <<List("Annotation"), One("bool"), One("name")>>

Item ==
  [FnDef |-> ItemHead \o <<List("Param"), Opt("TypeRef"), List("Stmt"), OptList("Stmt"), One("bool")>>,
   RecordDef |-> ItemHead \o <<List("FieldDef")>>,
   ErrorDef |-> ItemHead \o <<List("FieldDef"), One("word")>>,
   ImportStmt |-> ItemHead, SequenceDef |-> ItemHead,
   EnumDef |-> ItemHead \o <<List("EnumVariant")>>]

\* Items with methods: type, sealed type and aggregate.
TypeItem ==
  [TypeDef |-> ItemHead \o <<List("FieldDef"), List("MethodDef")>>,
   SealedTypeDef |-> ItemHead \o <<List("FieldDef"), List("MethodDef"), List("CaseDef")>>,
   AggregateDef |-> ItemHead \o
     <<List("Param"), Opt("TypeRef"), List("FieldDef"), List("Expr"), List("Param"),
       List("Stmt"), OptList("Stmt"), One("name"), List("Stmt")>>]

ItemPart ==
  [Annotation |-> <<One("name"), List("Expr"), List("Kwarg")>>,
   Param |-> <<One("word"), One("name"), One("TypeRef"), Opt("Expr")>>,
   FieldDef |-> <<One("name"), One("TypeRef")>>,
   EnumVariant |-> <<One("name"), Opt("word")>>]

MethodPart ==
  [MethodDef |-> <<List("Annotation"), One("bool"), One("name"), List("Param"), Opt("TypeRef"),
                   One("bool"), List("Stmt")>>,
   CaseDef |-> <<One("name"), List("FieldDef"), List("MethodDef")>>]

Module == [Module |-> <<List("Annotation"), Opt("name"), One("name"), List("Item")>>]

\* The classes a field may ask for.
Classes ==
  [TypeRef |-> DOMAIN TypeRef, Pattern |-> DOMAIN Pattern, FieldPattern |-> {"FieldPattern"},
   Expr |-> DOMAIN Operand \cup DOMAIN Compound, Stmt |-> DOMAIN Stmt,
   Item |-> DOMAIN Item \cup DOMAIN TypeItem, Module |-> {"Module"},
   ArmBody |-> DOMAIN Operand \cup DOMAIN Compound \cup {"Block"}]

Fields ==
  TypeRef @@ Pattern @@ FieldPattern @@ Operand @@ Compound @@ ExprPart @@ Stmt @@ Item
  @@ TypeItem @@ ItemPart @@ MethodPart @@ Module

\* The classes that are asked for by their own name (Kwarg, MatchArm, Param...).
ClassOf(c) == IF c \in DOMAIN Classes THEN Classes[c] ELSE {c}

Leaves == {"name", "word", "literal", "bool"}

\* The values of a field, as a sequence: nodes or leaves of its class.
FieldValues(v, sort) ==
  CASE sort.many = "one" -> <<v>>
    [] sort.many = "opt" -> v
    [] sort.many = "list" -> v
    [] sort.many = "optlist" -> IF v = <<>> THEN <<>> ELSE v[1]

\* Everything below a node, its own leaves and its subtrees' nodes, in order.
RECURSIVE Below(_)
Below(t) ==
  LET sorts == Fields[t[1]]
      entry(x, c) == IF c \in Leaves THEN <<[class |-> c, value |-> x]>>
                     ELSE <<[class |-> t[1], value |-> x]>> \o Below(x)
      RECURSIVE entries(_, _)
      entries(xs, c) == IF xs = <<>> THEN <<>> ELSE entry(Head(xs), c) \o entries(Tail(xs), c)
      RECURSIVE from(_)
      from(i) == IF i > Len(sorts) THEN <<>>
                 ELSE entries(FieldValues(t[i + 1], sorts[i]), sorts[i].of) \o from(i + 1)
  IN from(1)

\* A tree that the classes of ast.py allow, below its root.
RECURSIVE Conforms(_)
Conforms(t) ==
  /\ t[1] \in DOMAIN Fields
  /\ Len(t) = Len(Fields[t[1]]) + 1
  /\ \A i \in 1 .. Len(Fields[t[1]]) :
       LET sort == Fields[t[1]][i]
           xs == FieldValues(t[i + 1], sort)
       IN \/ sort.of \in Leaves
          \/ /\ sort.many = "opt" => Len(xs) \in {0, 1}
             /\ \A j \in 1 .. Len(xs) : xs[j][1] \in ClassOf(sort.of) /\ Conforms(xs[j])

====
