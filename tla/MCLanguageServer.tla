---- MODULE MCLanguageServer ----
(***************************************************************************)
(* A small project for TLC: a domain with its root and a submodule, a      *)
(* module that uses the submodule in every right and wrong way, a script,  *)
(* a generated file the scans skip, and another project beside it.         *)
(***************************************************************************)
EXTENDS LanguageServer, TLC

CONSTANTS none, unscanned, shut
MCRoots == {"proj", "tools"}
MCFiles == {"root", "lex", "use", "cell", "copy", "tool"}
MCRootOf == [f \in MCFiles |-> IF f = "tool" THEN "tools" ELSE "proj"]
Found(f, dirs) == [file |-> f, dirs |-> dirs]
MCWalk == [proj |-> <<Found("copy", <<"build">>), Found("root", <<>>), Found("lex", <<"app">>),
                      Found("use", <<>>), Found("cell", <<>>)>>,
           tools |-> <<Found("tool", <<>>)>>]
MCAbove == [proj |-> <<>>, tools |-> <<"out">>]
MCMangled == (<<"app">> :> "app") @@ (<<"app", "lex">> :> "app_lex") @@ (<<"app_lex">> :> "app_lex") @@
             (<<"lex">> :> "lex") @@ (<<"std">> :> "std") @@ (<<"app", "par">> :> "app_par") @@ (<<"use">> :> "use")

-----------------------------------------------------------------------------
(* Lines.                                                                  *)

Module(p) == [is |-> "module", schema |-> "", path |-> p, tail |-> FALSE]
Import(p) == [is |-> "import", schema |-> "", path |-> p]
Annotation(n) == [is |-> "annotation", name |-> n]
Fn(n, ret) == [is |-> "def", kind |-> "fn", name |-> n, pub |-> TRUE, ret |-> ret, type |-> "literal", oneline |-> FALSE]
Rec(n) == [is |-> "def", kind |-> "record", name |-> n, pub |-> TRUE, ret |-> FALSE, oneline |-> TRUE]
Call(n) == [is |-> "call", path |-> <<"lex">>, name |-> n, dotted |-> FALSE, bound |-> TRUE]
Line(w) == [is |-> w]
Falling(type) == <<[Fn("scan", TRUE) EXCEPT !.type = type], Line("end")>>
Main(body) == <<Fn("main", FALSE)>> \o body \o <<Line("end")>>
ScanFn == <<Fn("scan", TRUE), Line("return"), Line("end")>>

Lex(p) == <<Module(p)>> \o ScanFn
Use(p, uses) == <<Module(p), Import(<<"app", "lex">>)>> \o Main(uses)
Scan == Call("scan")
Make(p) == [is |-> "make", path |-> p, name |-> "Tok"]
Banner == [i \in 1 .. TopLines |-> Line("note")]
Trailed == [Module(<<"use">>) EXCEPT !.tail = TRUE]

MCTexts ==
  [root |-> {<<Module(<<"app">>)>> \o Main(<<>>), <<Annotation("stub"), Module(<<"app">>)>>},
   lex |-> {Lex(<<"app", "lex">>), <<Annotation("open")>> \o Lex(<<"app", "lex">>), Lex(<<"lex">>),
            <<Module(<<"app", "lex">>), Rec("Tok")>>, <<Module(<<"app", "lex">>)>> \o Falling("name"),
            <<Module(<<"app", "lex">>)>> \o Falling("generic")},
   use |-> {Use(<<"use">>, <<Scan>>), Use(<<"app", "par">>, <<Scan>>),
            Use(<<"use">>, <<[Scan EXCEPT !.bound = FALSE]>>), Use(<<"use">>, <<[Scan EXCEPT !.dotted = TRUE]>>),
            Use(<<"use">>, <<Make(<<>>)>>), Use(<<"use">>, <<Make(<<"lex">>)>>),
            <<Module(<<"use">>)>> \o Main(<<Scan>>), <<Trailed>> \o Main(<<Scan>>),
            <<Module(<<"use">>)>> \o Main(<<Make(<<>>)>>) \o <<Import(<<"app", "lex">>)>>,
            Banner \o Use(<<"use">>, <<Make(<<>>)>>),
            <<Module(<<"use">>)>> \o Main(<<Scan>>) \o ScanFn, <<Module(<<"use">>), Line("junk"), Scan>>},
   cell |-> {<<Line("note"), Import(<<"app", "lex">>), Scan>>, <<Scan>>, <<[Scan EXCEPT !.path = <<"std">>]>>},
   copy |-> {Lex(<<"lex">>)},
   tool |-> {<<Module(<<"use">>), [Fn("scan", TRUE) EXCEPT !.oneline = TRUE]>>}]

MCDisks == {[root |-> r, lex |-> l, use |-> u, cell |-> <<Scan>>, copy |-> Lex(<<"lex">>),
             tool |-> CHOOSE t \in MCTexts.tool : TRUE] :
               r \in MCTexts.root, l \in {Lex(<<"app", "lex">>)}, u \in {Use(<<"use">>, <<Scan>>), Absent}}
====
