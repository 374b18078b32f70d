---- MODULE Project ----
(***************************************************************************)
(* A pell project as compiler and language server see it from any one of   *)
(* its files: the registries they scan from the files on disk              *)
(* (emitter.scan_project_*, repl.scan_project_signatures), the checks that *)
(* need them (imports, access domains, records, discarded results), and    *)
(* the ACCESSIBLE BY clause that the packages are installed with.          *)
(*                                                                         *)
(* A text is a sequence of lines, each of one kind:                        *)
(*   note        a blank line or a comment                                 *)
(*   annotation  @name, of the module                                      *)
(*   module      module [schema::]path;  tail: a comment follows           *)
(*   import      import [schema::]path;                                    *)
(*   def         a function (a value of some type is returned or not),     *)
(*               record, error or aggregate; one line with its body, or    *)
(*               closed by an end                                          *)
(*   call        path::name() or path.name(), its result bound or not      *)
(*   make        path::Name { ... }                                        *)
(*   return, end, and junk, which no parser accepts.                       *)
(***************************************************************************)
EXTENDS Sequences, Naturals, FiniteSets

CONSTANTS
  Roots,     \* project roots
  Walk,      \* per root the files as they are found, the bundled runtime's last, and the directories they are in
  Above,     \* per root the directories above it
  Mangled    \* module paths as package names: their segments joined by underscores

\* Segments are identifiers, and only a path of one segment mangles to its last.
ASSUME MangledAssumption ==
  \A p \in DOMAIN Mangled :
    /\ p \in Seq(STRING \ {""}) /\ p # <<>>
    /\ Mangled[p] \in STRING \ {""}
    /\ Mangled[p] = p[Len(p)] <=> Len(p) = 1

Absent == <<>>   \* no file, or an empty one

-----------------------------------------------------------------------------
(* Texts.                                                                  *)

LinesOf(t, kinds) == {i \in DOMAIN t : t[i].is \in kinds}
Least(S) == CHOOSE m \in S : \A n \in S : m <= n

\* A file without a module header is a script.
is_script(t) ==
  LET code == DOMAIN t \ LinesOf(t, {"note"})
  IN code # {} /\ t[Least(code)].is \notin {"module", "annotation"}

\* Statements are in a function, which an end closes; in a script also outside.
Statements == {"call", "make", "return"}
Opens(l) == l.is = "def" /\ l.kind = "fn" /\ ~l.oneline
Inside(t, i, j) == \A k \in i + 1 .. j - 1 : t[k].is \in Statements \cup {"note"}
InBody(t, j) == \E i \in 1 .. j - 1 : Opens(t[i]) /\ Inside(t, i, j)
Closed(t) == \A i \in DOMAIN t :
  /\ t[i].is = "end" => InBody(t, i)
  /\ Opens(t[i]) => \E j \in i + 1 .. Len(t) : t[j].is = "end" /\ Inside(t, i, j)

parse(t) ==
  /\ \E m \in LinesOf(t, {"module"}) : \A i \in DOMAIN t \ {m} :
       IF i < m THEN t[i].is \in {"note", "annotation"} ELSE t[i].is \notin {"module", "annotation", "junk"}
  /\ \A i \in LinesOf(t, Statements) : InBody(t, i)
  /\ Closed(t)
parse_cell(t) == LinesOf(t, {"junk", "module", "annotation"}) = {} /\ Closed(t)

Header(t) == t[CHOOSE m \in LinesOf(t, {"module"}) : TRUE]
Annotated(t, name) == \E i \in LinesOf(t, {"annotation"}) : t[i].name = name

package_name(h) == Mangled[h.path]
short_name(h) == h.path[Len(h.path)]
qualified_name(h) == <<h.schema, package_name(h)>>
domain_key(h) == <<h.schema, h.path[1]>>
is_root_module(h) == Len(h.path) = 1

-----------------------------------------------------------------------------
(* The registries.  Each is a dictionary that the files fill in the order  *)
(* of the walk; files that do not parse are passed over.                   *)

SKIP == {"built", "out", ".git", "node_modules", "expected", "plsql", "dist", "build", ".venv", "venv",
         ".pell-debug", "resources"}
SKIP_SIGNATURES == {"built", "out", ".git", "node_modules", "expected"}
DirsOf(s) == {s[k] : k \in DOMAIN s}
At(d, r, i) == d[Walk[r][i].file]
Walked(r) == {i \in DOMAIN Walk[r] : DirsOf(Walk[r][i].dirs) \cap SKIP = {}}
Scanned(d, r) == {i \in Walked(r) : parse(At(d, r, i))}
\* The scan of signatures skips by the directories above the root too.
ScannedForSignatures(d, r) ==
  {i \in DOMAIN Walk[r] : DirsOf(Walk[r][i].dirs \o Above[r]) \cap SKIP_SIGNATURES = {} /\ parse(At(d, r, i))}

\* A site is the place of a line in the walk; what is written last stays.
LastOf(S) == CHOOSE s \in S : \A o \in S : o[1] < s[1] \/ (o[1] = s[1] /\ o[2] <= s[2])
LineAt(d, r, s) == At(d, r, s[1])[s[2]]
Sites(d, r, files) == UNION {{i} \X DOMAIN At(d, r, i) : i \in files}
IsPublic(l, kinds) == l.is = "def" /\ l.kind \in kinds /\ l.pub
Names(h) == {package_name(h), short_name(h)}
\* name(h): the names of a module that the dictionary has its entries under.
Dictionary(d, r, files, kinds, names(_), value(_)) ==
  LET sites == {s \in Sites(d, r, files) : IsPublic(LineAt(d, r, s), kinds)}
      keys(s) == names(Header(At(d, r, s[1]))) \X {LineAt(d, r, s).name}
  IN [k \in UNION {keys(s) : s \in sites} |-> value(LastOf({s \in sites : k \in keys(s)}))]

scan_project_signatures(d, r) ==
  Dictionary(d, r, ScannedForSignatures(d, r), {"fn"}, LAMBDA h : {h.path, <<short_name(h)>>},
             LAMBDA s : LineAt(d, r, s).ret)
scan_project_records(d, r) ==
  Dictionary(d, r, Scanned(d, r), {"record"}, Names, LAMBDA s : LineAt(d, r, s).name)
\* Mutant: definitions are known under the package name only.
definitions_of_packages(d, r) ==
  Dictionary(d, r, Scanned(d, r), {"fn", "record", "error", "aggregate"}, LAMBDA h : {package_name(h)},
             LAMBDA s : [file |-> Walk[r][s[1]].file, line |-> s[2]])
scan_project_definitions(d, r) ==
  Dictionary(d, r, Scanned(d, r), {"fn", "record", "error", "aggregate"}, Names,
             LAMBDA s : [file |-> Walk[r][s[1]].file, line |-> s[2]])

\* Modules under their package name, and under their short name unless that
\* is taken.
scan_project_modules(d, r) ==
  LET files == {i \in Scanned(d, r) : ~Annotated(At(d, r, i), "stub")}
      head(i) == Header(At(d, r, i))
      info(i) == [schema |-> head(i).schema, path |-> head(i).path, is_open |-> Annotated(At(d, r, i), "open")]
      owners(k) == {i \in files : package_name(head(i)) = k}
      shorts(k) == {i \in files : short_name(head(i)) = k}
  IN [k \in UNION {Names(head(i)) : i \in files} |->
        info(IF owners(k) # {} THEN CHOOSE i \in owners(k) : \A j \in owners(k) : j <= i ELSE Least(shorts(k)))]

\* References are found by their looks, in files that do not parse too: pairs
\* of names joined by `::`, from left to right, and names before a parenthesis.
RefsIn(l) ==
  LET names == IF l.is \in {"call", "make"} /\ ~(l.is = "call" /\ l.dotted) THEN l.path \o <<l.name>>
               ELSE IF l.is \in {"module", "import"} /\ l.schema # "" THEN <<l.schema, l.path[1]>> ELSE <<>>
      pairs == {<<names[k], names[k + 1]>> : k \in {k \in 1 .. Len(names) - 1 : k % 2 = 1}}
      bare == IF (l.is = "call" /\ l.path = <<>>) \/ (l.is = "def" /\ l.kind = "fn") THEN {<<"", l.name>>} ELSE {}
  IN pairs \cup bare
scan_project_references(d, r) ==
  LET sites == Sites(d, r, Walked(r))
  IN [k \in UNION {RefsIn(LineAt(d, r, s)) : s \in sites} |->
        {[file |-> Walk[r][s[1]].file, line |-> s[2]] : s \in {s \in sites : k \in RefsIn(LineAt(d, r, s))}}]

scan_project(d, r) ==
  [sigs |-> scan_project_signatures(d, r), recs |-> scan_project_records(d, r),
   defs |-> scan_project_definitions(d, r), refs |-> scan_project_references(d, r),
   mods |-> scan_project_modules(d, r)]

-----------------------------------------------------------------------------
(* Access domains.  m is the registry of modules.                          *)

Script == [schema |-> "", path |-> <<>>]   \* as a caller
Infos(m) == {m[k] : k \in DOMAIN m}
domain_has_root(m, key) == \E n \in Infos(m) : is_root_module(n) /\ domain_key(n) = key

\* What the emitter puts on a package: no wall, or the packages it admits.
accessible_by_clause(m, h, open) ==
  LET members == {n \in Infos(m) : domain_key(n) = domain_key(h) /\ package_name(n) # package_name(h)}
  IN IF is_root_module(h) \/ open \/ ~domain_has_root(m, domain_key(h)) THEN {}
     ELSE {qualified_name(n) : n \in members}

\* Mutant: a domain of one package, which has no clause, has a wall all the same.
check_that_walls_a_lone_package(m, h, pkg) ==
  LET target == m[pkg]
  IN \/ pkg \notin DOMAIN m
     \/ is_root_module(target) \/ target.is_open
     \/ h # Script /\ domain_key(h) = domain_key(target)
\* The check of a call from module h (a script has none) to package pkg.
check_pkg_accessible(m, h, pkg) ==
  LET target == m[pkg]
      domain_pkgs == {package_name(n) : n \in {n \in Infos(m) : domain_key(n) = domain_key(target)}}
  IN \/ pkg \notin DOMAIN m
     \/ is_root_module(target) \/ target.is_open
     \/ ~domain_has_root(m, domain_key(target))
     \/ Cardinality(domain_pkgs) <= 1
     \/ h # Script /\ domain_key(h) = domain_key(target)

\* Oracle, at the compilation of the caller.
OracleAdmits(clause, caller, target) == clause = {} \/ caller = target \/ caller \in clause

-----------------------------------------------------------------------------
(* The checks of the emitter that the registries decide, as the first      *)
(* diagnostic of a text: its code, its line and what it asks for.          *)

Caller(t) == IF is_script(t) THEN Script ELSE Header(t)
imported_packages(t) ==
  (IF is_script(t) THEN {} ELSE Names(Caller(t))) \cup UNION {Names(t[i]) : i \in LinesOf(t, {"import"})}
LocalDefs(t, kinds) == {i \in LinesOf(t, {"def"}) : t[i].kind \in kinds}

lookup_record(t, recs, l) ==
  LET imported == {k \in DOMAIN recs : k[2] = l.name /\ k[1] \in imported_packages(t)}
  IN IF l.path # <<>> THEN <<Mangled[l.path], l.name>> \in DOMAIN recs
     ELSE (\E i \in LocalDefs(t, {"record"}) : t[i].name = l.name) \/ Cardinality(imported) = 1

\* The result of a call that stands alone is dropped: local functions first.
drops_result(t, sigs, l) ==
  LET own == {i \in LocalDefs(t, {"fn"}) : t[i].name = l.name /\ l.path = <<>>}
  IN /\ ~l.bound /\ ~l.dotted
     /\ IF own # {} THEN t[Least(own)].ret
        ELSE l.path # <<>> /\ <<l.path, l.name>> \in DOMAIN sigs /\ sigs[<<l.path, l.name>>]

body_always_returns(t, i) ==
  \E j \in i + 1 .. Len(t) : Inside(t, i, j) /\ t[j].is = "return"
    /\ \E e \in j + 1 .. Len(t) : t[e].is = "end" /\ \A k \in j + 1 .. e - 1 : t[k].is = "note"

\* Namespaces the emitter fills itself: a call into one needs no import.
INTRINSIC_NAMESPACES == {"json", "jq", "re", "sql", "pell", "pivot", "bulk", "std", "self"}
is_intrinsic_call(l) == l.is = "call" /\ l.path[1] \in INTRINSIC_NAMESPACES

complaint(t, c, i) ==
  LET l == t[i]
      of(code, name) == [code |-> code, line |-> i, name |-> name]
      pkg == Mangled[l.path]
      qualified == l.is \in {"call", "make"} /\ l.path # <<>> /\ ~(l.is = "call" /\ l.dotted) /\ ~is_intrinsic_call(l)
  IN IF l.is = "def" /\ l.kind = "fn" /\ l.ret /\ ~body_always_returns(t, i) THEN of("pell.missing-return", l.name)
     ELSE IF l.is = "call" /\ drops_result(t, c.sigs, l) THEN of("pell.unused-return", l.name)
     ELSE IF l.is = "call" /\ l.dotted /\ <<l.path, l.name>> \in DOMAIN c.sigs THEN of("pell.dot-vs-colon", l.name)
     ELSE IF qualified /\ pkg \notin imported_packages(t) THEN of("pell.missing-import", pkg)
     ELSE IF l.is = "call" /\ qualified /\ ~check_pkg_accessible(c.mods, Caller(t), pkg)
       THEN of("pell.access-violation", pkg)
     ELSE IF l.is = "make" /\ ~lookup_record(t, c.recs, l) THEN of("pell.unknown-struct-type", l.name)
     ELSE of("", "")

Clean == [code |-> "", line |-> 0, name |-> ""]
emit(t, c) ==
  LET wrong == {i \in DOMAIN t : complaint(t, c, i).code # ""}
  IN IF Annotated(t, "stub") \/ wrong = {} THEN Clean ELSE complaint(t, c, Least(wrong))
====
