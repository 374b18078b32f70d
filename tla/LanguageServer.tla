---- MODULE LanguageServer ----
(***************************************************************************)
(* The language server of pell (lsp/pell_lsp/server.py) and an editor.     *)
(* Notifications and requests are handled one at a time, in the order they *)
(* were sent; the server reads the project from the disk, where it sees    *)
(* what was saved, by whomever, and not what is being typed.               *)
(***************************************************************************)
EXTENDS Assist

CONSTANTS
  Files,       \* the files of the project
  RootOf,      \* the root of the project a file is in (_project_root_for)
  Texts,       \* per file the texts it may have
  Disks,       \* the projects to begin with
  NotOpen,     \* in place of the text of a document that is not open
  NotScanned,  \* in place of the registries of a project
  MaxInbox,    \* bound: messages under way
  MaxEvents    \* bound: what the editor and others do

ASSUME ProjectAssumption ==
  /\ RootOf \in [Files -> Roots]
  /\ Walk \in [Roots -> Seq([file : Files, dirs : Seq(STRING)])]
  /\ Disks \subseteq [Files -> (UNION {Texts[f] : f \in Files}) \cup {Absent}]
  /\ TopLines \in Nat /\ MaxInbox \in Nat /\ MaxEvents \in Nat

\* Texts are sequences of lines, and the paths of their headers can be mangled.
ASSUME TextsAssumption ==
  \A f \in Files : \A t \in Texts[f] :
    /\ t \in Seq({t[i] : i \in DOMAIN t})
    /\ \A i \in LinesOf(t, {"call"}) :
         t[i] \in [is : {"call"}, path : Seq(STRING), name : STRING, dotted : BOOLEAN, bound : BOOLEAN]
    /\ \A m \in LinesOf(t, {"module"}) : t[m].path \in DOMAIN Mangled

VARIABLES
  disk,        \* the text of every file on disk
  editor,      \* the text in the editor, or NotOpen
  inbox,       \* the messages the server has not handled yet
  docs,        \* server.workspace: the text of an open document, or NotOpen
  cache,       \* _cache: the module last parsed from a document
  ctx,         \* _project_ctx: per root its registries, or NotScanned
  published,   \* the diagnostic last published for a document
  foreign,     \* has another program changed the disk since a save was handled?
  events

vars == <<disk, editor, inbox, docs, cache, ctx, published, foreign, events>>

Syntax == [code |-> "syntax", line |-> 0, name |-> ""]

\* Opening and changing a document sends its text.
Message(type, f, t) == [type |-> type, file |-> f, text |-> t]

-----------------------------------------------------------------------------
(* The handlers.                                                           *)

\* The registries of f's project: scanned now unless they are in contexts c.
Consulted(c, f) == IF c[RootOf[f]] = NotScanned THEN scan_project(disk, RootOf[f]) ELSE c[RootOf[f]]
get_project_ctx(c, f) == [r \in Roots |-> IF r = RootOf[f] THEN Consulted(c, f) ELSE c[r]]

ModuleOf(t) == IF ~is_script(t) /\ parse(t) THEN t ELSE NoModule

\* Of text t of f, with contexts c: the project is consulted if t parses.
validate(f, t, c) ==
  LET parsed == IF is_script(t) THEN parse_cell(t) ELSE parse(t)
  IN /\ cache' = [cache EXCEPT ![f] = ModuleOf(t)]
     /\ published' = [published EXCEPT ![f] = IF parsed THEN emit(t, Consulted(c, f)) ELSE Syntax]
     /\ ctx' = IF parsed THEN get_project_ctx(c, f) ELSE c

Unscanned == [r \in Roots |-> NotScanned]

on_open(m) == m.type = "open" /\ validate(m.file, m.text, ctx) /\ UNCHANGED foreign
on_change(m) == m.type = "change" /\ validate(m.file, m.text, ctx) /\ UNCHANGED foreign
\* Mutants: a save forgets nothing; a save validates first.
on_save_forgetting_nothing(m) == m.type = "save" /\ validate(m.file, docs[m.file], ctx) /\ foreign' = FALSE
on_save_forgetting_last(m) ==
  /\ m.type = "save" /\ ctx' = Unscanned /\ foreign' = FALSE
  /\ cache' = [cache EXCEPT ![m.file] = ModuleOf(docs[m.file])]
  /\ published' = [published EXCEPT ![m.file] =
       IF parse(docs[m.file]) THEN emit(docs[m.file], Consulted(ctx, m.file)) ELSE Syntax]
\* A save forgets every project, then validates the document that was saved.
on_save(m) == m.type = "save" /\ validate(m.file, docs[m.file], Unscanned) /\ foreign' = FALSE
\* Nothing handles the closing of a document but the workspace.
on_close(m) == m.type = "close" /\ UNCHANGED <<cache, ctx, published, foreign>>
\* Requests about f: some consult the project, none changes anything else.
on_request(m) ==
  /\ m.type = "request"
  /\ ctx' \in {ctx, get_project_ctx(ctx, m.file)}
  /\ UNCHANGED <<cache, published, foreign>>

Take == inbox # <<>> /\ inbox' = Tail(inbox)
Serve ==
  /\ Take
  /\ LET m == inbox[1]
     IN /\ on_open(m) \/ on_change(m) \/ on_save(m) \/ on_close(m) \/ on_request(m)
        /\ docs' = [docs EXCEPT ![m.file] = CASE m.type \in {"open", "change"} -> m.text
                                               [] m.type = "close" -> NotOpen
                                               [] OTHER -> @]
  /\ UNCHANGED <<disk, editor, events>>

-----------------------------------------------------------------------------
(* The editor, and other programs.                                         *)

Happens == Len(inbox) < MaxInbox /\ events < MaxEvents /\ events' = events + 1
Tell(type, f, t) == inbox' = Append(inbox, Message(type, f, t)) /\ UNCHANGED <<docs, cache, ctx, published>>

Open(f) == /\ Happens
           /\ editor[f] = NotOpen /\ disk[f] # Absent
           /\ editor' = [editor EXCEPT ![f] = disk[f]]
           /\ Tell("open", f, disk[f])
           /\ UNCHANGED <<disk, foreign>>
Edit(f, t) == /\ Happens
              /\ editor[f] \notin {NotOpen, t}
              /\ editor' = [editor EXCEPT ![f] = t]
              /\ Tell("change", f, t)
              /\ UNCHANGED <<disk, foreign>>
Save(f) == /\ Happens
           /\ editor[f] # NotOpen
           /\ disk' = [disk EXCEPT ![f] = editor[f]]
           /\ Tell("save", f, Absent)
           /\ UNCHANGED <<editor, foreign>>
Close(f) == /\ Happens
            /\ editor[f] # NotOpen
            /\ editor' = [editor EXCEPT ![f] = NotOpen]
            /\ Tell("close", f, Absent)
            /\ UNCHANGED <<disk, foreign>>
Request(f) == /\ Happens
              /\ editor[f] # NotOpen
              /\ Tell("request", f, Absent)
              /\ UNCHANGED <<disk, editor, foreign>>
\* A checkout, a formatter, another editor.
ChangeOutside(f, t) == /\ Happens
                       /\ disk[f] # t
                       /\ disk' = [disk EXCEPT ![f] = t]
                       /\ foreign' = TRUE
                       /\ UNCHANGED <<editor, inbox, docs, cache, ctx, published>>

Init == /\ disk \in Disks
        /\ editor = [f \in Files |-> NotOpen]
        /\ inbox = <<>>
        /\ docs = [f \in Files |-> NotOpen]
        /\ cache = [f \in Files |-> NoModule]
        /\ ctx = Unscanned
        /\ published = [f \in Files |-> Clean]
        /\ foreign = FALSE
        /\ events = 0

Next == \/ Serve
        \/ \E f \in Files :
             \/ Open(f) \/ Save(f) \/ Close(f) \/ Request(f)
             \/ \E t \in Texts[f] : Edit(f, t) \/ ChangeOutside(f, t)

Spec == Init /\ [][Next]_vars

-----------------------------------------------------------------------------
(* Properties.                                                             *)

Now(r) == scan_project(disk, r)

\* The outline, the hovers and the completions of an open document are those of
\* its present text or none (_cache), and the registries every check reads are
\* those of the files on disk (_project_ctx), unless a save is still under way
\* or another program has changed a file since the last one, which nothing tells
\* the server.
CachesAreCurrent ==
  /\ \A f \in Files : docs[f] # NotOpen => cache[f] = ModuleOf(docs[f])
  /\ ~foreign /\ (\A k \in DOMAIN inbox : inbox[k].type # "save") => \A r \in Roots : ctx[r] \in {NotScanned, Now(r)}

\* After a save the document saved is judged by the project on disk, what other
\* programs and earlier saves made of it included.
SaveIsJudgedFresh ==
  [][\A f \in Files :
       Take /\ inbox[1].type = "save" /\ inbox[1].file = f =>
         published'[f] \in {Syntax, emit(docs'[f], Now(RootOf[f]))}]_vars

\* The scanned files of root r that export a name.
Exporters(r, name) ==
  {i \in Scanned(disk, r) :
     \E j \in DOMAIN At(disk, r, i) : LET l == At(disk, r, i)[j]
                                      IN IsPublic(l, {"fn", "record", "error", "aggregate"}) /\ l.name = name}
HeaderOf(r, i) == Header(At(disk, r, i))

\* Exporter i has name among its records, or among the functions of a file that
\* the scan of signatures, which skips other directories, comes to.
Offered(r, i, name) ==
  \E j \in DOMAIN At(disk, r, i) :
    LET l == At(disk, r, i)[j]
    IN /\ IsPublic(l, {"record"}) \/ (IsPublic(l, {"fn"}) /\ i \in ScannedForSignatures(disk, r))
       /\ l.name = name

\* A call with one qualifier is one that completion offers, if a module with that
\* last segment offers the name.  If a module of that name exports it, one gets from the call to the
\* definition in such a module,
\* unless the file has an item of the name itself; and from there back to the
\* call, just when that module alone exports the name and its path has no dot (a
\* dotted module is registered twice, and then nobody owns its names alone).
NavigationClosesTheLoop ==
  \A r \in Roots : LET c == Now(r) IN \A s \in Sites(disk, r, Walked(r)) :
    LET f == Walk[r][s[1]].file
        t == At(disk, r, s[1])
        l == LineAt(disk, r, s)
        q == l.path[1]
        named == {i \in Exporters(r, l.name) : q \in Names(HeaderOf(r, i))}
        found == on_definition(f, t, ModuleOf(t), c, s[2])
    IN l.is = "call" /\ ~l.dotted /\ Len(l.path) = 1 /\ named # {} =>
       /\ (\E i \in named : q = short_name(HeaderOf(r, i)) /\ Offered(r, i, l.name))
            => l.name \in qualified_completions(c, q)
       /\ (\A j \in LocalDefs(t, {"fn", "record", "error"}) : t[j].name # l.name) =>
            \E p \in found : \E i \in named :
              /\ Walk[r][i].file = p.file /\ disk[p.file][p.line].name = l.name
              /\ Place(f, s[2]) \in on_references(disk[p.file], c, p.line) <=>
                   \A e \in Exporters(r, l.name) : HeaderOf(r, e).path = <<q>>

\* A quick fix of the diagnostic of an open document leaves a text that parses,
\* and takes the complaint away from its line.  Some it cannot fix: an import or
\* a record goes on top of a header that a comment follows, a record also on top of
\* one that is far down, a return goes in front of a function of one line, of some
\* types no zero value can be written, and a record is given a qualified name.
Unfixable(t, g) ==
  \/ g.code \in {"pell.missing-import", "pell.unknown-struct-type"} /\ \E i \in LinesOf(t, {"module"}) : t[i].tail
  \/ g.code = "pell.unknown-struct-type" /\ \E i \in LinesOf(t, {"module"}) : i > TopLines
  \/ g.code = "pell.unknown-struct-type" /\ t[g.line].path # <<>>
  \/ g.code = "pell.missing-return" /\ (t[g.line].oneline \/ ~zero_value_parses(t[g.line].type))
FixesHelp ==
  \A f \in {f \in Files : docs[f] # NotOpen} :
    LET t == docs[f]
        c == Now(RootOf[f])
        g == emit(t, c)
        fixed == on_code_action(t, g)
    IN (IF is_script(t) THEN parse_cell(t) ELSE parse(t)) /\ g.code \in Fixes /\ ~Unfixable(t, g) =>
         /\ is_script(fixed) = is_script(t)
         /\ IF is_script(t) THEN parse_cell(fixed) ELSE parse(fixed)
         /\ complaint(fixed, c, line_after(t, g)).code # g.code

Modules(r) == scan_project_modules(disk, r)
\* Packages of one name are one to the registries.
Distinct(m) == \A n, o \in Infos(m) : package_name(n) = package_name(o) => n = o
\* The compiler refuses a call into a submodule exactly when Oracle would, by the
\* ACCESSIBLE BY clause that the submodule is installed with, be the caller a
\* module of the project or a script (_check_pkg_accessible "must match
\* _accessible_by_clause exactly").
GateMatchesClause ==
  \A r \in Roots : LET m == Modules(r) IN Distinct(m) =>
    \A pkg \in DOMAIN m :
      LET clause == accessible_by_clause(m, m[pkg], m[pkg].is_open)
      IN /\ check_pkg_accessible(m, Script, pkg) <=> clause = {}
         /\ \A h \in Infos(m) :
              check_pkg_accessible(m, h, pkg) <=> OracleAdmits(clause, qualified_name(h), qualified_name(m[pkg]))
====
