---------------------------- MODULE ReplSession ----------------------------
(* `pell repl` (repl.py): cells run one after the other against a database  *)
(* session.  Variables live on the Python side between cells: a block puts  *)
(* their values on DBMS_OUTPUT before it ends, the next one starts by       *)
(* assigning them again as literals.                                        *)
(* A variable's value is a function of its fields; a scalar has the one     *)
(* field "".  What the database does with a block is external.              *)
EXTENDS Naturals, Sequences, FiniteSets, SequencesExt

CONSTANTS Cells,      \* what the user may type: [defs, stmts]
          Vars,       \* the variables of those cells
          Records,    \* the names of their records, and of the fields of these
          Fields,
          MaxInputs   \* bound on the inputs of a session

VARIABLES items,      \* self.items
          snap,       \* var_snapshots: <<variable, field>> -> [type, val]
          vtype,      \* var_types
          vrec,       \* _var_record_names
          conn,       \* is there a connection
          buffer,     \* the session's DBMS_OUTPUT lines nobody has read
          pending,    \* rows of the open transaction, named by the statement that made them
          committed,  \* rows committed
          now,        \* inputs so far
          printed,    \* lines printed for the last input
          last,       \* history: the last input, and the variables at the end of its block
          lets,       \* history: the types every variable was declared with since the last reset
          fieldtypes, \* history: the types every field of a record was defined with since then
          stale       \* history: the last reset left values of a block that raised in the buffer

repl == <<items, snap, vtype, vrec>>
db == <<conn, buffer, pending, committed>>
history == <<last, lets, fieldtypes, stale>>
vars == <<repl, db, now, printed, history>>

Numeric == {"1", "2"}
Values == Numeric \cup {"abc", "null", "huge"}      \* huge: over 32767 characters
Scalars == {"NUMBER", "PLS_INTEGER", "VARCHAR2"}
Types == Scalars \cup {"LIST"} \cup Records
Plain == <<"", "">>                                  \* the key of a line that is not a sentinel
Scalar(val) == [f \in {""} |-> val]
Line(key, val) == [by |-> now + 1, key |-> key, val |-> val]

\* A variable, a record and a field have a name; a record's is no other type's.
ASSUME NamesAssumption ==
  /\ IsFiniteSet(Vars) /\ "" \notin Vars
  /\ IsFiniteSet(Fields) /\ "" \notin Fields
  /\ IsFiniteSet(Records) /\ Records \cap (Scalars \cup {"LIST", ""}) = {}

(***************************************************************************)
(* Definitions, and the two sides of a snapshot.                            *)
(***************************************************************************)
\* _absorb: a definition replaces the one of the same name and kind.
Absorb(defs) == {i \in items : \A d \in defs : d.name # i.name \/ d.kind # i.kind} \cup defs

RecordsNamed(its, t) == {i \in its : i.kind = "record" /\ i.name = t}
FieldsOf(its, t) == IF t \in Scalars \cup {"LIST"} THEN {""}
                    ELSE UNION {DOMAIN i.fields : i \in RecordsNamed(its, t)}
\* The type that record t gives its field f.
FieldType(its, t, f) == (CHOOSE i \in RecordsNamed(its, t) : f \in DOMAIN i.fields).fields[f]
Defined(defs) == [p \in Records \X Fields |->
                    fieldtypes[p] \cup {d.fields[p[2]] : d \in {i \in RecordsNamed(defs, p[1]) : p[2] \in DOMAIN i.fields}}]

IsLet(s) == s.op = "let"
LetsOf(stmts) == {stmts[i] : i \in {j \in DOMAIN stmts : IsLet(stmts[j])}}

\* A cell is a set of definitions and a sequence of statements over these names.
ASSUME CellsAssumption ==
  \A c \in Cells :
    /\ \A d \in c.defs : d.kind = "record" => \E F \in SUBSET Fields : d.fields \in [F -> Scalars]
    /\ Len(c.stmts) \in Nat /\ DOMAIN c.stmts = 1..Len(c.stmts)
    /\ \A s \in LetsOf(c.stmts) : s.var \in Vars /\ s.type \in Types
Bases == {k[1] : k \in DOMAIN snap}
IsRecordKey(k) == k[2] # ""

\* _scalar_type_annot: the type a scalar comes back with.
Annot(t) == IF t \in {"NUMBER", "PLS_INTEGER"} THEN "NUMBER" ELSE "VARCHAR2"

\* _snapshot_to_stmts: one let for every scalar, one for every record whose pell name is known.
Replays(its) ==
  {[var |-> k[1], type |-> Annot(snap[k].type), val |-> Scalar(snap[k].val)] :
     k \in {j \in DOMAIN snap : ~IsRecordKey(j)}}
  \cup
  {[var |-> x, type |-> vrec[x],
    val |-> [f \in FieldsOf(its, vrec[x]) |->
               IF <<x, f>> \in DOMAIN snap THEN snap[<<x, f>>].val ELSE "null"]] :
     x \in {k[1] : k \in {j \in DOMAIN snap : IsRecordKey(j)}} \cap DOMAIN vrec}

\* What is replayed: scalars, and the fields that the record still has.
Replayed(its) == {k \in DOMAIN snap : IsRecordKey(k) => k[1] \in DOMAIN vrec /\ k[2] \in FieldsOf(its, vrec[k[1]])}
\* A number is replayed as it was printed; everything else is quoted.
LiteralFits(k) == Annot(snap[k].type) = "NUMBER" => snap[k].val \in Numeric

\* What a let tells of its variable's type: var_types, and _var_record_names.
Typed(stmts) == {s \in LetsOf(stmts) : s.typing # "inferred"}
Named(stmts) == {s \in LetsOf(stmts) : s.typing = "annotated" /\ s.type \notin Scalars \cup {"LIST"}}
TypeOf(ls, x) == (CHOOSE s \in ls : s.var = x).type
Noted(f, ls) == [x \in {s.var : s \in ls} \cup DOMAIN f |->
                   IF \E s \in ls : s.var = x THEN TypeOf(ls, x) ELSE f[x]]
Tag(vt, x) == IF x \in DOMAIN vt THEN vt[x] ELSE ""

(***************************************************************************)
(* The block of a cell.                                                     *)
(***************************************************************************)
\* emit_anon: what it refuses.
Emits(its, stmts) ==
  /\ \A i \in its : i.ok
  /\ \A s \in LetsOf(stmts) : FieldsOf(its, s.type) # {}

Declares(its, stmts) == {<<r.var, r.type>> : r \in Replays(its)}
                        \cup {<<s.var, s.type>> : s \in LetsOf(stmts)}
\* Mutant: only the variables of the cell itself.
CapturedLets(stmts) == {s.var : s \in LetsOf(stmts)}
Captured(stmts) == Bases \cup {s.var : s \in LetsOf(stmts)}

\* _inject_capture_lines: nothing for lists, nor for a record nobody defines; the keys of the rest.
CaptureKeys(its, vt, x) ==
  IF Tag(vt, x) \in Scalars \cup {""} THEN {<<x, "">>}
  ELSE IF Tag(vt, x) = "LIST" THEN {}
  ELSE {<<x, f>> : f \in FieldsOf(its, Tag(vt, x))}

\* External: the block compiles.
Compiles(its, vt, stmts) ==
  LET decl == Declares(its, stmts) IN
  /\ \A d, e \in decl : d[1] = e[1] => d = e
  /\ \A k \in Replayed(its) : LiteralFits(k)
  /\ \A i \in DOMAIN stmts : stmts[i].op = "set" => \E d \in decl : d[1] = stmts[i].var
  /\ \A x \in Captured(stmts) : CaptureKeys(its, vt, x) # {} =>
        \E d \in decl : /\ d[1] = x
                        /\ IF Tag(vt, x) \in Scalars \cup {""} THEN d[2] \in Scalars
                                                               ELSE d[2] = Tag(vt, x)

\* External: the variables after the first n statements.
Start(its) == [x \in {r.var : r \in Replays(its)} |->
                 (CHOOSE r \in Replays(its) : r.var = x).val]
Assigns(stmts, n) == {i \in 1..n : stmts[i].op \in {"let", "set"}}
Env(its, stmts, n) ==
  LET start == Start(its)
      assigned == {stmts[i].var : i \in Assigns(stmts, n)}
      final(x) == CHOOSE i \in Assigns(stmts, n) :
                    /\ stmts[i].var = x
                    /\ \A j \in Assigns(stmts, n) : stmts[j].var = x => j <= i
  IN [x \in DOMAIN start \cup assigned |->
        IF x \in assigned THEN stmts[final(x)].val ELSE start[x]]

\* External: a value assigned is one of the type of its variable or field.  When one is not, the
\* block raises there; a field whose record was defined again may be when it is replayed.
Holds(type, val) == Annot(type) = "NUMBER" => val \in Numeric \cup {"null"}
ReplayConverts(its) ==
  \A k \in Replayed(its) : IsRecordKey(k) => Holds(FieldType(its, vrec[k[1]], k[2]), snap[k].val)
Converts(its, stmts, n) ==
  /\ ReplayConverts(its)
  /\ \A i \in Assigns(stmts, n) : \A d \in Declares(its, stmts) : d[1] = stmts[i].var =>
       \A f \in FieldsOf(its, d[2]) \cap DOMAIN stmts[i].val :
         Holds(IF f = "" THEN d[2] ELSE FieldType(its, d[2], f), stmts[i].val[f])

Returns(stmts) == \E i \in DOMAIN stmts : stmts[i].op = "return"
Upto(stmts) == IF Returns(stmts)
               THEN CHOOSE i \in DOMAIN stmts : /\ stmts[i].op = "return"
                                                /\ \A j \in 1..(i - 1) : stmts[j].op # "return"
               ELSE Len(stmts)

Prints(stmts, n) == [i \in 1..Cardinality({j \in 1..n : stmts[j].op = "print"}) |-> Line(Plain, "out")]

\* External: the transaction after n statements.  A transaction block ends with a commit.
Rows(stmts, n) == {<<now + 1, i>> : i \in {j \in 1..n : stmts[j].op = "insert"}}
Commits(stmts, n) == {i \in 1..n : stmts[i].op = "commit"}
Committed(stmts, n) ==
  committed \cup UNION {pending \cup Rows(stmts, i) : i \in Commits(stmts, n)}
Open(stmts, n) == (pending \cup Rows(stmts, n)) \ Committed(stmts, n)
AllKeys(its, vt, stmts) == UNION {CaptureKeys(its, vt, x) : x \in Captured(stmts)}
FieldVal(env, k) == IF k[2] \in DOMAIN env[k[1]] THEN env[k[1]][k[2]] ELSE "null"
Captures(keys, env) == LET order == SetToSeq(keys)
                       IN [i \in DOMAIN order |-> Line(order[i], FieldVal(env, order[i]))]

\* What the lines of an output tell of the variables; the last one for a key counts.
Told(output) == {output[i].key : i \in DOMAIN output} \ {Plain}
LastTold(output, k) ==
  output[CHOOSE i \in DOMAIN output : /\ output[i].key = k
                                     /\ \A j \in DOMAIN output : output[j].key = k => j <= i].val
Stored(its, vt, k, val) ==
  [type |-> IF k[1] \in DOMAIN vt /\ ~IsRecordKey(k) THEN vt[k[1]]
            ELSE IF k[1] \in DOMAIN vt /\ k[2] \in FieldsOf(its, vt[k[1]]) THEN FieldType(its, vt[k[1]], k[2])
            ELSE "VARCHAR2",
   val |-> val]
\* Mutant: NULL kept like a value.
NullIsText(its, vt, output) ==
  [k \in DOMAIN snap \cup Told(output) |->
     IF k \in Told(output) THEN Stored(its, vt, k, LastTold(output, k)) ELSE snap[k]]
\* _parse_snapshot, for every line of an output.
ParseSnapshot(its, vt, output) ==
  [k \in {j \in DOMAIN snap \cup Told(output) : j \in Told(output) => LastTold(output, j) # "null"} |->
     IF k \in Told(output) THEN Stored(its, vt, k, LastTold(output, k)) ELSE snap[k]]
IsPlain(l) == l.key = Plain

Init ==
  /\ items = {} /\ snap = <<>> /\ vtype = <<>> /\ vrec = <<>>
  /\ conn \in BOOLEAN /\ buffer = <<>> /\ pending = {} /\ committed = {}
  /\ now = 0 /\ printed = <<>>
  /\ last = [ended |-> "start", env |-> <<>>] /\ lets = [x \in Vars |-> {}]
  /\ fieldtypes = [p \in Records \X Fields |-> {}]
  /\ stale = FALSE

Input(ended, env) ==
  /\ now < MaxInputs /\ now' = now + 1
  /\ last' = [ended |-> ended, env |-> env]

Nothing == [x \in {} |-> ""]

(***************************************************************************)
(* _run_cell.                                                               *)
(***************************************************************************)
\* A cell that does not parse.
SyntaxError ==
  /\ Input("error", Nothing) /\ printed' = <<>>
  /\ UNCHANGED <<repl, db, lets, fieldtypes, stale>>

\* Definitions are kept whatever becomes of the rest; without statements, a connection, or a
\* block that can be emitted, they are all that happens.
CellStops(c) ==
  /\ items' = Absorb(c.defs) /\ fieldtypes' = Defined(c.defs)
  /\ c.stmts = <<>> \/ ~conn \/ ~Emits(items', c.stmts)
  /\ Input(IF c.stmts = <<>> /\ Emits(items', c.stmts) THEN "defined" ELSE "error", Nothing)
  /\ printed' = <<>>
  /\ UNCHANGED <<snap, vtype, vrec, db, lets, stale>>

\* The part before run_block; the types are noted whether or not the block succeeds.
Prepare(c) ==
  /\ now < MaxInputs
  /\ c.stmts # <<>> /\ conn
  /\ items' = Absorb(c.defs) /\ fieldtypes' = Defined(c.defs)
  /\ Emits(items', c.stmts)
  /\ vtype' = Noted(vtype, Typed(c.stmts))
  /\ vrec' = Noted(vrec, Named(c.stmts))
  /\ lets' = [x \in Vars |-> lets[x] \cup {IF s.typing = "inferred" THEN "VARCHAR2" ELSE s.type :
                                             s \in {t \in LetsOf(c.stmts) : t.var = x}}]

\* The values the block puts out at its end; an early return leaves before them.
Report(c, env) ==
  IF Returns(c.stmts) THEN <<>> ELSE Captures(AllKeys(items', vtype', c.stmts), env)

CellRuns(c) ==
  /\ Prepare(c)
  /\ Compiles(items', vtype', c.stmts)
  /\ Converts(items', c.stmts, Upto(c.stmts))
  /\ LET n == Upto(c.stmts)
         env == Env(items', c.stmts, n)
         report == Report(c, env)
         output == buffer \o Prints(c.stmts, n) \o report
     IN /\ \A i \in DOMAIN report : report[i].val # "huge"
        /\ snap' = ParseSnapshot(items', vtype', output)
        /\ printed' = Restrict(output, {i \in DOMAIN output : IsPlain(output[i])})
        /\ pending' = Open(c.stmts, n) /\ committed' = Committed(c.stmts, n)
        /\ Input(IF Returns(c.stmts) THEN "returned" ELSE "ok", env)
  /\ buffer' = <<>>
  /\ UNCHANGED <<conn, stale>>

\* Mutant: the output of a block that raised is thrown away.
RaisesDrained(c) ==
  /\ Prepare(c)
  /\ buffer' = <<>>
  /\ Input("error", Nothing) /\ printed' = <<>>
  /\ UNCHANGED <<snap, conn, pending, committed, stale>>

\* External: the database undoes what a block that raised after n statements did since its last
\* commit; whether it does when there is such a commit is left open.
Undone(stmts, n) ==
  /\ committed' = Committed(stmts, n)
  /\ IF Commits(stmts, n) = {} THEN pending' = pending ELSE pending' \in {{}, Open(stmts, n)}

\* run_block raises: what the block had put out stays in the session's buffer.
CellRaises(c) ==
  /\ Prepare(c)
  /\ IF Compiles(items', vtype', c.stmts)
     THEN \/ \E n \in 0..(Upto(c.stmts) - 1) :
               /\ n > 0 => Converts(items', c.stmts, n)
               /\ buffer' = buffer \o Prints(c.stmts, n) /\ Undone(c.stmts, n)
          \/ LET n == Upto(c.stmts)
                 report == Report(c, Env(items', c.stmts, n))
             IN /\ Converts(items', c.stmts, n)
                /\ \E m \in DOMAIN report :
                     /\ report[m].val = "huge"
                     /\ \A i \in 1..(m - 1) : report[i].val # "huge"
                     /\ buffer' = buffer \o Prints(c.stmts, n) \o SubSeq(report, 1, m - 1)
                /\ Undone(c.stmts, n)
     ELSE UNCHANGED <<buffer, pending, committed>>
  /\ Input("error", Nothing) /\ printed' = <<>>
  /\ UNCHANGED <<snap, conn, stale>>

(***************************************************************************)
(* Slash commands that change something.                                    *)
(***************************************************************************)
Reset ==
  /\ items' = {} /\ snap' = <<>> /\ vtype' = <<>> /\ vrec' = <<>>
  /\ Input("reset", Nothing) /\ printed' = <<>>
  /\ lets' = [x \in Vars |-> {}] /\ fieldtypes' = [p \in Records \X Fields |-> {}]
  /\ stale' = \E i \in DOMAIN buffer : ~IsPlain(buffer[i])
  /\ UNCHANGED db

\* \load: the statements of the file are ignored.
Load(c) ==
  /\ items' = Absorb(c.defs) /\ fieldtypes' = Defined(c.defs)
  /\ Input("defined", Nothing) /\ printed' = <<>>
  /\ UNCHANGED <<snap, vtype, vrec, db, lets, stale>>

\* \sql: anything but a query is committed, with all that is open.
RawDml ==
  /\ conn
  /\ Input("sql", Nothing) /\ printed' = <<>>
  /\ committed' = committed \cup pending \cup {<<now', 0>>} /\ pending' = {}
  /\ UNCHANGED <<repl, conn, buffer, lets, fieldtypes, stale>>

RawRollback ==
  /\ conn
  /\ Input("sql", Nothing) /\ printed' = <<>>
  /\ pending' = {}
  /\ UNCHANGED <<repl, conn, buffer, committed, lets, fieldtypes, stale>>

\* \exec, and \sql of a block.  The user's PL/SQL may commit what is open, or roll it back.
ExecBlock ==
  /\ conn
  /\ Input("exec", Nothing)
  /\ printed' = Append(buffer, Line(Plain, "out")) /\ buffer' = <<>>
  /\ \/ pending' = pending \cup {<<now', 0>>} /\ UNCHANGED committed
     \/ pending' = {} /\ committed' \in {committed, committed \cup pending \cup {<<now', 0>>}}
  /\ UNCHANGED <<repl, conn, lets, fieldtypes, stale>>

ExecRaises ==
  /\ conn
  /\ Input("error", Nothing) /\ printed' = <<>>
  /\ buffer' \in {buffer, Append(buffer, Line(Plain, "out"))}
  /\ \/ UNCHANGED <<pending, committed>>
     \/ pending' = {} /\ committed' \in {committed, committed \cup pending \cup {<<now', 0>>}}
  /\ UNCHANGED <<repl, conn, lets, fieldtypes, stale>>

\* \connect: the old session is closed, and its transaction with it.
Connect ==
  /\ conn' = TRUE /\ buffer' = <<>> /\ pending' = {}
  /\ Input("connect", Nothing) /\ printed' = <<>>
  /\ UNCHANGED <<repl, committed, lets, fieldtypes, stale>>

Next ==
  \/ SyntaxError \/ Reset \/ RawDml \/ RawRollback \/ ExecBlock \/ ExecRaises \/ Connect
  \/ \E c \in Cells : CellStops(c) \/ CellRuns(c) \/ CellRaises(c) \/ Load(c)

Spec == Init /\ [][Next]_vars

(***************************************************************************)
(* Properties.                                                              *)
(***************************************************************************)
\* The database session: no transaction and no output without one, no row twice.
DbOK ==
  /\ conn \in BOOLEAN /\ (~conn => buffer = <<>> /\ pending = {})
  /\ pending \cap committed = {} /\ \A row \in pending \cup committed : row[1] \in 1..now

\* After a cell that ended well, what the session keeps of every variable the block had, those of
\* earlier cells included, is its value at the end of the block; NULL is kept as no value
\* ("After each cell executes successfully, the REPL captures every variable's value",
\* docs/tutorial/16-repl-deep-dive.md:130).  A cell left by `return` is not asked this.
CapturedAfterSuccess ==
  last.ended = "ok" =>
    \A x \in DOMAIN last.env : \A k \in CaptureKeys(items, vtype, x) :
      LET val == FieldVal(last.env, k)
      IN IF val = "null" THEN k \notin DOMAIN snap ELSE k \in DOMAIN snap /\ snap[k].val = val

\* No output is lost but with its session (repl.py:6, "Output prints below the cell"): what a
\* block that raised had put out stays until a block that does not raise prints it, and only
\* such lines are printed below a cell that is not theirs.
OutputReaches ==
  [][ LET there(s, l) == \E i \in DOMAIN s : s[i] = l IN
      /\ \A i \in DOMAIN buffer : IsPlain(buffer[i]) =>
           there(buffer', buffer[i]) \/ there(printed', buffer[i]) \/ last'.ended = "connect"
      /\ \A i \in DOMAIN printed' : printed'[i].by = now' \/ there(buffer, printed'[i])
      /\ buffer' # <<>> => buffer' = buffer \/ last'.ended = "error" ]_vars

\* A cell that only prints fails in this session, whatever it prints.
JustPrint == <<[op |-> "print"]>>
Stuck == conn /\ ~(/\ Emits(items, JustPrint) /\ Compiles(items, vtype, JustPrint)
                   /\ Converts(items, JustPrint, Len(JustPrint)))

\* Kept variables and definitions never make every further cell fail, unless a variable was
\* declared or a field of a record defined with two types, a record came from another package without an annotation, a
\* definition is one that an anonymous block cannot hold, or values a raising block had put out
\* outlived a \reset, which forgets their types and not the lines that carry them.
UsableUnlessRetyped ==
  Stuck => \/ \E x \in Vars : Cardinality(lets[x]) > 1
           \/ \E p \in Records \X Fields : Cardinality(fieldtypes[p]) > 1
           \/ \E x \in DOMAIN vtype \ DOMAIN vrec : vtype[x] \in Records
           \/ \E i \in items : ~i.ok
           \/ stale

====
