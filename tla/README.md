# pell in TLA+

pell is a language transpiled to Oracle PL/SQL, with a compiler (`src/compiler/pell`),
a hand-written PL/SQL runtime (`src/compiler/runtime`), a language server (`src/lsp`) and
an IntelliJ plugin (`src/intellij`).  This directory holds TLA+ models of the parts of it
that keep state or run concurrently, the TLC runs that check them on small instances, and
TLAPS proofs about them for every instance.

## 1. Inventory

State, operations and interactions of the system's parts.  "Hard" names what a unit test
would hardly reach; PROJECT.json lists each such hazard at its line.

| part | state it keeps | operations | talks to | hard |
|---|---|---|---|---|
| `pell debug-serve` (`debug_serve.py`) | command queue, last suspension, target thread, two database connections | read a line, set a breakpoint, run/step/continue, locals, stop, finish | the IDE through stdin/stdout, the target through DBMS_DEBUG | reader thread, serve loop and target interleave; timeouts; failing calls; a drain that may wait for ever |
| SQL debug engine (`PellSqlDebugProcess.kt`) | `ready`, `queuedBreakpoints`, `bpById`, `activeStep`, `localsFuture` | start, event loop, add a breakpoint, step/resume/stop, variables of a frame | debug-serve through pipes, the IDE's session | engine, pool and user threads share unlocked fields |
| JDWP debug engine (`PellDebugProcess.kt`, `cmd_debug_target`) | deferred/pending/armed breakpoints, class-prepare requests, latch, active step | start-up, ClassPrepare, breakpoint and step events, resume, stop | the database as a JVM, through JDI | arming races with start-up and class loading; event sets and resumes |
| REPL (`repl.py`) | definitions, snapshots of variables, their types, the connection | run a cell, `\reset`, `\load`, `\sql`, `\exec`, `\connect` | the database session (transaction, DBMS_OUTPUT buffer) | cells that fail half way, state kept on both sides |
| deploy, sql, migrate, runtime (`cli.py`) | files built, objects installed | build all, install in order, grant | the database | partial failure, dirty objects, dependency order |
| driver (`driver.py`) | a connection | run a block, install a script, drain output | the database | compile warnings lost or misattributed |
| emitter (`emitter.py`) | scopes, temporaries of one compilation; the registries scanned from the project | lower every construct, check imports, access domains and records | the other files of the project | order of commit, rollback, finally and retry in the code it emits; several scans of one project that must agree |
| lexer, parser and AST (`lexer.py`, `parser.py`, `ast.py`) | a position in the text, then in the tokens | tokenize, parse a module, parse a cell of the REPL | everything that reads pell | what a parse method forgets; tokens that mean two things; raw text (SQL, jq, macros) inside pell |
| dependency analysis (`deps.py`) | what was found so far | walk a module for SQL and for calls, extract tables from SQL | the parser's tree | a field no walker goes into; SQL scanned without a parser |
| line maps (`srcmap.py`, `debug_query.py`, `PellSrcMap.kt`) | none | extract markers, map lines both ways | - | boundaries, nearest-line rules |
| regular expressions (`pell_re.sql`) | cache of compiled programs | compile, match, replace, split | - | backtracking, empty matches, the cache at its limit |
| language server (`pell_lsp/server.py`) | open documents, `_cache` (the module last parsed from each), `_project_ctx` (registries per root), diagnostics published | open, change, save; definition, references, completion, quick fixes, tokens | the editor, the disk, the emitter's scans and checks | registries that are stale; answers that lead nowhere; fixes that break the file |
| highlighter (`pell_lsp/semantic_tokens.py`) | a position in the text, open strings and braces | tokens of a text, as deltas | the editor | a second scanner of the same language, which drifts from the lexer |
| IDE services (preview, symbols, modules, refactoring) | caches, registries, pending compiles | compile, refresh, highlight | files, the compiler, the debugger | late results, invalidation |

What makes each part correct:

* *debug-serve*: every request is answered once and in order; the target never moves
  without a command; what is reported of it is true; the process ends when the IDE goes away.
* *debug engines*: a session shown as paused is paused there; breakpoints are neither lost nor
  resurrected; steps surface; stop stops; no suspension goes unnoticed.
* *REPL*: what a cell sees is what earlier successful cells left; a failing cell leaves it alone.
* *deploy*: nothing is reported as installed that is not valid; nothing is installed when the
  build failed; shared packages come before their users.
* *lowering*: a transaction block commits exactly when its body ends well; finally blocks run
  once; retries are bounded.
* *front end*: what was written is what is read; a token that is accepted is kept somewhere; the manifest
  names every table, sequence and package the source mentions.
* *scanners*: a text is highlighted as the compiler reads it; SQL inside pell is cut at the same places by all
  who look into it.
* *language server*: its caches are those of the files as they are; navigation is a two-way street; an offered
  fix removes the error; what it says of access is what the database will say.

PROJECT.json `components` gives the status of every part.

## 2. Plan

In order, the most important behaviour first.

1. `ProbeTarget`, `DebugServe`, `DebugProtocol`: the debug server with its target, and the
   protocol it implements.  *(done; invariants and the refinement proved)*
2. `SqlDebugSession`: composes the IDE engine with `DebugServe`.  *(done; its safety proved)*
3. `JdwpDebug`: the other transport.  *(done; its safety proved)*
4. `Lowering`: the control flow the emitter produces for transaction, finally, retry and
   autonomous functions, run step by step on a database session.  *(done; proved)*
5. `ReplSession`: the REPL against a database session.  *(done; proved)*
6. `Deploy`: build and statement-by-statement install, run again and again.  *(done; its safety proved)*
7. `Grammar`, `Ast`, `Parser`, `SourceText`, `Deps`, composed by `FrontEnd`: from tokens to the tree and
   the dependency manifest.  *(done)*
8. `Text`, `Lexer`, `SqlText`, `SemanticTokens`, composed by `Scanning`: five scanners of one text.  *(done)*
9. `Project`, `Assist`, composed by `LanguageServer`: the registries of a project and the server that keeps
   them.  *(done; proved)*
10. `RegexVm` (`pell_re.sql`) and `LineMaps` (`srcmap.py`, `debug_query.py`, `PellSrcMap.kt`): pure
   algorithms against reference definitions over bounded inputs.
11. `PreviewService`: the plugin's caches and pending compiles.
12. The rest of the emitter: SQL binding, iteration and match.

Every safety property a run checks of the modules without recursive operators is a theorem; section 6 says what is not.
Number of runs is kept small: one per question, several properties per run.

## 3. The models

### ProbeTarget and DebugServe

`ProbeTarget` is the target database session as DBMS_DEBUG shows it; Oracle is not in the
repository, so it is reconstructed from the calls `debug_serve.py` makes and the protocol facts
its header records, and its definitions are marked external.  A debugged block is a flow graph
(`Flow`, `Exits`) over lines; line 0 is `interpreter_starting`.

`DebugServe` is the process.  Correspondence:

| variable | code |
|---|---|
| `written`, `eof`, `nread` | stdin as written by `PellSqlDebugProcess.send`, and how far `read_stdin` is |
| `cmds` | `cmds`, the queue between `read_stdin` and the loop |
| `pc` | where `serve()` is: `poll`/`pollcheck` (waiting for the session), `announce`, `user`, `idle` (`cmds.get()`), `exec`, `cont` (in `do_continue`), `abort`/`aborting`, then `finish()`: `detach`, `wait`, `drain`, `report`, `close` |
| `cur` | `c`, the command in hand |
| `last` | `last`, the position of the last suspension |
| `tthread`, `target_done`, `target_error` | `run_target()` and what it shares |
| `events` | lines written by `_emit` |
| `out` | what `finish()` has for its report: the output it drained, or `late` when `target_done.wait(15)` ran out |
| `faults` | database calls that failed or timed out so far (bounded by `MaxFaults`) |

Each handler of the loop is one action per database call it makes, because the target and the
reader thread move in between (`StopCmdDelete`, `StopCmdAbort`, `StopCmdFinish`); each has its
failing alternative (`CommandFails`, `StopCmdAbortFails`, `DetachFails`, `DrainFails`).  What
`locals` reads is abstracted to the position it reads at.  A line of input is a command, `unknown`, `bad` (no
JSON) or `value` (JSON that is no object: a number, a list, `null`).  The reader queues the last like a command,
and `c.get` fails on it outside the `try` (`debug_serve.py:443`): the process ends with neither an answer nor
`terminated` (`TakeNonObject`).

`DebugProtocol` is the abstract specification: requests in, one answer each, in order, between
`ready` and at most one `terminated`; a request that is no object ends it unanswered (`Choke`).  `DebugRefinement` gives the refinement mapping
(`PendingMap`: command in hand, queue, unread lines and the stop end-of-file stands for) and
states `Protocol!PSpec` as `ImplementsProtocol`.

### SqlDebugSession

EXTENDS `DebugServe` and adds the IDE side: the engine thread (`engine`: `start()`, then
`eventLoop` reading `events`), pooled tasks (`task[b]`: `addBreakpoint`, split where it reads
`ready`, takes the lock, increments `bpCounter` and sends), the locals request of a displayed
frame (`AskLocals`, `SendLocals`), the wait of `stop()` (`KillServe`), and the user.
`ServeProcess` composes: whatever `DebugServe` can do, once the process is spawned.
`Register` and `Unregister` stand for the IDE's breakpoint handler.

### JdwpDebug

`PellDebugProcess` and, external, the JVM view of the database session: `vstate`, `susp` (the
suspend count), `vline`, `prepared` classes, `evq` (JDI event sets).  The arming of
breakpoints is split where locks are released and flags are read (`CheckMaps`, `Defer`,
`AddPending`, `CheckLatch`, `ClaimFilter`, `EnableFilter`, `ScanClasses`, `ArmFromTask`), the
start-up where it races with them (`MapsBuilt`, `TakeDeferred`, `AddDeferred`, `Accept`,
`OpenLatch`, `WatchPending`, `EngineScan`, `EngineArm`, `SendGo`), the event loop per event of a
set (`TakeSet`, `OnPrepare`, `OnBreakpoint`, `OnStepAgain`, `OnStepDone`, `OnDeath`, `EndSet`).
Calls to the VM may fail where the code catches it or gives up: a class may refuse a breakpoint, reading the loaded
classes may raise (`refused`: what was tried last and not armed), and the request of a claimed filter may fail
(`unfiltered`), so that a class is loaded unnoticed (`missed`, until the classes are read again).  `resumed` and
`released` say which event sets have been resumed before the loop was done with them - the one in hand, and queued ones
that the second resume of another has let go; `early` is that of the set last shown to the user.

### Lowering

Two layers.  The emitter, as functions from a pell function (`Def`, `Block`: statements with an operation and
an argument) to PL/SQL statements: `EmitReturn`, `EmitTransaction`, `EmitFn` put SAVEPOINT, COMMIT, the
`l_committed` flags and the calls of `pell_finally_body` where `_emit_return`, `_emit_transaction` and
`_fn_body` put them.  And the machine that runs them: `stack` holds the PL/SQL blocks being executed, `mode`
says whether control runs, raises or returns, the handlers the emitter writes are actions
(`TransactionHandler`, `RetryHandler`, `FinallyHandler`/`Reraise`, `AutonomousHandler`), and Oracle's part
- savepoints, COMMIT, autonomous transactions, propagation - is external.  Rows are names; a failing
statement raises a transient error or a panic.  `left` is history: the block left last, how, with which error,
what its session held when it was entered (`work`, `committed`) and what it held when it was left (`remains`,
`durable`); a frame remembers how deep in autonomous transactions it was entered (`level`), and a committed row
which transaction it came from, so that what an autonomous function commits is not taken for its caller's.  `Reached`, the blocks
a block runs in its own transaction, grows them as often as there are blocks, so that no recursion is needed.  Loops, `break` and match statements are not modelled: a block
is straight-line code with ifs, calls and nested blocks.

`TransactionIsAtomic`, `AttemptsStartFresh` and `AutonomousIsAtomic` are stated for the functions that can
have them: `Plain` (no transaction block inside, no value computed after the COMMIT of a return), `Nests` (a
retried callee) and `Closing` (autonomous, without finally, without a return in reach, calling no other
autonomous function: a nested one commits rows of its own) are computed from the program text.  `lowering_nested` and section 5 show what
happens outside those conditions.

### ReplSession

One action per thing the user can type that changes something.  A cell is definitions and statements;
`_run_cell` has three outcomes: it stops before the database (`CellStops`), its block ends (`CellRuns`), or it
raises (`CellRaises`) - `Prepare` is what the last two have done by then.

| variable | code |
|---|---|
| `items`, `snap`, `vtype`, `vrec` | `items`, `var_snapshots`, `var_types`, `_var_record_names` |
| `conn`, `buffer`, `pending`, `committed` | the connection, its unread DBMS_OUTPUT lines, its open rows, the rows committed |
| `now`, `printed` | inputs so far, what the last one printed |
| `last`, `lets`, `fieldtypes`, `stale` | history: how the last input ended and the variables at the end of its block; the types each variable was declared with, and each field of a record defined with; whether `\reset` left capture lines in the buffer |

A variable's value is a function of its fields, so that scalars and records are captured and replayed alike:
`CaptureKeys` are the sentinel lines `_inject_capture_lines` writes, `ParseSnapshot` is `_parse_snapshot`,
`Replays` the lets `_snapshot_to_stmts` rebuilds.  Conversions are kept where they matter: a type that is not
annotated comes back as VARCHAR2, a text is no NUMBER literal, NULL is no value, and a value over 32767
characters makes the capture raise.  Fields are typed too (`FieldType`): a field's value is kept with the type it had
when it was captured, and a record defined anew is replayed with the old values, which its fields may not take
(`ReplayConverts`).  Fields are scalars: a record with a list or a record in it makes the capture not compile, so
that such a variable is never kept.  A cell commits where it has a transaction block (`emitter.py:5353`), and
`\exec` where the user's PL/SQL does; whether a raise after a COMMIT undoes what is open then depends on the savepoints
there are, and is left open (`Undone`).  Whether a block compiles, how far it gets and what it prints is the
database's, and external (`Compiles`, `Converts`: a NUMBER takes no text); a block that raises may do so after any
statement or at a capture.  `_parse_snapshot` runs once per line; `ParseSnapshot` states the outcome for all lines of an
output, where the last line with a key counts.  `printed` keeps the places its lines had in the output.

### Deploy

`cmd_deploy` as a program counter (`build`, `runtime`, `connect`, `install`, `body`) over `rest`, the files left,
in the order of their paths (which is taken to be that of the file names), run for the whole project, a directory
or one file (`Targets`), with and without `--keep-going`.  A file is deployed as of the project that its own
directory is (`scope`, `Directory`): that is what the shared package is made from (`RuntimeScope`).  The database is a spec and a body per package; CREATE OR REPLACE stores a text whether it compiles or not
(`InstallSpec`, `InstallBody`), and a warning or an exception ends the file (`FileFails`).  A text is what other
packages and the database can tell of it: the names it offers and the names its spec and its body need.  The
author edits sources at any time (`Edit`), statements and connections fail, and the process may be killed.
The hand-written runtime packages, grants and `--build-only` are left out.

### FrontEnd

`parser.py` is a hand-written recursive descent without backtracking.  `Grammar` is its vocabulary (`_expect`,
`_accept`, `_peek`, the comma loops and the branches on the next token) as data, with `Run` the interpreter;
`Parser` has one definition per `_parse_` method in that vocabulary, so that a definition reads like its method
and no longer.  The two drivers are actions: `ParseHeader`, `ParseItem`, `ParseStmt` and `Finish` are the steps
of `parse` and `parse_cell`, and a ParseError ends the reading.  `Ast` lists the node types with their fields.

`Deps` is `deps.py`: the two walkers of items, statements and expressions differ in the fields they go into,
so a walker is a table of field numbers, read off its `isinstance` chain.  `SourceText` is not code: it is the
reference, the text a programmer writes for a tree.  `MCFrontEnd` builds trees, writes them with `SourceText`
and compares what `Parser` reads (`RoundTrip`), which tokens of it are still in the tree (`NothingLost`) and what
`Deps` finds in it (`ManifestComplete`).  The conditions of these properties (`EndsInName`, `ForgottenAt`,
`Unwalked`, `UnwalkedSql`) name exactly the constructs where the code falls short; section 5 lists them.
`ForgottenAt` has four places, one of them the earlier of two category annotations of an error.  What `RoundTrip` leaves out,
an empty block after a header that ends in a name, is what `EmptyBlocksRead` claims and the run `empty_blocks` refutes.

### Scanning

A text is a sequence of symbols: one character or one word each.  `Lexer` is `tokenize`, rule by rule in its
order, `SemanticTokens` the highlighter with its own rules and the delta encoding, `SqlText` the two extractions
that look into the SQL of a `sql!{}` block, each with its own way of stripping comments and literals.  The
action `Type` adds a symbol at the caret in the middle of a file, and lexer and highlighter read the new text
(`scanned`).  `Sly`, `Unmirrored` (seven differences), `QuotedAcrossLines` and `PlainSql` name the constructs that the
scanners are known to read differently; everywhere else they have to agree.  A table name has its schema and its
database link.  `MCSources` runs `FrontEnd` and `Scanning` in one specification, one text at a time for the
compiler or for the editor.

### LanguageServer

| variable | code |
|---|---|
| `disk`, `editor` | the files, and the texts of the editor's windows |
| `inbox` | notifications and requests on their way, in order |
| `docs` | `server.workspace`, the documents as the server knows them |
| `cache`, `ctx` | `_cache`, `_project_ctx` |
| `published` | the diagnostics last published per document |
| `foreign`, `events` | history: a file was changed by another program since the registries were dropped last; what was done so far |

`Serve` takes the first message and dispatches (`on_open`, `on_change`, `on_save`, `on_close`, `on_request`);
the server is single-threaded, so a handler is one step, with everything it calls: a validation parses, fills the cache,
scans the root if it has no registries, and publishes.  The user opens, edits, saves, closes and asks; other
programs change files (`ChangeOutside`).

`Project` is what compiler and server share: the registries (`scan_project_*`, with the registrations under the last name
and under the mangled name, first or last file wins as in the code), the checks of imports, records and access
domains (calls in the namespaces of the intrinsics, `emitter.py:912-918`, are exempt), and the ACCESSIBLE BY clause
that is emitted.  A text is a sequence of lines of ten kinds - what these
scans and checks look at.  `Assist` answers requests about a line: definition, references, completion after
a qualifier, quick fixes.  A function line has the kind of its return type, because `missing_return` writes a zero of it,
and for some types none that parses (`zero_value_parses`).

These models were also compared with the real code: every source of `MCFrontEnd` was
printed and parsed by `parser.py` and walked by `deps.py`, every text of `MCScanning` tokenized and highlighted, and
projects of `language_server` (two hundred of them) written to disk, scanned and emitted, with no difference.

## 4. Runs

| run | question | bounds |
|---|---|---|
| `serve` | Whatever lines come in and whatever calls fail: no drain of a session that is still in debug mode, locals read where the target is, breakpoints before code, a report that is true and never passes over a block that raised unless the wait for it ran out, nothing after `terminated`, a target that only moves on command, and `DebugProtocol` implemented | two lines with a loop, three lines of input out of seven kinds, two faults |
| `serve_live` | Is every line answered, and does end of file end the process, unless the stop it queues fails itself? | as above, with what `serve` leaves out: an unknown command and a breakpoint outside the unit; one fault |
| `sql_session` | The two processes composed: paused is paused, all breakpoints sent, steps surface, stop ends the server | three lines of which the first two are one pell line, the second looping; one breakpoint, one locals request, one resume or step, one hop |
| `jdwp_arming` | Two breakpoints of one package against start-up and class loading: none left pending but those refused or missed, none resurrected | requests, scans and attempts to arm may fail at any time; no user steps |
| `jdwp_stepping` | Paused is suspended unless the very set shown had been resumed when it surfaced; no silent suspension | one breakpoint, two user actions, one hop |
| `lowering` | Does the emitted PL/SQL keep transaction blocks all or nothing, start every attempt of `@retry` fresh, run finally blocks without hiding the error and close autonomous transactions? | thirteen functions combining the constructs, three failing statements anywhere, both branches of every `if` |
| `lowering_nested` | *violated*: any propagated error rolls a transaction block back | a transaction block in another |
| `repl` | After a cell ends well, is what is kept what the variables are?  Does output reach the screen, can the session get stuck outside five named cases? | four inputs out of sixteen cells and six commands |
| `source` | Is what was written what is read, is nothing accepted and then dropped, does the manifest name all that is used?  Do lexer and highlighter see the same words in the same places, does the editor decode what was found, are binds, kind and tables of embedded SQL the ones shown? | 11341 sources: every construct in every place of every other, plus one token deleted, doubled, exchanged or replaced; nineteen files with a gap, three or four symbols typed into it |
| `empty_blocks` | *violated*: a brace after the header of a statement opens its block | the statements with an empty block whose header ends in a name |
| `language_server` | Are the caches those of the present texts and files, is a save judged by the disk, do definitions and references lead back and forth, do fixes help, is the gate the clause that is installed? | two roots, six files with up to twelve texts, two messages under way, three events |
| `deploy` | Is the database left alone after a failed build, does 0 mean installed and working, what can redeploying break, does `--keep-going` converge? | four modules (one uses a later one, one is in a directory of its own, one is a stub), two versions each, two edits, one fault |

Bounds, and why they are enough.  `MaxCmds` bounds lines of input: three are enough for a
breakpoint, a run and a command at the suspension, or for a command queued behind two others.
`MaxFaults` = 2 has a call fail and the call made to recover fail too; `serve_live` has one, enough to lose the stop.  `MaxHops` stands for
the 256 of the code: the limit is reached with one hop as with 256, because the loop on the
second line never leaves its pell line.  `MaxActions` bounds what the user does while paused; one
step already overlaps with hops, breakpoints and stop, two let a resume follow a step.  The
blocks have a loop and an exit, a line without breakpoint, and lines sharing a pell line: what
the code tells apart.  The instances are small enough for no symmetry to be needed.
`MaxInputs` = 4: a redeclaration corrupts a snapshot in three inputs (declare, redeclare, anything that ends
well) and the fourth meets it; five inputs show nothing more.  `deploy`: `c` is in a directory of its own and raises an error, as `b` does outside; version 2 of `b` needs a type of `c`,
which comes after it, and drops what version 1 of `a` calls; version 2 of `c` does not parse.  The number of
runs is unbounded; two edits let sources change and change back.
`source`, compiler: a parse method sees its own tokens and what its sub-phrases return, so each construct once in each
place of each other reaches every pair of methods; the damaged sources reach every error exit, and nothing
in the code depends on depth.
`source`, editor: the scanners look at most three symbols ahead and keep one or two open
brackets, so a file holds a pair of features they can confuse (a quote in a comment, a brace in a string, a
regex after a value) and the typed symbols open, close or split them.  `language_server`: registries go
stale with two files and three events (open one, change or edit the other, save); two messages under way let a request be
answered after the text it was asked about has changed; the second root shows that registries do not leak.  `TopLines` = 5
stands for the first 20 lines of a text: a banner pushes the header below them as well.

Fairness.  `serve_live`: the loop, the reader and the target thread are threads of a running
process (weak fairness); the block is infinitely often able to leave `running`, so it pauses, ends or
raises in the end (strong fairness), without which the documented 3600 s timeout would be the only way
out; the IDE has no obligation.  `EofEndsProcess` excepts `StopLost`: the handler of `stop` raised before it finished, and
nobody will send another.  `sql_session` adds the engine thread and the pool, and asks less of user
code: a step or an abort comes back, code running free need not - `StopEndsServe` is about code that
never does, and a queued breakpoint must be sent while it runs.  `jdwp_stepping`: the engine thread
only - not the VM, not the user.
`deploy`: a started run goes on (weak fairness of `Step`; faults and kills are bounded by `MaxFaults`), and the
user deploys the whole project with `--keep-going` over and over (strong fairness, because other deploys
compete for the prompt).  `Converges` is conditional on that, on sources that stay consistent and on the
other deploys leaving no errors of the project out for ever.

`CHECK_DEADLOCK FALSE`: a debug session ends and then nothing happens any more; and in `serve`, a
failing `delete_all_breakpoints` makes the loop consume the only stop there will be and wait for a
command for ever, which is what the code does (see the hazards).  A REPL session is bounded by `MaxInputs`,
a parse ends, typing stops when the gap is full, and the editor does `MaxEvents` things.  These runs, and `lowering`,
check no liveness: their steps never wait for anything.
`deploy` does check deadlock: its prompt always comes back.

## 5. Findings

* `empty_blocks`: `if x { }`, and `for` and `match` alike, is rejected: wherever an expression ends in a name,
  `_looks_like_struct_lit` (`parser.py:1168`) takes `{ }` for an empty struct literal.  `src/design.md:3134` says that "in
  statement position after `if`/`for`/`while`/etc., it's a block", and the docstring (`parser.py:1162`) that it "avoids mis-parsing" these.
* `lowering_nested`: a nested transaction block emits COMMIT like an outer one: it commits the outer
  block's rows and erases its savepoint, so a later error of the outer block rolls nothing back and comes
  out as ORA-01086.

Also seen while modelling, without a run of their own.

*Debuggers.*  One `localsFuture` field serves all requests for locals (`PellSqlDebugProcess.kt:350`): a second request
overwrites it and the reply to the first completes it, though the comment at line 66 says that locals replies land in
the future of their request; a step that steps again resumes its event set in the handler and again at the end of the set
(`PellDebugProcess.kt:537` and `:550`), and the second resume can release the next event's suspension
so that what is shown as paused runs on - `PausedUnlessEarly` has the condition; `++bpCounter` is neither
atomic nor locked; `mapsReady` is read outside the lock of the deferred list, so a breakpoint can be deferred after
the list was drained, for good; a breakpoint's registration and its removal are separate tasks, and a removal
that runs first removes nothing; the ClassPrepare request of a filter that failed is not made again, because its filter is
claimed (`PellDebugProcess.kt:389-400`), so a class loaded later is not noticed; a line that is JSON but no object, or
a start-up query that raises, ends the server without `terminated`; a block that raises after the wait of 15 s
is reported as ended without an error; `finish(None)` detaches with breakpoints still set
when the block ends by itself; `unregisterBreakpoint` removes nothing, so a removed breakpoint is still
reported, against its comment; the block can outrun a breakpoint whose
`addBreakpoint` task is still on the pool when `run` (SQL) or `go` (JDWP) is sent; any non-zero status of
a continue, the probe timeout included, ends the session although the target may be running; a stop
before the server is spawned leaves the spawned process alone.

*Lowering.*  COMMIT stands after the body, so `return` in an autonomous function leaves before it
(`emitter.py:1942`, against the comment at 1933) and one with a finally block gets no COMMIT at all: ORA-06519 -
`AutonomousIsAtomic` has the condition.  All retried functions use the savepoint name `pell_attempt`: a retried callee moves the savepoint
its caller goes back to, and the caller's next attempt starts with rows of the last; `return g()` inside a
transaction block commits before `g` runs; a finally block that fails at a return is run twice; `@skip` errors
are retried like others, since the emitted handler knows only `pell_is_panic`.

*REPL.*  Redeclaring a variable with another type always fails (the replayed let declares it too), but its
type has been noted, and the next cell that ends well stores the old value under the new type - which can make
every later cell fail; so does a record defined anew with another type for a field a kept variable has a value in; running a cell with an unannotated numeric let twice fails, since its snapshot comes
back as text; a cell left by `return` is not captured; the lines of a block that raised, capture lines
included, are read by the next block that does not; a definition is kept although nothing compiles with it; a
record from another package without annotation is captured and never replayed, and wedges the session.  `\reset`
forgets types and not the lines a block that raised left in the buffer (`repl.py:973`): the next cell that ends well stores
the values under no type, and every later cell fails to compile - the way out is `\reset` once more.  A transaction block commits, in whatever cell it is, and with it what earlier cells left open, though the tutorial
has the user commit (docs/tutorial/16-repl-deep-dive.md:441).  The
table of types that survive (docs/tutorial/16-repl-deep-dive.md) says records do not; the code keeps them.

*Deploy.*  `cmd_runtime` leaves out modules that do not parse and its return code is ignored, so deploying one
file can drop another module's errors from the shared package.  So does deploying a file of a subdirectory, or
the subdirectory: cli.py:363 promises the aggregate of "the whole PROJECT directory, even when deploying a single
file", cli.py:366 takes the file's parent.  `RedeployIsSafe` excepts the modules that lie outside (`Exposed`) and
holds no longer without that: TLC finds the module that breaks.  `Converges` asks that no such run goes on for
ever (`Whole`).  Two modules of one stem in different
directories overwrite each other's file; without `--keep-going` a module that uses a later one is never
deployed, however often one tries; a spec replaced by a later file invalidates earlier packages and the run
still returns 0.

*Front end.*  A block that begins with a name and a colon, after a header that ends in a name, reads as a struct literal,
as an empty one does.  Accepted and dropped: the first of two category annotations of an error (`parser.py:330-339`), the type of a merge parameter, the first value of a repeated keyword argument, the outer result of an
aggregate when `finish` declares one; `unsafe` before anything that is no function.  A call with type arguments takes no keyword
arguments.  "Walk every AST node" (`deps.py:82`) is not what the walkers do: the SQL walker skips conditions of
`if` and assignment targets, both skip keyword arguments, tuples, defaults and the arguments of annotations.  An
enum of the module with a package's name takes the package out of the manifest; `app.lex` and `app_lex`
mangle alike.

*Scanners.*  The highlighter's keywords "mirror" the lexer's (`semantic_tokens.py:62`) without `null`; it does not know
raw strings, regex literals, a newline between `sql!` and `{`, digits after `@`, or an `@` right before a block.  The lexer takes `/` after
`?` or `None` for a regex, finds the end of a jq block by braces alone, and inside a macro block skips no block comments
and reads `\` as an escape in SQL literals.  Bind extraction does not skip `/* :x */`, and a block comment in
front hides what kind of statement follows; table extraction strips block comments before strings and knows
no double quotes, and misses the table of `from/*c*/x`.  A double-quoted identifier across a newline is one
span over two lines.

*Language server.*  Stale: a file changed outside never invalidates the registries; the other open documents are not
validated again after a save; the scan of the REPL skips other directories than the emitter's.  Dead ends:
a record of a dotted module used by its bare name never resolves, because it is registered twice (`emitter.py:489`
promises it when one module exposes the name); go-to-definition of a bare name, and usages asked at the declaration, in
a dotted module find nothing; an item of the file hides the qualified name of another module; `a::b::f` is
recorded as a use of `(a, b)`.  Access: the gate checks `a::b::f` under `a_b` and the lowering calls `a.b`; a type
`lex::Tok` is lowered to the package `lex`, which does not exist; when a domain gets a new member, packages built
before keep their clause.  Fixes that break the file: an import put after a module line with a trailing comment,
a missing return put into a one-line function, or into one that returns bytes, a `Result` or another
generic, a qualified or a union type (`return Result<T, E> { };`, `return  { };`, `server.py:349-359`), a struct that was qualified, a record for a module whose header is below line 20.
Completion after `pkg::` takes its functions from the scan of the REPL, which looks at the directories above the project too:
below a directory called `out` it offers none.  Names that collide across
domains: the first module of the walk wins, but the last definition.

## 6. Proofs

`DebugServe_proofs` proves, for every block, every set of inputs and every bound (from
`LinesAssumption`, `FlowAssumption`, `ExitsAssumption`, `InputsAssumption`, `BoundsAssumption`):

* `TypeCorrect`: `TypeOK` is inductive.
* `DrainSafe`: `DrainsIdleTarget`.  Not inductive: it needs to know that a session whose thread
  returned with no error is one whose block completed.  `EndInv` adds `Finality` (the thread returns
  only from a session that is over or detached, `target_done` only after it returned, an error exactly
  if the block raised) and `DrainInv` (the drain is entered only for a target done without error, and past the wait the target is done or the wait was in vain).
* `ReportTrue`: `ReportIsTrue`, from `EndInv` and `ReportInv`: output is of a block that ended well, an error of one that
  raised, and a report with no error is of a target known to be done and well, unless the wait for it ran out (`out = "late"`).
  Each is so when the report is emitted (`Truth`), and stays so.
* `Obedience`: `TargetObeys`, from `MoveInv`: without a timed-out continue the target runs only while
  the loop is in `cont`, or under the abort flag.
* `LocalsCurrent`: `LocalsAreCurrent`, from `LocalsInv`: between commands a target reported suspended
  is suspended at `last`.
* `TerminatedLast`: `TerminatedIsLast`, from `OverInv`: once `terminated` is in the log the loop is past
  its command loop and every loop action that emits is disabled.
* `BreakpointsFirst`: `BreakpointsBeforeCode`.  A command written before the first run or step is, at any moment,
  unread, queued, in hand or carried out, and the order of the three queues is the order of writing; the
  target is at `interpreter_starting` until a command moves it.

`DebugRefinement_proofs` proves, from the same assumptions, `ProtocolImplemented`: `DebugServe` implements `DebugProtocol`.  Every
step is a step of the protocol or leaves it alone: reading a line moves it from the pipe to the queue (`ReadImplements`),
a malformed one turns noise into an error event (`ReadBadImplements`), a line that is no object ends the protocol where its
turn comes (`Choke`), a command that ends is the answer to
the request that has waited longest (`AnswerImplements`), and what finish() does is seen by nobody until `terminated`.  It
needs `ReaderInv` (the reader has read no more than was written and queues the stop of end of file after all of it)
and `HandInv` (there is a command in hand exactly while one is being carried out).  What is unread is
the well-formed lines in their order; that is said by counting (the k-th is the one with k of them up to it, `Rank`)
and not by recursion, so that `RankIs` - the ranks of a finite set of places are 1 to its size, each once - and
`InOrderAppends`, `InOrderStarts` can be proved.

`SqlDebugSession_proofs` proves for the two processes together (the assumptions of `DebugServe`, and
`BpsAssumption`, `PellLineAssumption`, `SessionBoundsAssumption`):

* `PausedIsPausedHolds`: `PausedIsPaused`.  A pause is shown because of an event read, which was written because of a
  command, which a step, a resume or the start sent: nothing in the property's state says whether there is a second
  command on its way.  `TurnInv` counts, while nobody stopped and no call failed: at most one command that moves
  the target is unread, queued or in hand (`OneGo`), at most one report of it is unread, both only
  while the IDE shows a running program, and the target waits where that report says (`OneReport`).  A command that the process does not live to
  take is one less on its way (`PipeSkip`).  `ServeProcess` steps are taken over from `DebugServe` one by one.

`JdwpDebug_proofs` proves for every set of breakpoints and units, every flow of events and any number of hops and user
actions (from `CodeAssumption`, `BpsAssumption`, `BoundsAssumption`):

* `TypeCorrect`: `TypeOK` is inductive.
* `RemovalSticksHolds`: `RemovalSticks`, from `RemovalInv`: nothing is armed before there is a VM, and a breakpoint that was
  through when it was removed is in no list, in no task's hand and not armed (`Gone`).
* `NothingLeftPendingHolds`: `NothingLeftPending`, from `PendingInv`: for a pending breakpoint there is always somebody who will
  look at it - a claimed filter, a task on its way to one, or the engine before its scan (`WillBeWatched`); a claimed filter is
  enabled, about to be, or its request has failed (`Filters`); and once the unit is prepared there is an event on its
  way, a task about to arm or the engine's own scan (`WillBeArmed`), unless the breakpoint was refused or the unit
  missed.  This is the argument the code's comments make in prose, with the failures they do not mention.
* `PausedUnlessEarlyHolds`: `PausedUnlessEarly`, from `PauseInv`: until somebody stops, the suspension has at most one
  holder (`OneHolder`): the last set of the queue unless it was released, the set in hand unless it was resumed, or the display
  unless what it shows is `early`.  Sets resumed before that do not matter.

`Lowering_proofs` proves, for every program - any functions, any blocks - and any number of failures (from `DefAssumption`,
`MainsAssumption`, `BlockAssumption`, `RejectedAssumption`), first what the emitter makes of a block (`Flattens`, `Segmented`:
where each statement of the pell block is in the PL/SQL), then what the machine does with it:

* `TypeCorrect`: `TypeOK`.  Types alone are not inductive.  `Shape` says how the stack is built (a transaction or an if stands
  on its function, a function on its call, one transaction per autonomous function), `CodeOK` that a frame's code
  is the emitter's, `TxOK` that savepoints are prefixes of the work, ordered, and each name is set once.
* `FinallyRunsHolds`: `FinallyRuns`, from `FinallyInv`: control that is past the emitted call of the finally block has run it
  (`RanInv`), a return under way has (`ReturnInv`), and a frame with a finally block is in the phase its counter says
  (`PhaseInv`).  The middle one is about inner blocks: a return leaves the function from a place of its own, through
  the handlers of every transaction block around it.
* `AutonomousIsAtomicHolds`: `AutonomousIsAtomic`, from `ClosingInv`: while such a function is running its transaction has
  committed nothing, until its own COMMIT, after which it does no work.  `RegionInv` says that what runs above it are blocks of
  `Reached` and callees of those, for which `ReachedClosed` is needed: growing a set of blocks as often as there are
  blocks ends in a fixed point.  This is a counting argument over finite sets, not an induction over programs.
* `AttemptsStartFreshHolds`: `AttemptsStartFresh`, from `AttemptInv`: while an attempt is running, the savepoint `pell_attempt` of
  its transaction is its own and is set at the work of its caller, which is a prefix of the work there is.
* `TransactionIsAtomicHolds`: `TransactionIsAtomic`, from `AtomicAll`, five invariants on top of `TypeOK`.  In the code, a block
  commits only right before a flag, the cleanup or its end (`TidyAt`).  `ArmsInv`: past such a COMMIT nothing but the finally
  block runs above a block, and it and its ifs are of one body; `CleanupInv`: what runs above a finally block is what
  it reaches; `EndInv`: a transaction block does not go on after a return or an error of its own.  So once it has committed,
  what is uncommitted is of the finally block (`RowsInv`).  Until then, `HoldInv`: nothing is committed in its transaction, its
  savepoint is set at the work it found, and functions that retry inside have set theirs after it, so that going
  back to those leaves it alone (`Held`); when its handler is done the work is what it found (`UndoneIs`).

`ReplSession_proofs` proves, for every set of cells, variables and records and any number of inputs (from
`NamesAssumption`: names are finite and a record is no other type's; `CellsAssumption`: a cell is a sequence of statements over
these names):

* `SessionSound`: `DbOK`, that rows open and rows committed stay apart.  It needs `RowsAre`: the rows of an input are named by it,
  and by the statement that makes them.
* `OutputReachesHolds`: `OutputReaches`, from `Shape`: lines are sequences and their keys are of variables or plain.
  `OutputIs` says what stands where in the output of a block: what waited, what was printed, what was captured.
* `CapturedAfterSuccessHolds`: `CapturedAfterSuccess`.  `EnvCaptured` (a variable of the block that compiles is captured) and
  `ReportCounts`: the report stands last and has one line for each key, so it overrules what a block that
  raised had left in the buffer.
* `UsableUnlessRetypedHolds`: `UsableUnlessRetyped`.  `Noting`: the types the session noted of a variable are among
  those it was declared with, and those of a record's fields among those they were defined with (`FieldsNoted`).
  `Keeping`: everything kept or waiting in the buffer is of a variable declared with a fitting
  type (`TypedAs`), and is a number where the variable, or the field, never was anything else (`OnlyNumbers`, `Fits`) - unless a reset left lines behind, which is
  how the case `stale` of the property was found: `Keeping` without it is not inductive, and the session TLC
  then showed is one the code really has.  `CapturedLineOK` is the step: what a block that compiles and converts puts out
  fits.  Where every variable and every field has one type (`OneType`, `OneFieldType`), what is kept can be declared,
  assigned (`NumberIs`, `FieldNumberIs`) and captured again, and stays within these bounds (`KeyStays`, `KeptStays`).

`Deploy_proofs` proves, for every project, every order of its modules and any number of edits and faults
(from `OrderAssumption`, `DirectoryAssumption`, `VersionAssumption`, `NamesAssumption`, `NeedsAssumption`):

* `InstallsBuilt`: `BuildsFirst`.  `BuildInv` says that while nothing has failed every module asked for is
  left to build, built or a stub, and that past the build all are built or stubs.
* `ZeroIsTrue`: `ZeroWorks`.  The inductive invariant `InstallInv` is about the middle of a run: every module of
  the run that is no longer in `rest` ranks before all that are, and without a failure each of them is
  installed as built and works, unless it uses a later one.  The step that could break it is the spec of the
  next file: `SpecReplaced` shows that what an earlier module needs is not touched by it, from `AfterFromRank`,
  and that needs `FirstIsFirst`, the choice of the least rank by well-founded induction over Nat.
  `HoldsStays`, `QuietStep` and `FailingFile` treat the steps that change no spec.
* `RedeploySafe`: `RedeployIsSafe`, for projects whose modules declare the errors they raise (`DeclaresItsErrors`; the shared
  package offers what the modules declare, and only that).  While sources do not change and everything works, a file
  that is installed again replaces a text by itself.  The shared package is replaced only if something deployed
  raises an error, and by one that offers what the modules in the directory need of it (`RuntimeOffers`); what is
  deployed lies in that directory (`TargetsFit`), so only modules outside it are exposed.

`LanguageServer_proofs` proves, for every project, any set of texts and any number of messages and events (from
`ProjectAssumption`):

* `CachesCurrent`: `CachesAreCurrent`.  The invariant is `Shape`, the types of the variables, with the property's two
  halves: the cache of an open document is the parse of its text, and registries are the scan of the disk
  unless somebody else changed it since or a save is on its way.  `ServeKeepsCaches` and `ServeKeepsRegistries` take the handlers one by one,
  `SaveKeepsRegistries` is the delicate one: the editor writes the file when it saves, and the server
  drops the registries only when the message arrives, so until then they are allowed to lag.
* `SavesAreJudgedFresh`: `SaveIsJudgedFresh`, an action property, from the same invariant.
* `GateIsTheClause`: `GateMatchesClause`: the gate lets a file call a package exactly if the clause of the package as
  it would be installed now names the caller's.  It needs that a script is no module (`ScriptIsNoModule`), that a domain
  of one package has no clause (`LonePackage`), and finiteness of what was found (`FiniteImage`, `FiniteModules`).
* `NavigationCloses`: `NavigationClosesTheLoop`, of every project on disk (also from `TextsAssumption` and `MangledAssumption`).
  `DefinitionsAre` says which keys the registry of definitions has and that what it says of one is the place of an export with
  that key; that needs `LastOfIs`, that "what is written last stays" names a site.  `NamesAre`: a module is known by one name
  only if its path is that name, which is why a dotted module loses its references (`OneOwner`).  The proof found
  that completion offers only what the scan of signatures reaches: functions of a project below a directory
  called `out` or `built` are found by everything but completion, and the property now says so (`Offered`).
* `FixesHelpHolds`: `FixesHelp`.  A text with a line more parses as before if the line is a statement or goes where no body is
  open (`InsertionParses`, from `FitsInside`, `ClosedMoves`), and `RecordLine`, `HeaderIs` and the body of the function show
  that each fix puts its line in such a place, and a missing return where a zero of the type can be written.  The proof asked where the line with the complaint is afterwards: an
  import may stand below it, and then a record goes below it too (`line_after`).

Only model-checked: liveness (`serve_live`, `sql_session`, `jdwp_stepping`, `Converges`), which needs fairness and ENABLED;
and everything in `source` (`FrontEnd` and `Scanning`): a parser and scanners are
recursive operators, which the prover does not take.

## 7. Not modelled

Formatting, console output, variables' values, the discovery of locals by regular expressions, error texts and
locations, Oracle itself beyond what the code relies on.  By part:

* `jq.py`: compiles a path expression into SQL/JSON text; what that text means is Oracle's.  The parser
  takes it as accepted or not.
* `debug_query.py`, `srcmap.py`, `PellSrcMap.kt`: the line maps, planned.
* `pell_re.sql`: planned.  The other runtime packages are straight-line PL/SQL over the data dictionary.
* The rest of the emitter: expressions, SQL binding, iteration, match, types and aggregates.  `Lowering` has the
  control flow of straight-line bodies, `Project` the registries and checks.
* `cli.py` and `driver.py` beyond deploy: sql, migrate, exec and test run one thing after another.
* The plugin's preview, symbol index and tool window: planned.  Its editing support, run configurations and
  settings are single-threaded transformations or forms without state.
* Of the language server, requests that only read and look nothing up in the registries: hover, outline, the fixed completion
  lists.
