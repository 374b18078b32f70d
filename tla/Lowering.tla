---- MODULE Lowering ----
(***************************************************************************)
(* What the emitter makes of `transaction`, `finally`, `@retry` and        *)
(* `@autonomous`, run on a database session.  A pell function is a block   *)
(* of statements; Emit gives the PL/SQL statements of one, and the machine *)
(* executes them one at a time over a stack of PL/SQL blocks with their    *)
(* exception handlers.  Savepoints, COMMIT and autonomous transactions are *)
(* Oracle's: a savepoint name set again moves, a COMMIT erases them all.   *)
(***************************************************************************)
EXTENDS Naturals, Sequences, FiniteSets, SequencesExt, FiniteSetsExt

CONSTANTS
  Fns,        \* functions of the module
  Def,        \* [Fns -> record of a function: body, finally, retry, autonomous]
  Block,      \* [block ids -> statements, records of op and arg]
  Mains,      \* functions called from outside
  MaxFails    \* bound: statements of SQL that fail

NoBlock == "no block"
NoArg == "nothing"

ASSUME DefAssumption ==
  Def \in [Fns -> [body : DOMAIN Block, finally : DOMAIN Block \cup {NoBlock},
                   retry : Nat, autonomous : BOOLEAN]]
ASSUME MainsAssumption == Mains \subseteq Fns
Stmts == UNION {ToSet(Block[b]) : b \in DOMAIN Block}
ASSUME BlockAssumption ==
  /\ IsFiniteSet(DOMAIN Block)
  /\ \A b \in DOMAIN Block : Block[b] \in Seq(Stmts)
  /\ \A s \in Stmts :
       /\ s.op \in {"dml", "call", "if", "transaction", "return", "err"}
       /\ s.op = "call" => s.arg \in Fns
       /\ s.op \in {"if", "transaction"} => s.arg \in DOMAIN Block
       /\ s.op = "return" => s.arg \in Fns \cup {NoArg}

\* What the compiler rejects: @retry with finally or @autonomous.
ASSUME RejectedAssumption ==
  \A f \in Fns : Def[f].retry > 0 => Def[f].finally = NoBlock /\ ~Def[f].autonomous

----
(* The emitter: PL/SQL statements are records of op and arg. *)

I(op, arg) == [op |-> op, arg |-> arg]

\* The COMMITs of a return, with the flags of the blocks around it.
CommitAll(depth) == FlattenSeq([k \in 1..depth |-> <<I("commit", NoArg), I("flag", k)>>])

ReturnValue(s) == (IF s.arg = NoArg THEN <<>> ELSE <<I("call", s.arg)>>) \o <<I("return", NoArg)>>

RunFinally(f) == IF Def[f].finally = NoBlock THEN <<>> ELSE <<I("finally", NoArg)>>

\* Mutant: a return does not run the finally block.
ReturnSkipsFinally(s, depth, f) == CommitAll(depth) \o ReturnValue(s)

\* Mutant: a return leaves the transaction blocks uncommitted.
ReturnSkipsCommit(s, depth, f) == RunFinally(f) \o ReturnValue(s)

\* return: the enclosing transaction blocks are committed, the finally block is
\* run, and only then the value is computed.
EmitReturn(s, depth, f) == CommitAll(depth) \o RunFinally(f) \o ReturnValue(s)

EmitStmt(s, depth, f) ==
  IF s.op = "return" THEN EmitReturn(s, depth, f) ELSE <<s>>

EmitBody(b, depth, f) ==
  FlattenSeq([i \in 1..Len(Block[b]) |-> EmitStmt(Block[b][i], depth, f)])

\* isinstance(body[-1], ReturnStmt)
EndsInReturn(b) == Block[b] # <<>> /\ Last(Block[b]).op \in {"return", "err"}

\* The statements of a transaction block; `depth` counts it.
EmitTransaction(b, depth, f) ==
  <<I("savepoint", <<"pell_sp", depth>>)>>
    \o EmitBody(b, depth, f)
    \o (IF EndsInReturn(b) THEN <<>> ELSE <<I("commit", NoArg), I("flag", depth)>>)

\* Mutant: an autonomous function does not commit.
AutonomousUncommitted(f) ==
  (IF Def[f].retry > 0 THEN <<I("savepoint", <<"pell_attempt", 0>>)>> ELSE <<>>)
    \o EmitBody(Def[f].body, 0, f)

\* The statements under a function's BEGIN, its handlers apart.  With a finally
\* block an autonomous function gets no COMMIT.
EmitFn(f) ==
  (IF Def[f].retry > 0 THEN <<I("savepoint", <<"pell_attempt", 0>>)>> ELSE <<>>)
    \o EmitBody(Def[f].body, 0, f)
    \o (IF Def[f].autonomous /\ Def[f].finally = NoBlock THEN <<I("commit", NoArg)>> ELSE <<>>)

----
(* The session. *)

Errors == {"transient", "panic", "err", "ORA-01086", "ORA-06519"}
NoError == "none"
Before == "before"    \* work of the caller, uncommitted when the function is called

VARIABLES
  stack,      \* PL/SQL blocks being executed, innermost last
  mode,       \* "run", "raise" or "return": how control moves
  err,        \* the error being raised
  txs,        \* open transactions, the current one last: work and savepoints
  committed,  \* rows committed so far, with the depth of the transaction in txs
  left,       \* the block that was left last, and the session at that point
  fails       \* failed statements so far

vars == <<stack, mode, err, txs, committed, left, fails>>

Top == stack[Len(stack)]
Tx == txs[Len(txs)]
NewTx == [work |-> <<>>, saves |-> <<>>]

\* A block: `phase` is "body" while its handler applies; `level`, `work` and
\* `committed` are history: the transaction it runs in, and the state of the
\* session when it was entered.
Frame(kind, f, b, depth) ==
  [kind |-> kind, fn |-> f, blk |-> b, depth |-> depth, pc |-> 1, phase |-> "body",
   flag |-> FALSE, attempt |-> 0, cause |-> NoError, fins |-> 0,
   level |-> Len(txs), work |-> Tx.work, committed |-> committed]

NotLeft == [kind |-> "none"]

\* The PL/SQL statements of a block.
Code(fr) ==
  IF fr.phase = "after" THEN <<I("finally", NoArg)>>
  ELSE IF fr.kind = "fn" THEN EmitFn(fr.fn)
  ELSE IF fr.kind = "tx" THEN EmitTransaction(fr.blk, fr.depth, fr.fn)
  ELSE EmitBody(fr.blk, fr.depth, fr.fn)

Init ==
  /\ txs = <<[work |-> <<Before>>, saves |-> <<>>]>>
  /\ committed = <<>>
  /\ \E f \in Mains :
       /\ stack = <<[kind |-> "fn", fn |-> f, blk |-> Def[f].body, depth |-> 0, pc |-> 1,
                     phase |-> "body", flag |-> FALSE, attempt |-> 0, cause |-> NoError,
                     fins |-> 0, level |-> 1, work |-> <<Before>>, committed |-> <<>>]>>
       /\ ~Def[f].autonomous
  /\ mode = "run"
  /\ err = NoError
  /\ left = NotLeft
  /\ fails = 0

----
(* One PL/SQL statement. *)

SetTop(fr) == stack' = [stack EXCEPT ![Len(stack)] = fr]
SetTx(t) == txs' = [txs EXCEPT ![Len(txs)] = t]
Advanced == [Top EXCEPT !.pc = @ + 1]
Push(fr, callee) == stack' = Append([stack EXCEPT ![Len(stack)] = fr], callee)

At(op) ==
  /\ stack # <<>> /\ mode = "run" /\ Top.phase \in {"body", "after"}
  /\ Top.pc <= Len(Code(Top))
  /\ Code(Top)[Top.pc].op = op
Arg == Code(Top)[Top.pc].arg

Dml ==
  /\ At("dml")
  /\ SetTop(Advanced)
  /\ SetTx([Tx EXCEPT !.work = Append(@, Arg)])
  /\ UNCHANGED <<mode, err, committed, left, fails>>

DmlFails ==
  /\ At("dml")
  /\ fails < MaxFails
  /\ fails' = fails + 1
  /\ mode' = "raise"
  /\ err' \in {"transient", "panic"}
  /\ UNCHANGED <<stack, txs, committed, left>>

\* Where a savepoint is, if it is set.
Saved(name) == {i \in 1..Len(Tx.saves) : Tx.saves[i].name = name}
Unset(name) == IF Saved(name) = {} THEN Tx.saves
               ELSE RemoveAt(Tx.saves, CHOOSE i \in Saved(name) : TRUE)

\* SAVEPOINT: the name is set here, wherever it was before.
Savepoint ==
  /\ At("savepoint")
  /\ SetTop(Advanced)
  /\ SetTx([Tx EXCEPT !.saves = Append(Unset(Arg), [name |-> Arg, at |-> Len(Tx.work)])])
  /\ UNCHANGED <<mode, err, committed, left, fails>>

\* COMMIT: of the whole transaction.
Commit ==
  /\ At("commit")
  /\ SetTop(Advanced)
  /\ committed' = committed \o [i \in DOMAIN Tx.work |-> [level |-> Len(txs), row |-> Tx.work[i]]]
  /\ SetTx(NewTx)
  /\ UNCHANGED <<mode, err, left, fails>>

\* The innermost function; the innermost transaction block of a depth.
FnFrame == Max({i \in 1..Len(stack) : stack[i].kind = "fn"})
TxFrame(depth) == Max({i \in 1..Len(stack) : stack[i].kind = "tx" /\ stack[i].depth = depth})

\* l_committed_k := TRUE, k the depth of a transaction block around this one.
Flag ==
  /\ At("flag")
  /\ stack' = [[stack EXCEPT ![TxFrame(Arg)].flag = TRUE] EXCEPT ![Len(stack)].pc = @ + 1]
  /\ UNCHANGED <<mode, err, txs, committed, left, fails>>

\* An IF statement; either branch.
If ==
  /\ At("if")
  /\ \/ Push(Advanced, Frame("if", Top.fn, Arg, Top.depth))
     \/ SetTop(Advanced)
  /\ UNCHANGED <<mode, err, txs, committed, left, fails>>

Transaction ==
  /\ At("transaction")
  /\ Push(Advanced, Frame("tx", Top.fn, Arg, Top.depth + 1))
  /\ UNCHANGED <<mode, err, txs, committed, left, fails>>

\* A call; PRAGMA AUTONOMOUS_TRANSACTION opens a transaction of its own.
Call ==
  /\ At("call")
  /\ IF Def[Arg].autonomous
     THEN /\ txs' = Append(txs, NewTx)
          /\ Push(Advanced, [Frame("fn", Arg, Def[Arg].body, 0) EXCEPT !.level = @ + 1, !.work = <<>>])
     ELSE /\ Push(Advanced, Frame("fn", Arg, Def[Arg].body, 0))
          /\ UNCHANGED txs
  /\ UNCHANGED <<mode, err, committed, left, fails>>

\* pell_finally_body; called in line.
Finally ==
  /\ At("finally")
  /\ stack' = Append([[stack EXCEPT ![Len(stack)].pc = @ + 1] EXCEPT ![FnFrame].fins = @ + 1],
                     Frame("finally", Top.fn, Def[Top.fn].finally, 0))
  /\ UNCHANGED <<mode, err, txs, committed, left, fails>>

Return ==
  /\ At("return")
  /\ mode' = "return"
  /\ UNCHANGED <<stack, err, txs, committed, left, fails>>

\* return Err(...): the payload and RAISE.
RaiseErr ==
  /\ At("err")
  /\ mode' = "raise"
  /\ err' = "err"
  /\ UNCHANGED <<stack, txs, committed, left, fails>>

Statement ==
  Dml \/ DmlFails \/ Savepoint \/ Commit \/ Flag \/ If \/ Transaction \/ Call \/ Finally
    \/ Return \/ RaiseErr

----
(* Leaving a block. *)

\* BEGIN pell_finally_body; EXCEPTION WHEN OTHERS THEN NULL; END;
CleanupQuiet(fr) ==
  fr.kind = "finally" /\ stack[Len(stack) - 1].phase = "cleanup"

\* The innermost block is left with `how`.  Work an autonomous function leaves
\* open is rolled back, with ORA-06519 unless it has raised already.
LeaveWith(how) ==
  LET open == Top.kind = "fn" /\ Def[Top.fn].autonomous /\ Tx.work # <<>>
      ends == Top.kind \in {"fn", "finally"}
  IN /\ stack' = Front(stack)
     /\ txs' = IF Top.kind = "fn" /\ Def[Top.fn].autonomous THEN Front(txs) ELSE txs
     /\ IF open /\ how # "raise" THEN mode' = "raise" /\ err' = "ORA-06519"
        ELSE IF how = "raise" /\ ~CleanupQuiet(Top) THEN mode' = "raise" /\ UNCHANGED err
        ELSE /\ mode' = IF how = "return" /\ ~ends THEN "return" ELSE "run"
             /\ err' = NoError
     /\ left' = [kind |-> Top.kind, fn |-> Top.fn, blk |-> Top.blk, level |-> Top.level,
                 how |-> how, err |-> err, cause |-> Top.cause, flag |-> Top.flag,
                 fins |-> Top.fins, work |-> Top.work, committed |-> Top.committed,
                 remains |-> Tx.work, durable |-> committed]
     /\ UNCHANGED <<committed, fails>>

AtEnd == stack # <<>> /\ mode = "run" /\ Top.pc > Len(Code(Top))

\* The inner block of a function with a finally block is over.
AfterBody ==
  /\ AtEnd
  /\ Top.kind = "fn" /\ Top.phase = "body" /\ Def[Top.fn].finally # NoBlock
  /\ SetTop([Top EXCEPT !.phase = "after", !.pc = 1])
  /\ UNCHANGED <<mode, err, txs, committed, left, fails>>

FallOut ==
  /\ AtEnd
  /\ Top.phase = "after" \/ Top.kind # "fn" \/ Def[Top.fn].finally = NoBlock
  /\ LeaveWith("end")

\* RETURN leaves every block of the function, past their handlers.
Returning ==
  /\ stack # <<>> /\ mode = "return"
  /\ LeaveWith("return")

----
(* Exception handlers. *)

Raising(kind) == stack # <<>> /\ mode = "raise" /\ Top.kind = kind /\ Top.phase = "body"

\* ROLLBACK TO: later savepoints are erased; ORA-01086 if there is none.
RolledBack(name) ==
  LET i == CHOOSE j \in Saved(name) : TRUE
  IN [work |-> SubSeq(Tx.work, 1, Tx.saves[i].at), saves |-> SubSeq(Tx.saves, 1, i)]

Raised == [Top EXCEPT !.phase = "raised", !.cause = err]

\* IF NOT l_committed THEN ROLLBACK TO pell_sp; END IF; RAISE;
TransactionHandler ==
  /\ Raising("tx")
  /\ SetTop(Raised)
  /\ IF Top.flag THEN UNCHANGED <<txs, err>>
     ELSE IF Saved(<<"pell_sp", Top.depth>>) = {} THEN err' = "ORA-01086" /\ UNCHANGED txs
     ELSE SetTx(RolledBack(<<"pell_sp", Top.depth>>)) /\ UNCHANGED err
  /\ UNCHANGED <<mode, committed, left, fails>>

\* l_pell_attempt := l_pell_attempt + 1
Counted == Top.attempt + 1

\* IF l_pell_attempt >= n THEN RAISE
GivesUp(n) == Counted >= n

Attempt == <<"pell_attempt", 0>>

\* Mutant: no ROLLBACK.
KeepAttempt == UNCHANGED txs

\* ROLLBACK TO pell_attempt
UndoAttempt == SetTx(RolledBack(Attempt))

\* The handler of @retry.
RetryHandler ==
  /\ Raising("fn")
  /\ Def[Top.fn].retry > 0
  /\ LET raised == SetTop([Raised EXCEPT !.attempt = IF err = "panic" THEN @ ELSE Counted])
     IN IF err = "panic" THEN raised /\ UNCHANGED <<mode, err, txs>>
        ELSE IF Saved(Attempt) = {} THEN raised /\ err' = "ORA-01086" /\ UNCHANGED <<mode, txs>>
        ELSE /\ UndoAttempt
             /\ IF GivesUp(Def[Top.fn].retry) THEN raised /\ UNCHANGED <<mode, err>>
                ELSE /\ SetTop([Top EXCEPT !.pc = 1, !.attempt = Counted])
                     /\ mode' = "run" /\ err' = NoError
  /\ UNCHANGED <<committed, left, fails>>

\* The handler of a finally block: run it, then RAISE.
FinallyHandler ==
  /\ Raising("fn")
  /\ Def[Top.fn].finally # NoBlock
  /\ Push([Top EXCEPT !.phase = "cleanup", !.cause = err, !.fins = @ + 1],
          Frame("finally", Top.fn, Def[Top.fn].finally, 0))
  /\ mode' = "run"
  /\ err' = NoError
  /\ UNCHANGED <<txs, committed, left, fails>>

Reraise ==
  /\ stack # <<>> /\ mode = "run" /\ Top.phase = "cleanup"
  /\ SetTop([Top EXCEPT !.phase = "raised"])
  /\ mode' = "raise"
  /\ err' = Top.cause
  /\ UNCHANGED <<txs, committed, left, fails>>

\* The handler of @autonomous: ROLLBACK; RAISE;
AutonomousHandler ==
  /\ Raising("fn")
  /\ Def[Top.fn].autonomous /\ Def[Top.fn].finally = NoBlock
  /\ SetTop(Raised)
  /\ SetTx(NewTx)
  /\ UNCHANGED <<mode, err, committed, left, fails>>

\* No handler, or its end.
Unwind ==
  /\ stack # <<>> /\ mode = "raise"
  /\ \/ Top.phase # "body"
     \/ Top.kind \in {"if", "finally"}
     \/ /\ Top.kind = "fn" /\ Def[Top.fn].retry = 0 /\ Def[Top.fn].finally = NoBlock
        /\ ~Def[Top.fn].autonomous
  /\ LeaveWith("raise")

Handler ==
  TransactionHandler \/ RetryHandler \/ FinallyHandler \/ Reraise \/ AutonomousHandler \/ Unwind

Finished == stack = <<>> /\ UNCHANGED vars

Next == Statement \/ AfterBody \/ FallOut \/ Returning \/ Handler \/ Finished

Spec == Init /\ [][Next]_vars

----
(* Properties. *)

\* What a block runs in its own transaction: the blocks in it and the functions
\* they call, autonomous ones apart.
StmtsOf(blocks) == UNION {ToSet(Block[b]) : b \in blocks}
Calls(blocks) ==
  {s.arg : s \in {t \in StmtsOf(blocks) : t.op = "call" \/ (t.op = "return" /\ t.arg # NoArg)}}
Inner(blocks) == {s.arg : s \in {t \in StmtsOf(blocks) : t.op \in {"if", "transaction"}}}
Bodies(f) ==
  IF Def[f].autonomous THEN {} ELSE {Def[f].body} \cup ({Def[f].finally} \ {NoBlock})
Grown(bs) == bs \cup Inner(bs) \cup UNION {Bodies(f) : f \in Calls(bs)}
Reached ==
  [b \in DOMAIN Block |->
     LET n == Cardinality(DOMAIN Block)
         grow[k \in 0..n] == IF k = 0 THEN {b} ELSE Grown(grow[k - 1])
     IN grow[n]]

Rows == [b \in DOMAIN Block |-> {s.arg : s \in {t \in StmtsOf(Reached[b]) : t.op = "dml"}}]
FinallyRows(f) == IF Def[f].finally = NoBlock THEN {} ELSE Rows[Def[f].finally]

\* Blocks that commit nothing by themselves: no transaction block in them, and
\* no value computed after the COMMIT of their return.
Plain ==
  {b \in DOMAIN Block :
     \A s \in StmtsOf(Reached[b]) :
       s.op # "transaction" /\ (s.op = "return" => s.arg = NoArg)}

\* Rows committed since the block was entered, by the transaction it ran in.
CommittedInside ==
  {i \in (Len(left.committed) + 1)..Len(left.durable) : left.durable[i].level = left.level}

\* A transaction block whose statements leave transactions alone is all or
\* nothing, whichever way it is left: an error that comes out of it is the one
\* that went into its handler, with the work undone to what it was before the
\* block and none of it committed, unless a return had; otherwise nothing is
\* left uncommitted, but for what the finally block did after the COMMIT.
TransactionIsAtomic ==
  left.kind = "tx" /\ left.blk \in Plain =>
    IF left.how = "raise"
    THEN /\ left.err = left.cause
         /\ ~left.flag => left.remains = left.work /\ CommittedInside = {}
    ELSE ToSet(left.remains) \subseteq FinallyRows(left.fn)

\* Every attempt at a function that neither commits nor retries inside starts
\* with the work of its caller and nothing of an earlier attempt (@retry).
Nests == {f \in Fns : \E g \in Calls(Reached[Def[f].body]) : Def[g].retry > 0}
Attempting ==
  stack # <<>> /\ mode = "run" /\ Top.kind = "fn" /\ Def[Top.fn].retry > 0 /\ Top.pc = 1
AttemptsStartFresh ==
  Attempting /\ Def[Top.fn].body \in Plain /\ Top.fn \notin Nests => Tx.work = Top.work

\* A function with a finally block is never left without having run it, and an
\* error of the function survives an error of its finally block.
FinallyRuns ==
  left.kind = "fn" /\ Def[left.fn].finally # NoBlock =>
    /\ left.fins > 0
    /\ left.cause # NoError => left.how = "raise" /\ left.err = left.cause

\* An autonomous function without return or finally, that calls no other, commits
\* all it did or nothing, and always closes its transaction.
Closing ==
  {f \in Fns : /\ Def[f].autonomous /\ Def[f].finally = NoBlock
               /\ Def[f].body \in Plain
               /\ \A s \in StmtsOf(Reached[Def[f].body]) : s.op # "return"
               /\ \A g \in Calls(Reached[Def[f].body]) : ~Def[g].autonomous}
AutonomousIsAtomic ==
  left.kind = "fn" /\ left.fn \in Closing =>
    /\ left.remains = <<>>
    /\ left.how = "raise" => left.durable = left.committed

\* "Any propagated error ... -> ROLLBACK" and "Nesting = SAVEPOINT": a
\* transaction block that ends in an error has committed nothing.
ErrorRollsBack == left.kind = "tx" /\ left.how = "raise" => CommittedInside = {}
====
