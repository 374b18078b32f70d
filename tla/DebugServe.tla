---- MODULE DebugServe ----
(***************************************************************************)
(* `pell debug-serve`: the process between an IDE, which writes command    *)
(* lines on stdin and reads event lines on stdout, and a database session  *)
(* suspended under DBMS_DEBUG.  Four actors interleave:                    *)
(*                                                                         *)
(*   the IDE              writes lines, may close the pipe                 *)
(*   the reader thread    parses lines into the queue `cmds`               *)
(*   the serve loop       takes one command at a time and blocks in it     *)
(*   the target           its session (ProbeTarget) and the thread that    *)
(*                        waits in execute()                               *)
(*                                                                         *)
(* `written` and `events` are the two pipes, kept as logs.                 *)
(***************************************************************************)
EXTENDS ProbeTarget, Sequences

CONSTANTS
  Inputs,     \* the lines the IDE may write, a subset of Lines of input
  MaxCmds,    \* bound: lines written
  MaxFaults   \* bound: database calls that fail or time out

ASSUME BoundsAssumption == MaxCmds \in Nat /\ MaxFaults \in Nat

None == "none"
GoKinds == {"run", "continue"} \cup StepFlags
Kinds == GoKinds \cup {"set_breakpoint", "locals", "stop", "unknown", "value", "bad"}

\* A line of input.  "bad" is not JSON, "value" is JSON but no object (a number,
\* a list, null), "unknown" is an object with an unknown cmd; `line` matters to set_breakpoint only.
Commands == [kind : Kinds, line : Nat]
NoCmd == [kind |-> None, line |-> 0]
StopCmd == [kind |-> "stop", line |-> 0]

ASSUME InputsAssumption == Inputs \subseteq Commands

FlagOf(kind) == IF kind \in StepFlags THEN kind ELSE "run"

\* An event; `info` is a status, a reason or an error, `line` the line it is about.
Event(e, l, i) == [event |-> e, line |-> l, info |-> i]
EventKinds == {"ready", "bp_set", "suspended", "locals", "error", "terminated"}
Infos == {None, "ok", "rejected", "breakpoint", "line", "timeout", "raised", "aborted",
          "no_session", "bad_command", "failed", "output"}
Events == [event : EventKinds, line : Nat, info : Infos]

VARIABLES
  written,      \* lines the IDE has written, oldest first
  eof,          \* the IDE has closed the pipe
  nread,        \* how many of them the reader thread has taken
  reader,       \* "off", "reading" or "ended"
  cmds,         \* the queue between the reader and the serve loop
  pc,           \* where the serve loop is
  cur,          \* the command it is executing, NoCmd once that is answered
  fin,          \* finish()'s argument
  out,          \* what finish() has of the target: its output, or that it waited in vain
  last,         \* line of the last suspension reported, 0 for none
  events,       \* event lines emitted, oldest first
  tthread,      \* "executing", "returned" or "done": the thread in run_target()
  target_done,  \* the Event the thread sets last
  target_error, \* what execute() raised
  faults        \* database calls failed so far

iovars == <<written, eof>>
readervars == <<nread, reader>>
servevars == <<pc, cur, fin, out, last>>
threadvars == <<tthread, target_done, target_error>>
vars == <<written, eof, nread, reader, cmds, pc, cur, fin, out, last, events,
          tthread, target_done, target_error, faults, tvars>>

StartingPCs == {"poll", "pollcheck", "announce"}
FinishPCs == {"detach", "wait", "drain", "report"}
PCs == StartingPCs \cup FinishPCs
         \cup {"user", "idle", "exec", "cont", "abort", "aborting", "close", "exit"}

TypeOK ==
  /\ TargetTypeOK
  /\ written \in Seq(Commands)
  /\ eof \in BOOLEAN
  /\ nread \in Nat
  /\ reader \in {"off", "reading", "ended"}
  /\ cmds \in Seq(Commands)
  /\ pc \in PCs
  /\ cur \in Commands \cup {NoCmd}
  /\ fin \in {None, "aborted"}
  /\ out \in {None, "output", "late"}
  /\ last \in {0} \cup Lines
  /\ events \in Seq(Events)
  /\ tthread \in {"executing", "returned", "done"}
  /\ target_done \in BOOLEAN
  /\ target_error \in {None, "raised"}
  /\ faults \in Nat

\* Both connections are open, the target session is initialised with debug on
\* and the control session attached; run_target() has been started.
Init ==
  /\ TargetInit
  /\ written = <<>>
  /\ eof = FALSE
  /\ nread = 0
  /\ reader = "off"
  /\ cmds = <<>>
  /\ pc = "poll"
  /\ cur = NoCmd
  /\ fin = None
  /\ out = None
  /\ last = 0
  /\ events = <<>>
  /\ tthread = "executing"
  /\ target_done = FALSE
  /\ target_error = None
  /\ faults = 0

Emit(ev) == events' = Append(events, ev)

Fault == faults < MaxFaults /\ faults' = faults + 1

----
(* The IDE: any lines, in any order, at any time. *)

Write(c) ==
  /\ ~eof
  /\ Len(written) < MaxCmds
  /\ written' = Append(written, c)
  /\ UNCHANGED <<eof, readervars, cmds, servevars, events, threadvars, faults, tvars>>

CloseStdin ==
  /\ ~eof
  /\ eof' = TRUE
  /\ UNCHANGED <<written, readervars, cmds, servevars, events, threadvars, faults, tvars>>

----
(* read_stdin(), a daemon thread: it dies with the process. *)

ReaderAlive == reader = "reading" /\ pc # "exit"

\* Mutant: the queue is a stack.
ReadCommandLifo ==
  /\ ReaderAlive
  /\ nread < Len(written)
  /\ written[nread + 1].kind # "bad"
  /\ nread' = nread + 1
  /\ cmds' = <<written[nread + 1]>> \o cmds
  /\ UNCHANGED <<iovars, reader, servevars, events, threadvars, faults, tvars>>

ReadCommand ==
  /\ ReaderAlive
  /\ nread < Len(written)
  /\ written[nread + 1].kind # "bad"
  /\ nread' = nread + 1
  /\ cmds' = Append(cmds, written[nread + 1])
  /\ UNCHANGED <<iovars, reader, servevars, events, threadvars, faults, tvars>>

\* json.loads raises: the reader answers by itself, past the queue.
ReadBadLine ==
  /\ ReaderAlive
  /\ nread < Len(written)
  /\ written[nread + 1].kind = "bad"
  /\ nread' = nread + 1
  /\ Emit(Event("error", 0, "bad_command"))
  /\ UNCHANGED <<iovars, reader, cmds, servevars, threadvars, faults, tvars>>

\* Mutant: the thread just ends.
ReadEofSilently ==
  /\ ReaderAlive
  /\ eof
  /\ nread = Len(written)
  /\ reader' = "ended"
  /\ UNCHANGED <<iovars, nread, cmds, servevars, events, threadvars, faults, tvars>>

\* End of file is queued as one more stop.
ReadEof ==
  /\ ReaderAlive
  /\ eof
  /\ nread = Len(written)
  /\ reader' = "ended"
  /\ cmds' = Append(cmds, StopCmd)
  /\ UNCHANGED <<iovars, nread, servevars, events, threadvars, faults, tvars>>

Reader == ReadCommand \/ ReadBadLine \/ ReadEof

----
(* The target session and run_target(), the thread blocked in execute(). *)

\* Mutant: the default behaviour.
ContinueOnTimeout == "continue"

\* dbms_debug.set_timeout_behaviour(0), called in the target session.
TimeoutBehaviour == "retry"

SessionStep ==
  /\ \/ Boot
     \/ BootFails
     \/ Advance
     \/ Complete
     \/ Raise
     \/ WaitExpires(TimeoutBehaviour)
  /\ UNCHANGED <<iovars, readervars, cmds, servevars, events, threadvars, faults>>

SessionKilled ==
  /\ Killed
  /\ Fault
  /\ UNCHANGED <<iovars, readervars, cmds, servevars, events, threadvars>>

\* Mutant: the exception is dropped.
ExecuteReturnedSilently ==
  /\ tthread = "executing"
  /\ ExecuteReturns
  /\ tthread' = "returned"
  /\ UNCHANGED <<iovars, readervars, cmds, servevars, events, target_done, target_error, faults, tvars>>

\* execute() returns; an exception is recorded before anything else.
ExecuteReturned ==
  /\ tthread = "executing"
  /\ ExecuteReturns
  /\ tthread' = "returned"
  /\ target_error' = IF raised THEN "raised" ELSE target_error
  /\ UNCHANGED <<iovars, readervars, cmds, servevars, events, target_done, faults, tvars>>

\* finally: target_done.set()
SignalDone ==
  /\ tthread = "returned"
  /\ tthread' = "done"
  /\ target_done' = TRUE
  /\ UNCHANGED <<iovars, readervars, cmds, servevars, events, target_error, faults, tvars>>

Target == SessionStep \/ SessionKilled \/ ExecuteReturned \/ SignalDone

----
(* Start-up: poll until the target is suspended or dead. *)

Synchronize ==
  /\ pc = "poll"
  /\ pc' = IF tstate = "suspended" THEN "announce" ELSE "pollcheck"
  /\ UNCHANGED <<iovars, readervars, cmds, out, cur, fin, last, events, threadvars, faults, tvars>>

PollAgain ==
  /\ pc = "pollcheck"
  /\ ~target_done
  /\ pc' = "poll"
  /\ UNCHANGED <<iovars, readervars, cmds, out, cur, fin, last, events, threadvars, faults, tvars>>

\* The target died before any debuggable activity: report it and return 1.
NoSession ==
  /\ pc = "pollcheck"
  /\ target_done
  /\ Emit(Event("terminated", 0, IF target_error = None THEN "no_session" ELSE target_error))
  /\ pc' = "exit"
  /\ UNCHANGED <<iovars, readervars, cmds, out, cur, fin, last, threadvars, faults, tvars>>

\* The ready event, then the reader thread starts.
Announce ==
  /\ pc = "announce"
  /\ Emit(Event("ready", 0, None))
  /\ reader' = "reading"
  /\ pc' = "user"
  /\ UNCHANGED <<iovars, nread, cmds, out, cur, fin, last, threadvars, faults, tvars>>

\* `select user from dual`: commands wait in the queue meanwhile.
ResolveUser ==
  /\ pc = "user"
  /\ pc' = "idle"
  /\ UNCHANGED <<iovars, readervars, cmds, out, cur, fin, last, events, threadvars, faults, tvars>>

\* A start-up call raises: nothing catches it, the process dies.
StartupCrash ==
  /\ pc \in {"poll", "user"}
  /\ Fault
  /\ pc' = "exit"
  /\ UNCHANGED <<iovars, readervars, cmds, out, cur, fin, last, events, threadvars, tvars>>

Startup ==
  Synchronize \/ PollAgain \/ NoSession \/ Announce \/ ResolveUser \/ StartupCrash

----
(* The command loop. *)

TakeCommand ==
  /\ pc = "idle"
  /\ cmds # <<>>
  /\ Head(cmds).kind # "value"
  /\ cur' = Head(cmds)
  /\ cmds' = Tail(cmds)
  /\ pc' = "exec"
  /\ UNCHANGED <<iovars, readervars, out, fin, last, events, threadvars, faults, tvars>>

\* c.get("cmd") raises outside the try: the process dies without a word.
TakeNonObject ==
  /\ pc = "idle"
  /\ cmds # <<>>
  /\ Head(cmds).kind = "value"
  /\ cmds' = Tail(cmds)
  /\ pc' = "exit"
  /\ UNCHANGED <<iovars, readervars, out, cur, fin, last, events, threadvars, faults, tvars>>

\* The command is answered with `ev`; the loop goes back to cmds.get().
Answer(ev) == Emit(ev) /\ cur' = NoCmd /\ pc' = "idle"

\* finish(e), up to its first call; the terminated event is the answer.
Finish(e) == pc' = "detach" /\ fin' = e

\* Probe answers status 0 for a line of the unit.
SetBreakpointCmd ==
  /\ pc = "exec"
  /\ cur.kind = "set_breakpoint"
  /\ SetBreakpoint(cur.line)
  /\ Answer(Event("bp_set", cur.line, IF cur.line \in Lines THEN "ok" ELSE "rejected"))
  /\ UNCHANGED <<iovars, readervars, cmds, out, fin, last, threadvars, faults>>

\* run, continue and the steps block in dbms_debug.continue.
GoCmd ==
  /\ pc = "exec"
  /\ cur.kind \in GoKinds
  /\ Continue(FlagOf(cur.kind))
  /\ pc' = "cont"
  /\ UNCHANGED <<iovars, readervars, cmds, out, cur, fin, last, events, threadvars, faults>>

\* Mutant: `last` is not kept up to date.
ContKeepsLast ==
  /\ pc = "cont"
  /\ tstate = "suspended"
  /\ ~target_done
  /\ Answer(Event("suspended", tline, IF tline \in armed THEN "breakpoint" ELSE "line"))
  /\ UNCHANGED <<iovars, readervars, cmds, out, fin, last, threadvars, faults, tvars>>

\* do_continue(), the call returned at a suspension of the target.
ContSuspended ==
  /\ pc = "cont"
  /\ tstate = "suspended"
  /\ ~target_done
  /\ last' = tline
  /\ Answer(Event("suspended", tline, IF tline \in armed THEN "breakpoint" ELSE "line"))
  /\ UNCHANGED <<iovars, readervars, cmds, out, fin, threadvars, faults, tvars>>

\* Reason exit or knl_exit, a non-zero status, or the target thread is dead.
ContOver ==
  /\ pc = "cont"
  /\ tstate \in {"exiting", "over"}
  /\ Finish(None)
  /\ UNCHANGED <<iovars, readervars, cmds, out, cur, last, events, threadvars, faults, tvars>>

\* The probe's own timeout (3600 s) ends the call while the target runs on:
\* with a non-zero status the session is given up, with status 0 it is
\* reported as one more suspension, at no line.
ContTimesOut ==
  /\ pc = "cont"
  /\ tstate = "running"
  /\ Fault
  /\ \/ Finish(None) /\ UNCHANGED <<cur, last, events>>
     \/ Answer(Event("suspended", 0, "timeout")) /\ last' = 0 /\ UNCHANGED fin
  /\ UNCHANGED <<iovars, readervars, cmds, out, threadvars, tvars>>

\* locals are read at the position of the last suspension reported.
LocalsCmd ==
  /\ pc = "exec"
  /\ cur.kind = "locals"
  /\ Answer(Event("locals", last, None))
  /\ UNCHANGED <<iovars, readervars, cmds, out, fin, last, threadvars, faults, tvars>>

\* Mutant: unknown commands are ignored.
UnknownIgnored ==
  /\ pc = "exec"
  /\ cur.kind = "unknown"
  /\ cur' = NoCmd /\ pc' = "idle"
  /\ UNCHANGED <<iovars, readervars, cmds, out, fin, last, events, threadvars, faults, tvars>>

UnknownCmd ==
  /\ pc = "exec"
  /\ cur.kind = "unknown"
  /\ Answer(Event("error", 0, "bad_command"))
  /\ UNCHANGED <<iovars, readervars, cmds, out, fin, last, threadvars, faults, tvars>>

\* stop: delete_all_breakpoints() ...
StopCmdDelete ==
  /\ pc = "exec"
  /\ cur.kind = "stop"
  /\ armed' = {}
  /\ pc' = "abort"
  /\ UNCHANGED <<iovars, readervars, cmds, out, cur, fin, last, events, threadvars, faults,
                 tstate, tline, flags, attached, debugOn, raised>>

\* ... cont(ABORT_EXECUTION) ...
StopCmdAbort ==
  /\ pc = "abort"
  /\ Continue("abort")
  /\ pc' = "aborting"
  /\ UNCHANGED <<iovars, readervars, cmds, out, cur, fin, last, events, threadvars, faults>>

\* Mutant: finish() without a reason.
StopCmdFinishPlain ==
  /\ pc = "aborting"
  /\ tstate # "running"
  /\ Finish(None)
  /\ UNCHANGED <<iovars, readervars, cmds, out, cur, last, events, threadvars, faults, tvars>>

\* ... whatever it answers, finish("aborted").
StopCmdFinish ==
  /\ pc = "aborting"
  /\ tstate # "running"
  /\ Finish("aborted")
  /\ UNCHANGED <<iovars, readervars, cmds, out, cur, last, events, threadvars, faults, tvars>>

\* An exception from cont(ABORT_EXECUTION) is ignored; the abort may be lost.
StopCmdAbortFails ==
  /\ pc \in {"abort", "aborting"}
  /\ Fault
  /\ Finish("aborted")
  /\ UNCHANGED <<iovars, readervars, cmds, out, cur, last, events, threadvars, tvars>>

\* A probe call of a command raises: an error event, and the loop goes on
\* unless the target thread is known to be dead.
CommandFails ==
  /\ \/ pc = "exec" /\ cur.kind \in GoKinds \cup {"set_breakpoint", "locals", "stop"}
     \/ pc = "cont"
  /\ Fault
  /\ Emit(Event("error", 0, "failed"))
  /\ cur' = NoCmd
  /\ IF target_done THEN Finish(None) ELSE pc' = "idle" /\ UNCHANGED fin
  /\ UNCHANGED <<iovars, readervars, cmds, out, last, threadvars, tvars>>

Commanding ==
  \/ TakeCommand \/ TakeNonObject \/ SetBreakpointCmd \/ GoCmd \/ ContSuspended \/ ContOver
  \/ ContTimesOut \/ LocalsCmd \/ UnknownCmd \/ StopCmdDelete \/ StopCmdAbort \/ StopCmdFinish
  \/ StopCmdAbortFails \/ CommandFails

----
(* finish(): detach, wait for the target, drain its output, report, close. *)

Detach ==
  /\ pc = "detach"
  /\ DetachSession
  /\ pc' = "wait"
  /\ UNCHANGED <<iovars, readervars, cmds, out, cur, fin, last, events, threadvars, faults>>

\* detach_session raises: ignored.
DetachFails ==
  /\ pc = "detach"
  /\ Fault
  /\ pc' = "wait"
  /\ UNCHANGED <<iovars, readervars, cmds, out, cur, fin, last, events, threadvars, tvars>>

\* Mutant: drain whatever the block did.
DrainWhenDone == target_done /\ fin = None

\* Drain only what a block that ended well has printed.
MayDrain == target_done /\ target_error = None /\ fin = None

\* target_done.wait(15) returns: the target is done or the time is up.
WaitTarget ==
  /\ pc = "wait"
  /\ pc' = IF MayDrain THEN "drain" ELSE "report"
  /\ out' = IF target_done THEN None ELSE "late"
  /\ UNCHANGED <<iovars, readervars, cmds, cur, fin, last, events, threadvars, faults, tvars>>

\* GET_LINE is PL/SQL on the target session: it waits for ever for a debugger
\* if debugging is still on there.
Drain ==
  /\ pc = "drain"
  /\ ~debugOn
  /\ out' = "output"
  /\ pc' = "report"
  /\ UNCHANGED <<iovars, readervars, cmds, cur, fin, last, events, threadvars, faults, tvars>>

\* The drain raises: ignored, the output is lost.
DrainFails ==
  /\ pc = "drain"
  /\ Fault
  /\ pc' = "report"
  /\ UNCHANGED <<iovars, readervars, cmds, out, cur, fin, last, events, threadvars, tvars>>

\* Mutant: finish() is called, not returned.
ReportAndGoOn ==
  /\ pc = "report"
  /\ Emit(Event("terminated", 0,
        CASE fin # None -> fin
          [] fin = None /\ target_error # None -> target_error
          [] OTHER -> IF out = "output" THEN out ELSE None))
  /\ cur' = NoCmd
  /\ pc' = "idle"
  /\ UNCHANGED <<iovars, readervars, cmds, out, fin, last, threadvars, faults, tvars>>

\* The last event: finish()'s own error first, then the block's.
Report ==
  /\ pc = "report"
  /\ Emit(Event("terminated", 0,
        CASE fin # None -> fin
          [] fin = None /\ target_error # None -> target_error
          [] OTHER -> IF out = "output" THEN out ELSE None))
  /\ cur' = NoCmd
  /\ pc' = "close"
  /\ UNCHANGED <<iovars, readervars, cmds, out, fin, last, threadvars, faults, tvars>>

CloseConnections ==
  /\ pc = "close"
  /\ pc' = "exit"
  /\ UNCHANGED <<iovars, readervars, cmds, out, cur, fin, last, events, threadvars, faults, tvars>>

Finishing ==
  Detach \/ DetachFails \/ WaitTarget \/ Drain \/ DrainFails \/ Report \/ CloseConnections
----
(* The whole system. *)

Serve == Startup \/ Commanding \/ Finishing

\* The process is gone.
Exited == pc = "exit" /\ UNCHANGED vars

Next ==
  \/ \E c \in Inputs : Write(c)
  \/ CloseStdin
  \/ Reader
  \/ Target
  \/ Serve
  \/ Exited

Spec == Init /\ [][Next]_vars

\* Threads are scheduled, the session starts, and the block does not run for
\* ever; nothing obliges the IDE to write or to close the pipe.
Fairness ==
  /\ WF_vars(Serve)
  /\ WF_vars(Reader)
  /\ WF_vars(ExecuteReturned)
  /\ WF_vars(SignalDone)
  /\ WF_vars(tstate = "booting" /\ SessionStep)
  /\ SF_vars(SessionStep /\ tstate = "running" /\ tstate' # "running")

FairSpec == Spec /\ Fairness

----
(* Properties. *)

Emitted(e) == \E k \in 1..Len(events) : events[k].event = e

\* Output is only drained from a target whose block has returned and whose last
\* act turned debugging off; any other drain would wait for ever (finish).
DrainsIdleTarget == pc = "drain" => target_done /\ ~debugOn

\* While the loop can answer `locals`, the position it reads them at is the
\* line where the target is really suspended (`last` in do_continue).
LocalsAreCurrent ==
  /\ faults = 0
  /\ pc \in {"idle", "exec"}
  /\ Emitted("suspended")
  => tstate = "suspended" /\ tline = last

\* A breakpoint written before the first run or step is set before any user
\* code runs: the rendezvous at interpreter_starting and the FIFO queue.
BreakpointsBeforeCode ==
  tline # 0 /\ faults = 0 =>
    \A i \in 1..Len(written) :
      /\ written[i].kind = "set_breakpoint"
      /\ \A j \in 1..i : written[j].kind \notin GoKinds
      => \E k \in 1..Len(events) :
           events[k].event = "bp_set" /\ events[k].line = written[i].line

\* What terminated says of the block is true: output stands for a block that
\* ended well and whose execute() has returned, an error of the block for one
\* that raised.  And it is the whole truth: a block that raised is never reported
\* without an error, except where wait(15) ran out before execute() had recorded
\* it (finish).
ReportIsTrue ==
  \A k \in 1..Len(events) : events[k].event = "terminated" =>
    /\ events[k].info = "output" => ~raised /\ ~debugOn /\ target_done
    /\ events[k].info = "raised" => raised
    /\ events[k].info \in {None, "output", "no_session"} /\ raised => out = "late"

\* The target starts running only on a command, and moves only while the loop
\* waits in continue: no wait in the target times out into execution.
TargetObeys ==
  [][/\ tstate = "suspended" /\ tstate' = "running" => pc \in {"exec", "abort"}
     /\ tline' # tline /\ faults = 0 => pc = "cont"]_vars

\* Nothing the loop or the target does is reported after terminated, which is
\* emitted once; only the reader thread may still complain of a bad line.
TerminatedIsLast ==
  \A k \in 1..Len(events) : events[k].event = "terminated" =>
    \A j \in (k + 1)..Len(events) : events[j] = Event("error", 0, "bad_command")

\* When the IDE goes away the process ends (the stop queued at end of file),
\* unless that stop has failed: then it waits for a command that cannot come.
StopLost ==
  /\ reader = "ended" /\ cmds = <<>> /\ pc = "idle"
  /\ events[Len(events)] = Event("error", 0, "failed")
EofEndsProcess == eof ~> pc = "exit" \/ StopLost

\* Every line written is answered by an event of its own, or the session ends.
EveryLineAnswered ==
  \A n \in 1..MaxCmds : Len(written) >= n ~> Len(events) > n \/ pc = "exit"
====
