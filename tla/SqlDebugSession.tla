---- MODULE SqlDebugSession ----
(***************************************************************************)
(* A debug session over the SQL transport: PellSqlDebugProcess, the IDE's  *)
(* engine, driving the `pell debug-serve` of DebugServe through the two    *)
(* pipes.  Its actors are                                                  *)
(*                                                                         *)
(*   the engine thread    start(), then eventLoop() over serve's events    *)
(*   pooled tasks         addBreakpoint() per registered breakpoint, the   *)
(*                        locals request of a displayed frame, the wait    *)
(*                        for serve's exit after a stop                    *)
(*   the user             resume, steps, stop, breakpoints                 *)
(*                                                                         *)
(* plus everything DebugServe has.  A breakpoint stands for the unit line  *)
(* its pell line resolves to.                                              *)
(***************************************************************************)
EXTENDS DebugServe, FiniteSets

CONSTANTS
  Bps,          \* breakpoints of the project
  BpLine,       \* [Bps -> Lines]
  PellLine,     \* [Lines -> Nat]: the pell line of a unit line, 0 if unmapped
  LocalsReqs,   \* bound: displayed frames that ask for their variables
  MaxHops,      \* a step re-sends itself at most so often (256)
  MaxActions    \* bound: resumes and steps of the user

ASSUME BpsAssumption == IsFiniteSet(Bps) /\ BpLine \in [Bps -> Lines]
ASSUME PellLineAssumption == PellLine \in [Lines -> Nat]
ASSUME SessionBoundsAssumption == MaxHops \in Nat /\ MaxActions \in Nat

NoBp == "no breakpoint"
NoStep == [cmd |-> None, origin |-> 0, hops |-> 0]
NoReq == "no request"

VARIABLES
  engine,     \* the engine thread
  ready,      \* the ready event has been seen
  started,    \* the first run has been sent
  stopped,
  seen,       \* events read so far
  task,       \* [Bps -> where addBreakpoint() is]
  queued,     \* queuedBreakpoints
  draining,   \* the queued breakpoint the engine is sending
  bpCounter,
  number,     \* [Bps -> value of bpCounter read by ++bpCounter]
  bpById,     \* [ids -> Bps], ids are numbers
  activeStep,
  lastSuspendPell,
  ui,         \* "running" or "paused": what the session displays
  shown,      \* unit line it is paused at
  hit,        \* breakpoint it was told was reached
  removed,    \* breakpoints the user has removed
  req,        \* [LocalsReqs -> "idle", "set" or "sent"]
  localsFuture, \* request whose future the field holds
  waiting,    \* stop() has found the serve process and waits for it
  actions     \* resumes and steps so far

enginevars == <<engine, ready, started, stopped, seen>>
bpvars == <<task, queued, draining, bpCounter, number, bpById>>
uivars == <<activeStep, lastSuspendPell, ui, shown, hit, removed, actions>>
locvars == <<req, localsFuture>>
clientvars == <<enginevars, bpvars, uivars, locvars, waiting>>
svars == <<vars, clientvars>>

SessionInit ==
  /\ Init
  /\ engine = "starting"
  /\ ready = FALSE /\ started = FALSE /\ stopped = FALSE /\ waiting = FALSE
  /\ seen = 0
  /\ task \in [Bps -> {"off", "new"}]   \* new: registered when the session is created
  /\ queued = <<>>
  /\ draining = NoBp
  /\ bpCounter = 0
  /\ number = [b \in Bps |-> 0]
  /\ bpById = [i \in 1..Cardinality(Bps) |-> NoBp]
  /\ activeStep = NoStep
  /\ lastSuspendPell = 0
  /\ ui = "running"
  /\ shown = 0
  /\ hit = NoBp
  /\ removed = {}
  /\ req = [r \in LocalsReqs |-> "idle"]
  /\ localsFuture = NoReq
  /\ actions = 0

\* There is a serve process.
Spawned == engine \notin {"starting", "failed"}

\* send(): one line, under the monitor of the engine.
Send(kind, line) ==
  /\ written' = Append(written, [kind |-> kind, line |-> line])
  /\ UNCHANGED <<eof, readervars, cmds, servevars, events, threadvars, faults, tvars>>

----
(* Breakpoints: registration, and the pooled addBreakpoint() tasks. *)

\* The user sets a breakpoint while the session runs.
Register(b) ==
  /\ task[b] = "off"
  /\ ~stopped
  /\ task' = [task EXCEPT ![b] = "new"]
  /\ UNCHANGED <<vars, enginevars, queued, draining, bpCounter, number, bpById, uivars,
                 locvars, waiting>>

\* unregisterBreakpoint() does nothing.
Unregister(b) ==
  /\ task[b] # "off"
  /\ b \notin removed
  /\ removed' = removed \cup {b}
  /\ UNCHANGED <<vars, enginevars, bpvars, activeStep, lastSuspendPell, ui, shown, hit,
                 actions, locvars, waiting>>

\* if (!ready), read without the lock.
AddBreakpoint(b) ==
  /\ task[b] = "new"
  /\ task' = [task EXCEPT ![b] = IF ready THEN "sending" ELSE "locking"]
  /\ UNCHANGED <<vars, enginevars, queued, draining, bpCounter, number, bpById, uivars,
                 locvars, waiting>>

\* The engine holds the lock while it drains.
LockFree == engine # "drain"

\* Mutant: ready is not checked again.
QueueAlways(b) == FALSE

\* synchronized (queuedBreakpoints), ready checked again.
QueueUnlessReady(b) == ready

QueueBreakpoint(b) ==
  /\ task[b] = "locking"
  /\ LockFree
  /\ IF QueueUnlessReady(b)
     THEN task' = [task EXCEPT ![b] = "sending"] /\ UNCHANGED queued
     ELSE task' = [task EXCEPT ![b] = "queued"] /\ queued' = Append(queued, b)
  /\ UNCHANGED <<vars, enginevars, draining, bpCounter, number, bpById, uivars, locvars,
                 waiting>>

\* sendBreakpoint(), after the srcmap lookup: ++bpCounter is a read ...
ReadCounter(b) ==
  /\ task[b] = "sending"
  /\ number' = [number EXCEPT ![b] = bpCounter]
  /\ task' = [task EXCEPT ![b] = "numbering"]
  /\ UNCHANGED <<vars, enginevars, queued, draining, bpCounter, bpById, uivars, locvars,
                 waiting>>

\* ... and a write; then the breakpoint is known under its id and sent.
SendBreakpoint(b) ==
  /\ task[b] = "numbering"
  /\ bpCounter' = number[b] + 1
  /\ bpById' = [bpById EXCEPT ![number[b] + 1] = b]
  /\ Send("set_breakpoint", BpLine[b])
  /\ task' = [task EXCEPT ![b] = "sent"]
  /\ UNCHANGED <<enginevars, queued, draining, number, uivars, locvars, waiting>>

AddTask(b) == AddBreakpoint(b) \/ QueueBreakpoint(b) \/ ReadCounter(b) \/ SendBreakpoint(b)

----
(* The engine thread. *)

\* start(): deploy, line maps, then the serve process is spawned.
SpawnServe ==
  /\ engine = "starting"
  /\ engine' = "reading"
  /\ UNCHANGED <<vars, ready, started, stopped, seen, bpvars, uivars, locvars, waiting>>

\* No CLI, no script, no process: session.stop().
StartFails ==
  /\ engine = "starting"
  /\ engine' = "failed"
  /\ stopped' = TRUE
  /\ UNCHANGED <<vars, ready, started, seen, bpvars, uivars, locvars, waiting>>

\* The next line of serve's stdout; the loop breaks on it when stopped.
NextEvent == events[seen + 1]
Reading == engine = "reading" /\ seen < Len(events) /\ ~stopped

OnReady ==
  /\ Reading
  /\ NextEvent.event = "ready"
  /\ seen' = seen + 1
  /\ ready' = TRUE
  /\ engine' = "lock"
  /\ UNCHANGED <<vars, started, stopped, bpvars, uivars, locvars, waiting>>

\* synchronized (queuedBreakpoints)
LockQueue ==
  /\ engine = "lock"
  /\ engine' = "drain"
  /\ UNCHANGED <<vars, ready, started, stopped, seen, bpvars, uivars, locvars, waiting>>

PreviousSent == IF draining = NoBp THEN TRUE ELSE task[draining] = "sent"

\* queuedBreakpoints.forEach { sendBreakpoint(it) }, one after the other.
DrainQueued ==
  /\ engine = "drain"
  /\ queued # <<>>
  /\ PreviousSent
  /\ draining' = Head(queued)
  /\ queued' = Tail(queued)
  /\ task' = [task EXCEPT ![Head(queued)] = "sending"]
  /\ UNCHANGED <<vars, enginevars, bpCounter, number, bpById, uivars, locvars, waiting>>

\* All sent and the list cleared: the lock is released.
Drained ==
  /\ engine = "drain"
  /\ queued = <<>>
  /\ PreviousSent
  /\ draining' = NoBp
  /\ engine' = "run"
  /\ UNCHANGED <<vars, ready, started, stopped, seen, task, queued, bpCounter, number,
                 bpById, uivars, locvars, waiting>>

SendRun ==
  /\ engine = "run"
  /\ Send("run", 0)
  /\ started' = TRUE
  /\ engine' = "reading"
  /\ UNCHANGED <<ready, stopped, seen, bpvars, uivars, locvars, waiting>>

\* pellPosOf(): 0 when the position is not mapped.
PellPos(l) == IF l \in Lines THEN PellLine[l] ELSE 0

\* matchBreakpoint(): any known breakpoint at the line of a breakpoint event.
Matches(ev) ==
  {b \in Bps : /\ \E i \in DOMAIN bpById : bpById[i] = b
               /\ ev.info = "breakpoint"
               /\ BpLine[b] = ev.line}

\* The step is still on the pell line it began at and may go on.
StaysOnLine(ev) ==
  /\ Matches(ev) = {}
  /\ activeStep # NoStep
  /\ PellPos(ev.line) # 0
  /\ PellPos(ev.line) = activeStep.origin
  /\ activeStep.hops < MaxHops

\* Mutant: the hop does not leave the handler.
HopAndSurface ==
  /\ Reading
  /\ NextEvent.event = "suspended"
  /\ StaysOnLine(NextEvent)
  /\ seen' = seen + 1
  /\ activeStep' = NoStep
  /\ Send(activeStep.cmd, 0)
  /\ lastSuspendPell' = PellPos(NextEvent.line)
  /\ ui' = "paused"
  /\ shown' = NextEvent.line
  /\ UNCHANGED <<engine, ready, started, stopped, bpvars, hit, removed, actions, locvars,
                 waiting>>

HopAgain ==
  /\ Reading
  /\ NextEvent.event = "suspended"
  /\ StaysOnLine(NextEvent)
  /\ seen' = seen + 1
  /\ activeStep' = [activeStep EXCEPT !.hops = @ + 1]
  /\ Send(activeStep.cmd, 0)
  /\ UNCHANGED <<engine, ready, started, stopped, bpvars, lastSuspendPell, ui, shown, hit,
                 removed, actions, locvars, waiting>>

\* Mutant: the step is not over when it surfaces.
SurfaceKeepsStep ==
  /\ Reading
  /\ NextEvent.event = "suspended"
  /\ ~StaysOnLine(NextEvent)
  /\ seen' = seen + 1
  /\ lastSuspendPell' = PellPos(NextEvent.line)
  /\ ui' = "paused"
  /\ shown' = NextEvent.line
  /\ IF Matches(NextEvent) = {} THEN hit' = NoBp ELSE hit' \in Matches(NextEvent)
  /\ UNCHANGED <<vars, engine, ready, started, stopped, bpvars, activeStep, removed, actions,
                 locvars, waiting>>

Surface ==
  /\ Reading
  /\ NextEvent.event = "suspended"
  /\ ~StaysOnLine(NextEvent)
  /\ seen' = seen + 1
  /\ activeStep' = NoStep
  /\ lastSuspendPell' = PellPos(NextEvent.line)
  /\ ui' = "paused"
  /\ shown' = NextEvent.line
  /\ IF Matches(NextEvent) = {} THEN hit' = NoBp ELSE hit' \in Matches(NextEvent)
  /\ UNCHANGED <<vars, engine, ready, started, stopped, bpvars, removed, actions, locvars,
                 waiting>>

\* The reply completes whatever future the field holds, which only the display sees.
OnLocals ==
  /\ Reading
  /\ NextEvent.event = "locals"
  /\ seen' = seen + 1
  /\ UNCHANGED <<vars, engine, ready, started, stopped, bpvars, uivars, locvars, waiting>>

\* bp_set and error only change what the IDE displays.
OnOther ==
  /\ Reading
  /\ NextEvent.event \in {"bp_set", "error"}
  /\ seen' = seen + 1
  /\ UNCHANGED <<vars, engine, ready, started, stopped, bpvars, uivars, locvars, waiting>>

\* terminated, end of file, or the first line read after a stop: the loop ends,
\* and the session is stopped if it is not; stop() sends its command.
EndLoop ==
  /\ engine = "reading"
  /\ \/ seen < Len(events) /\ (stopped \/ NextEvent.event = "terminated")
     \/ seen = Len(events) /\ pc = "exit"
  /\ engine' = "ended"
  /\ stopped' = TRUE
  /\ waiting' = (waiting \/ ~stopped)
  /\ ui' = "running"
  /\ IF stopped \/ pc = "exit" THEN UNCHANGED vars ELSE Send("stop", 0)
  /\ UNCHANGED <<ready, started, seen, bpvars, activeStep, lastSuspendPell, shown, hit,
                 removed, actions, locvars>>

Engine ==
  SpawnServe \/ StartFails \/ OnReady \/ LockQueue \/ DrainQueued \/ Drained \/ SendRun \/ HopAgain \/ Surface
    \/ OnLocals \/ OnOther \/ EndLoop

----
(* The user and what the display asks for. *)

Resume ==
  /\ ui = "paused" /\ ~stopped
  /\ actions < MaxActions
  /\ actions' = actions + 1
  /\ ui' = "running"
  /\ activeStep' = NoStep
  /\ Send("continue", 0)
  /\ UNCHANGED <<enginevars, bpvars, lastSuspendPell, shown, hit, removed, locvars, waiting>>

BeginStep(cmd) ==
  /\ ui = "paused" /\ ~stopped
  /\ actions < MaxActions
  /\ actions' = actions + 1
  /\ ui' = "running"
  /\ activeStep' = [cmd |-> cmd, origin |-> lastSuspendPell, hops |-> 0]
  /\ Send(cmd, 0)
  /\ UNCHANGED <<enginevars, bpvars, lastSuspendPell, shown, hit, removed, locvars, waiting>>

\* stop(): nothing is sent before the process exists, and nothing waits for it.
Stop ==
  /\ ~stopped
  /\ stopped' = TRUE
  /\ ui' = "running"
  /\ IF ~Spawned THEN UNCHANGED <<vars, waiting>>
     ELSE Send("stop", 0) /\ waiting' = TRUE
  /\ UNCHANGED <<engine, ready, started, seen, bpvars, activeStep, lastSuspendPell, shown, hit,
                 removed, actions, locvars>>

\* Mutant: p.waitFor() without a limit.
WaitForServe ==
  /\ waiting
  /\ Spawned
  /\ pc = "exit"
  /\ UNCHANGED svars

\* p.waitFor(10 s) gives up: destroyForcibly().
KillServe ==
  /\ waiting
  /\ Spawned
  /\ pc # "exit"
  /\ pc' = "exit"
  /\ UNCHANGED <<iovars, readervars, cmds, cur, fin, out, last, events, threadvars, faults,
                 tvars, clientvars>>

\* computeChildren() of the top frame: the future first ...
AskLocals(r) ==
  /\ ui = "paused"
  /\ req[r] = "idle"
  /\ req' = [req EXCEPT ![r] = "set"]
  /\ localsFuture' = r
  /\ UNCHANGED <<vars, enginevars, bpvars, uivars, waiting>>

\* ... then the request.
SendLocals(r) ==
  /\ req[r] = "set"
  /\ req' = [req EXCEPT ![r] = "sent"]
  /\ Send("locals", 0)
  /\ UNCHANGED <<enginevars, bpvars, uivars, localsFuture, waiting>>

User ==
  \/ \E b \in Bps : Register(b) \/ Unregister(b)
  \/ Resume
  \/ \E cmd \in StepFlags : BeginStep(cmd)
  \/ Stop

Pooled ==
  \/ \E b \in Bps : AddTask(b)
  \/ KillServe
  \/ \E r \in LocalsReqs : AskLocals(r) \/ SendLocals(r)

----
(* The composition: DebugServe's processes run once serve is spawned. *)

ServeProcess ==
  /\ Spawned
  /\ Serve \/ Reader \/ Target
  /\ UNCHANGED clientvars

SessionNext == User \/ Pooled \/ Engine \/ ServeProcess

SessionSpec == SessionInit /\ [][SessionNext]_svars

\* Threads of both processes are scheduled, the session starts, and a step or an
\* abort comes back from user code in the end.  Code that is running free need
\* not, and the user need not do anything.
SessionFairness ==
  /\ WF_svars(Engine)
  /\ \A b \in Bps : WF_svars(AddTask(b))
  /\ WF_svars(KillServe)
  /\ WF_svars(ServeProcess /\ Serve)
  /\ WF_svars(ServeProcess /\ Reader)
  /\ WF_svars(ServeProcess /\ (ExecuteReturned \/ SignalDone))
  /\ WF_svars(ServeProcess /\ tstate = "booting" /\ SessionStep)
  /\ SF_svars(/\ ServeProcess /\ SessionStep
              /\ tstate = "running" /\ flags # "run" /\ tstate' # "running")

SessionFairSpec == SessionSpec /\ SessionFairness

----
(* Properties. *)

GoInFlight ==
  \/ cur.kind \in GoKinds
  \/ \E i \in 1..Len(cmds) : cmds[i].kind \in GoKinds
  \/ \E i \in (nread + 1)..Len(written) : written[i].kind \in GoKinds

\* When the IDE shows a paused session at a line, the target is suspended at
\* that line and no command that would move it is on its way (resume, steps,
\* hops and suspended events across both processes).
PausedIsPaused ==
  ui = "paused" /\ ~stopped /\ faults = 0 =>
    /\ tstate = "suspended" /\ tline = shown
    /\ ~GoInFlight

\* Every breakpoint whose task is scheduled is sent, before or after ready, or the
\* session is stopped.
BreakpointsAreSent ==
  \A b \in Bps : task[b] = "new" ~> task[b] = "sent" \/ stopped

\* A pell-level step that re-sends itself surfaces in the end, even where the
\* block loops within one pell line (the hop limit).
StepsSurface == activeStep # NoStep ~> activeStep = NoStep \/ stopped

\* A stop that found the serve process ends it, even while it waits for user
\* code that never comes back (waitFor, then destroyForcibly).
StopEndsServe == waiting ~> pc = "exit"
====
