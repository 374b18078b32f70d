---- MODULE SqlDebugSession_proofs ----
(***************************************************************************)
(* A theorem about the whole session over the SQL transport: the engine,   *)
(* its tasks and the user in one process, serve's threads and the target   *)
(* in the other, for every program, every set of breakpoints and every     *)
(* bound.                                                                  *)
(***************************************************************************)
EXTENDS SqlDebugSession, DebugServe_proofs

----
(* The pieces of the invariant. *)

\* Whatever serve holds has its type, and the client keeps what the argument
\* needs of its own fields.  Nobody closes the pipe.
SessionTypeOK ==
  /\ TypeOK
  /\ seen \in Nat
  /\ activeStep = NoStep \/ activeStep.cmd \in StepFlags
  /\ eof = FALSE
  /\ waiting => stopped

\* No stop is on its way, and no abort under way, in a session not stopped.
NoStop ==
  /\ \A i \in 1..Len(written) : written[i].kind # "stop"
  /\ \A q \in 1..Len(cmds) : cmds[q].kind # "stop"
  /\ cur.kind # "stop"
  /\ pc \notin {"abort", "aborting"}

\* ready is announced once, and the first run is sent after it.
Unseen(k, e) == k \in (seen + 1)..Len(events) /\ events[k].event = e
StartsOnce ==
  /\ pc \in StartingPCs => ~ready /\ \A k : ~Unseen(k, "ready")
  /\ ready => \A k : ~Unseen(k, "ready")
  /\ \A j, k : Unseen(j, "ready") /\ Unseen(k, "ready") => j = k
  /\ started => ready
  /\ engine \in {"lock", "drain", "run"} => ready /\ ~started

\* At most one run, continue or step is between the client and the target.
GoInHand == cur.kind \in GoKinds
GoQueued(q) == q \in 1..Len(cmds) /\ cmds[q].kind \in GoKinds
GoUnread(i) == i \in (nread + 1)..Len(written) /\ written[i].kind \in GoKinds
OneGo ==
  /\ GoInHand => \A q : ~GoQueued(q)
  /\ GoInHand => \A i : ~GoUnread(i)
  /\ \A q, i : ~(GoQueued(q) /\ GoUnread(i))
  /\ \A p, q : GoQueued(p) /\ GoQueued(q) => p = q
  /\ \A i, j : GoUnread(i) /\ GoUnread(j) => i = j
  /\ pc = "cont" => GoInHand

\* The target waits where it was reported, and nothing is about to move it.
WaitsAt(l) == tstate = "suspended" /\ tline = l /\ ~GoInFlight

\* A suspension is either on its way to the engine or shown by it.
OneReport ==
  /\ GoInFlight => started
  /\ \A k : Unseen(k, "suspended") => WaitsAt(events[k].line) /\ started /\ ui # "paused"
  /\ \A j, k : Unseen(j, "suspended") /\ Unseen(k, "suspended") => j = k
  /\ ui = "paused" => WaitsAt(shown) /\ started

TurnInv == ~stopped /\ faults = 0 => NoStop /\ StartsOnce /\ OneGo /\ OneReport

----
(* Types. *)

\* One more line of input.
LEMMA SendTyped ==
  ASSUME TypeOK, NEW k \in Kinds, NEW l \in Nat, Send(k, l)
  PROVE  TypeOK'
<1>1. [kind |-> k, line |-> l] \in Commands
  BY DEF Commands
<1>2. UNCHANGED tvars => TargetTypeOK'
  BY DEF TypeOK, tvars, TargetTypeOK
<1> QED BY <1>1, <1>2 DEF Send, TypeOK, readervars, servevars, threadvars

\* A step that leaves serve, its pipes and its target alone.
LEMMA SameTyped ==
  ASSUME TypeOK, UNCHANGED vars
  PROVE  TypeOK'
BY TypeStep

\* The kinds of line the client sends.
LEMMA ClientKinds ==
  /\ {"set_breakpoint", "run", "continue", "stop", "locals"} \cup StepFlags \subseteq Kinds
  /\ \A b \in Bps : BpLine[b] \in Nat
<1>1. {"set_breakpoint", "run", "continue", "stop", "locals"} \cup StepFlags \subseteq Kinds
  BY DEF Kinds, GoKinds
<1>2. \A b \in Bps : BpLine[b] \in Nat
  BY BpsAssumption, LinesAssumption
<1> QED BY <1>1, <1>2

LEMMA SessionTypeInit == SessionInit => SessionTypeOK
<1> SUFFICES ASSUME SessionInit PROVE SessionTypeOK OBVIOUS
<1>1. TypeOK
  BY TypeInit DEF SessionInit
<1>2. eof = FALSE
  BY DEF SessionInit, Init
<1> QED BY <1>1, <1>2 DEF SessionTypeOK, SessionInit

\* Every actor keeps the types; the client never closes the pipe.
LEMMA SessionTypeStep == SessionTypeOK /\ [SessionNext]_svars => SessionTypeOK'
<1> SUFFICES ASSUME SessionTypeOK, [SessionNext]_svars PROVE SessionTypeOK' OBVIOUS
<1> USE DEF enginevars, uivars, bpvars, locvars
<1>0. /\ TypeOK /\ seen \in Nat /\ eof = FALSE /\ (waiting => stopped)
      /\ (activeStep = NoStep \/ activeStep.cmd \in StepFlags)
  BY DEF SessionTypeOK
<1>v. UNCHANGED vars => TypeOK' /\ eof' = FALSE
  BY <1>0, SameTyped DEF vars
<1>s. \A k \in Kinds, l \in Nat : Send(k, l) => TypeOK' /\ eof' = FALSE
  BY <1>0, SendTyped DEF Send
<1>1. CASE User
  <2>1. ASSUME NEW b \in Bps, Register(b) \/ Unregister(b) PROVE SessionTypeOK'
    BY <2>1, <1>0, <1>v DEF Register, Unregister, SessionTypeOK
  <2>2. CASE Resume
    BY <2>2, <1>0, <1>s, ClientKinds DEF Resume, SessionTypeOK
  <2>3. ASSUME NEW cmd \in StepFlags, BeginStep(cmd) PROVE SessionTypeOK'
    <3>1. cmd \in Kinds /\ activeStep'.cmd = cmd
      BY <2>3, ClientKinds DEF BeginStep
    <3> QED BY <2>3, <3>1, <1>0, <1>s DEF BeginStep, SessionTypeOK
  <2>4. CASE Stop
    BY <2>4, <1>0, <1>v, <1>s, ClientKinds DEF Stop, SessionTypeOK
  <2> QED BY <1>1, <2>1, <2>2, <2>3, <2>4 DEF User
<1>2. CASE Pooled
  <2>1. ASSUME NEW b \in Bps, AddTask(b) PROVE SessionTypeOK'
    <3>1. CASE SendBreakpoint(b)
      BY <3>1, <1>0, <1>s, ClientKinds DEF SendBreakpoint, SessionTypeOK
    <3>2. CASE AddBreakpoint(b) \/ QueueBreakpoint(b) \/ ReadCounter(b)
      BY <3>2, <1>0, <1>v DEF AddBreakpoint, QueueBreakpoint, ReadCounter, SessionTypeOK
    <3> QED BY <2>1, <3>1, <3>2 DEF AddTask
  <2>2. CASE KillServe
    <3>1. TypeOK'
      BY <2>2, <1>0 DEF KillServe, TypeOK, PCs, iovars, readervars, threadvars, tvars, TargetTypeOK
    <3> QED BY <2>2, <3>1, <1>0 DEF KillServe, SessionTypeOK, iovars, clientvars
  <2>3. ASSUME NEW r \in LocalsReqs, AskLocals(r) \/ SendLocals(r) PROVE SessionTypeOK'
    BY <2>3, <1>0, <1>v, <1>s, ClientKinds DEF AskLocals, SendLocals, SessionTypeOK
  <2> QED BY <1>2, <2>1, <2>2, <2>3 DEF Pooled
<1>3. CASE Engine
  <2>1. CASE SpawnServe \/ StartFails \/ OnReady \/ LockQueue \/ DrainQueued \/ Drained
    BY <2>1, <1>0, <1>v
    DEF SpawnServe, StartFails, OnReady, LockQueue, DrainQueued, Drained, SessionTypeOK
  <2>2. CASE SendRun
    BY <2>2, <1>0, <1>s, ClientKinds DEF SendRun, SessionTypeOK
  <2>3. CASE HopAgain
    <3>1. activeStep.cmd \in StepFlags /\ activeStep'.cmd = activeStep.cmd
      BY <2>3, <1>0 DEF HopAgain, StaysOnLine
    <3> QED BY <2>3, <3>1, <1>0, <1>s, ClientKinds DEF HopAgain, SessionTypeOK
  <2>4. CASE Surface \/ OnLocals \/ OnOther
    BY <2>4, <1>0, <1>v DEF Surface, OnLocals, OnOther, SessionTypeOK
  <2>5. CASE EndLoop
    BY <2>5, <1>0, <1>v, <1>s, ClientKinds DEF EndLoop, SessionTypeOK
  <2> QED BY <1>3, <2>1, <2>2, <2>3, <2>4, <2>5 DEF Engine
<1>4. CASE ServeProcess
  <2>1. [Next]_vars
    BY <1>4 DEF ServeProcess, Next
  <2>2. TypeOK'
    BY <1>0, <2>1, TypeStep
  <2>3. eof' = eof
    BY <1>4
    DEF ServeProcess, Serve, Startup, Synchronize, PollAgain, NoSession, Announce, ResolveUser, StartupCrash,
        Commanding, TakeCommand, TakeNonObject, SetBreakpointCmd, GoCmd, ContSuspended, ContOver, ContTimesOut,
        LocalsCmd, UnknownCmd, StopCmdDelete, StopCmdAbort, StopCmdFinish, StopCmdAbortFails, CommandFails,
        Finishing, Detach, DetachFails, WaitTarget, Drain, DrainFails, Report, CloseConnections,
        Reader, ReadCommand, ReadBadLine, ReadEof, Target, SessionStep, SessionKilled, ExecuteReturned,
        SignalDone, iovars
  <2> QED BY <1>4, <1>0, <2>2, <2>3 DEF ServeProcess, SessionTypeOK, clientvars
<1>5. CASE UNCHANGED svars
  BY <1>5, <1>0, <1>v DEF svars, clientvars, SessionTypeOK
<1> QED BY <1>1, <1>2, <1>3, <1>4, <1>5 DEF SessionNext

----
(* What moves the commands between the client and the loop. *)

LEMMA FlightParts ==
  /\ GoInFlight <=> GoInHand \/ (\E q : GoQueued(q)) \/ (\E i : GoUnread(i))
  /\ GoInFlight' <=> GoInHand' \/ (\E q : GoQueued(q)') \/ (\E i : GoUnread(i)')
BY DEF GoInFlight, GoInHand, GoQueued, GoUnread

\* No stop and at most one run, continue or step.
Pipe == NoStop /\ OneGo

\* Nothing moves but the loop, or what it held is answered.
LEMMA PipeFrame ==
  ASSUME Pipe, UNCHANGED <<written, nread, cmds>>,
         UNCHANGED cur \/ cur' = NoCmd,
         pc' = "cont" => (pc = "cont" \/ GoInHand) /\ UNCHANGED cur,
         pc' \notin {"abort", "aborting"}
  PROVE  /\ Pipe'
         /\ GoInFlight' => GoInFlight
         /\ GoInHand /\ ~GoInHand' => ~GoInFlight'
<1>1. NoCmd.kind = None /\ None \notin GoKinds /\ None # "stop"
  BY DEF NoCmd, None, GoKinds, StepFlags
<1>2. /\ \A q : GoQueued(q)' <=> GoQueued(q)
      /\ \A i : GoUnread(i)' <=> GoUnread(i)
      /\ GoInHand' => GoInHand
  BY <1>1 DEF GoQueued, GoUnread, GoInHand
<1>3. NoStop'
  BY <1>1 DEF Pipe, NoStop
<1>4. pc' = "cont" => GoInHand'
  BY DEF Pipe, OneGo, GoInHand
<1>5. OneGo'
  BY <1>2, <1>4 DEF Pipe, OneGo
<1> QED BY <1>2, <1>3, <1>5, FlightParts DEF Pipe, OneGo

\* One more line from the client.
LEMMA PipeSend ==
  ASSUME TypeOK, Pipe, NEW k \in Kinds \ {"stop"}, NEW l \in Nat, Send(k, l),
         k \in GoKinds => ~GoInFlight
  PROVE  /\ Pipe'
         /\ k \notin GoKinds => (GoInFlight' => GoInFlight)
<1> DEFINE c == [kind |-> k, line |-> l]
<1>1. /\ written \in Seq(Commands) /\ Len(written') = Len(written) + 1 /\ Len(written) \in Nat
      /\ \A i \in 1..Len(written) : written'[i] = written[i]
      /\ written'[Len(written) + 1].kind = k
      /\ nread \in Nat
  <2>1. written' = Append(written, c) /\ c \in Commands /\ c.kind = k
    BY DEF Send, Commands
  <2>2. written \in Seq(Commands) /\ nread \in Nat
    BY DEF TypeOK
  <2> HIDE DEF c
  <2>3. /\ Len(written') = Len(written) + 1 /\ Len(written) \in Nat
        /\ \A i \in 1..Len(written) : written'[i] = written[i]
        /\ written'[Len(written) + 1] = c
    BY <2>1, <2>2
  <2> QED BY <2>1, <2>2, <2>3
<1>2. UNCHANGED <<nread, cmds, cur, pc>>
  BY DEF Send, readervars, servevars
<1>3. \A i \in 1..Len(written') : i \in 1..Len(written) \/ i = Len(written) + 1
  BY <1>1
<1>4. /\ \A q : GoQueued(q)' <=> GoQueued(q)
      /\ GoInHand' <=> GoInHand
  BY <1>2 DEF GoQueued, GoInHand
<1>5. \A i : GoUnread(i)' => GoUnread(i) \/ (i = Len(written) + 1 /\ k \in GoKinds)
  <2>1. \A i : i \in (nread' + 1)..Len(written') => \/ i = Len(written) + 1
                                                   \/ i \in (nread + 1)..Len(written)
    BY <1>1, <1>2
  <2>2. \A i : i \in (nread + 1)..Len(written) => i \in 1..Len(written)
    BY <1>1
  <2> QED BY <2>1, <2>2, <1>1 DEF GoUnread
<1>6. NoStop'
  BY <1>1, <1>2, <1>3 DEF Pipe, NoStop
<1>7. OneGo'
  <2>1. CASE k \notin GoKinds
    BY <2>1, <1>2, <1>4, <1>5 DEF Pipe, OneGo
  <2>2. CASE k \in GoKinds
    <3>1. ~GoInHand /\ (\A q : ~GoQueued(q)) /\ (\A i : ~GoUnread(i))
      BY <2>2, FlightParts
    <3> QED BY <3>1, <1>2, <1>4, <1>5 DEF Pipe, OneGo
  <2> QED BY <2>1, <2>2
<1> QED BY <1>4, <1>5, <1>6, <1>7, FlightParts DEF Pipe

\* The reader thread queues a line, or answers it.
LEMMA PipeRead ==
  ASSUME TypeOK, Pipe, ReadCommand \/ ReadBadLine
  PROVE  Pipe' /\ (GoInFlight' => GoInFlight)
<1> USE DEF iovars, readervars, servevars
<1> DEFINE n == nread + 1
           c == written[n]
<1>0. /\ written \in Seq(Commands) /\ cmds \in Seq(Commands) /\ nread \in Nat
      /\ Len(cmds) \in Nat /\ Len(written) \in Nat
  BY DEF TypeOK
<1>1. nread' = n /\ n \in 1..Len(written) /\ n \in (nread + 1)..Len(written) /\ c \in Commands
  BY <1>0 DEF ReadCommand, ReadBadLine
<1>2. UNCHANGED <<written, cur, pc>>
  BY DEF ReadCommand, ReadBadLine
<1>3. GoInHand' <=> GoInHand
  BY <1>2 DEF GoInHand
<1>4. \A i : GoUnread(i)' => GoUnread(i) /\ i # n
  <2>1. \A i : i \in (nread' + 1)..Len(written) => i \in (nread + 1)..Len(written) /\ i # n
    BY <1>0, <1>1
  <2> QED BY <2>1, <1>2 DEF GoUnread
<1>5. c.kind \in GoKinds => GoUnread(n)
  BY <1>1 DEF GoUnread
<1>6. CASE ReadCommand
  <2>1. cmds' = Append(cmds, c)
    BY <1>6 DEF ReadCommand
  <2> HIDE DEF c
  <2>2. /\ Len(cmds') = Len(cmds) + 1 /\ cmds'[Len(cmds) + 1] = c
        /\ \A q \in 1..Len(cmds) : cmds'[q] = cmds[q]
    BY <2>1, <1>0, <1>1
  <2>3. \A q \in 1..Len(cmds') : q \in 1..Len(cmds) \/ q = Len(cmds) + 1
    BY <2>2, <1>0
  <2>4. \A q : GoQueued(q)' => GoQueued(q) \/ (q = Len(cmds) + 1 /\ GoUnread(n))
    BY <2>2, <2>3, <1>5 DEF GoQueued
  <2>5. c.kind # "stop"
    BY <1>1 DEF Pipe, NoStop, c
  <2>6. NoStop'
    BY <1>2, <2>2, <2>3, <2>5 DEF Pipe, NoStop
  <2> HIDE DEF n
  <2>7. OneGo'
    BY <1>2, <1>3, <1>4, <2>4 DEF Pipe, OneGo
  <2> QED BY <1>3, <1>4, <2>4, <2>6, <2>7, FlightParts DEF Pipe
<1>7. CASE ReadBadLine
  <2>1. \A q : GoQueued(q)' <=> GoQueued(q)
    BY <1>7 DEF ReadBadLine, GoQueued
  <2>2. NoStop'
    BY <1>2, <1>7 DEF ReadBadLine, Pipe, NoStop
  <2> HIDE DEF n
  <2>3. OneGo'
    BY <1>2, <1>3, <1>4, <2>1 DEF Pipe, OneGo
  <2> QED BY <1>3, <1>4, <2>1, <2>2, <2>3, FlightParts DEF Pipe
<1> QED BY <1>6, <1>7

\* The loop takes the oldest command.
LEMMA PipeTake ==
  ASSUME TypeOK, Pipe, TakeCommand
  PROVE  Pipe' /\ (GoInFlight' => GoInFlight)
<1> USE DEF iovars, readervars
<1>0. cmds \in Seq(Commands) /\ Len(cmds) \in Nat /\ cmds # <<>>
  BY DEF TypeOK, TakeCommand
<1>1. /\ cur' = cmds[1] /\ cmds' = Tail(cmds) /\ pc' = "exec" /\ UNCHANGED <<written, nread>>
  BY <1>0 DEF TakeCommand
<1>2. /\ Len(cmds') = Len(cmds) - 1 /\ 1 \in 1..Len(cmds)
      /\ \A q \in 1..Len(cmds') : cmds'[q] = cmds[q + 1] /\ q + 1 \in 1..Len(cmds) /\ q + 1 # 1
      /\ \A p, q \in 1..Len(cmds') : p + 1 = q + 1 => p = q
  BY <1>0, <1>1
<1>3. \A i : GoUnread(i)' <=> GoUnread(i)
  BY <1>1 DEF GoUnread
<1>4. GoInHand' => GoQueued(1)
  BY <1>1, <1>2 DEF GoInHand, GoQueued
<1>5. \A q : GoQueued(q)' => GoQueued(q + 1) /\ q + 1 # 1 /\ q \in 1..Len(cmds')
  BY <1>2 DEF GoQueued
<1>6. NoStop'
  BY <1>1, <1>2 DEF Pipe, NoStop
<1>7. OneGo'
  BY <1>1, <1>2, <1>3, <1>4, <1>5 DEF Pipe, OneGo
<1> QED BY <1>3, <1>4, <1>5, <1>6, <1>7, FlightParts DEF Pipe

\* The loop ends on a line that is no object.
LEMMA PipeSkip ==
  ASSUME TypeOK, Pipe, TakeNonObject
  PROVE  Pipe' /\ (GoInFlight' => GoInFlight)
<1> USE DEF iovars, readervars
<1>0. cmds \in Seq(Commands) /\ Len(cmds) \in Nat /\ cmds # <<>>
  BY DEF TypeOK, TakeNonObject
<1>1. /\ cmds' = Tail(cmds) /\ pc' = "exit" /\ UNCHANGED <<cur, written, nread>>
  BY <1>0 DEF TakeNonObject
<1>2. /\ Len(cmds') = Len(cmds) - 1
      /\ \A q \in 1..Len(cmds') : cmds'[q] = cmds[q + 1] /\ q + 1 \in 1..Len(cmds)
      /\ \A p, q \in 1..Len(cmds') : p + 1 = q + 1 => p = q
  BY <1>0, <1>1
<1>3. (\A i : GoUnread(i)' <=> GoUnread(i)) /\ (GoInHand' <=> GoInHand)
  BY <1>1 DEF GoUnread, GoInHand
<1>4. \A q : GoQueued(q)' => GoQueued(q + 1) /\ q \in 1..Len(cmds')
  BY <1>2 DEF GoQueued
<1>5. NoStop'
  BY <1>1, <1>2 DEF Pipe, NoStop
<1>6. OneGo'
  BY <1>1, <1>2, <1>3, <1>4 DEF Pipe, OneGo
<1> QED BY <1>3, <1>4, <1>5, <1>6, FlightParts DEF Pipe

----
(* What the two processes know of each other. *)

\* The logs of events, as the engine sees them: what is emitted is unseen until
\* it is read, and nothing else becomes unseen.
LEMMA UnseenEmit ==
  ASSUME events \in Seq(Events), seen \in Nat, NEW ev, Emit(ev), UNCHANGED seen
  PROVE  /\ \A k, e : Unseen(k, e)' => \/ Unseen(k, e) /\ events'[k] = events[k]
                                       \/ k = Len(events) + 1 /\ events'[k] = ev /\ ev.event = e
<1>1. /\ Len(events') = Len(events) + 1 /\ Len(events) \in Nat
      /\ events'[Len(events) + 1] = ev
      /\ \A k \in 1..Len(events) : events'[k] = events[k]
  BY DEF Emit
<1>2. \A k : k \in (seen + 1)..Len(events') =>
               \/ k \in (seen + 1)..Len(events) /\ k \in 1..Len(events)
               \/ k = Len(events) + 1
  BY <1>1
<1> QED BY <1>1, <1>2 DEF Unseen

LEMMA UnseenSame ==
  ASSUME UNCHANGED <<events, seen>>
  PROVE  \A k, e : Unseen(k, e)' => Unseen(k, e) /\ events'[k] = events[k]
BY DEF Unseen

LEMMA UnseenRead ==
  ASSUME seen \in Nat, events \in Seq(Events), seen < Len(events), UNCHANGED events,
         seen' = seen + 1
  PROVE  /\ \A k, e : Unseen(k, e)' => Unseen(k, e) /\ events'[k] = events[k] /\ k # seen + 1
         /\ Unseen(seen + 1, NextEvent.event)
<1>1. /\ \A k : k \in (seen' + 1)..Len(events) => k \in (seen + 1)..Len(events) /\ k # seen + 1
      /\ seen + 1 \in (seen + 1)..Len(events)
  BY DEF Events
<1> QED BY <1>1 DEF Unseen, NextEvent

\* Steps that let nothing go: no new event the argument is about, and a target
\* that waits goes on waiting unless something already was under way.
LEMMA TurnFrame ==
  ASSUME StartsOnce, OneReport,
         \A k : Unseen(k, "ready")' => Unseen(k, "ready"),
         \A k : Unseen(k, "suspended")' => Unseen(k, "suspended") /\ events'[k] = events[k],
         UNCHANGED <<ready, started, shown>>,
         UNCHANGED ui \/ ui' = "running",
         engine' \in {"lock", "drain", "run"} => engine \in {"lock", "drain", "run"},
         pc' \in StartingPCs => pc \in StartingPCs,
         GoInFlight' => GoInFlight,
         tstate = "suspended" /\ ~GoInFlight => tstate' = "suspended" /\ tline' = tline
  PROVE  StartsOnce' /\ OneReport'
<1>1. StartsOnce'
  BY DEF StartsOnce
<1>2. \A l : WaitsAt(l) => WaitsAt(l)'
  BY DEF WaitsAt
<1>3. OneReport'
  BY <1>2 DEF OneReport
<1> QED BY <1>1, <1>3

\* A run, continue or step leaves while nothing is reported and nothing shown.
LEMMA TurnGoes ==
  ASSUME StartsOnce, started', ui' # "paused", \A k : ~Unseen(k, "suspended")',
         \A k : Unseen(k, "ready")' => Unseen(k, "ready"),
         UNCHANGED <<ready, pc>>,
         started' = started \/ ready,
         engine' \notin {"lock", "drain", "run"}
           \/ (engine \in {"lock", "drain", "run"} /\ UNCHANGED started)
  PROVE  StartsOnce' /\ OneReport'
BY DEF StartsOnce, OneReport

\* A client step that writes a line other than a stop.
TurnState == Pipe /\ StartsOnce /\ OneReport

LEMMA TurnSend ==
  ASSUME TypeOK, seen \in Nat, TurnState, NEW k \in Kinds \ ({"stop"} \cup GoKinds), NEW l \in Nat,
         Send(k, l), UNCHANGED <<seen, ready, started, shown, engine, ui>>
  PROVE  TurnState'
<1>1. Pipe' /\ (GoInFlight' => GoInFlight)
  BY PipeSend DEF TurnState
<1>2. UNCHANGED <<events, pc, tstate, tline>>
  BY DEF Send, servevars, tvars
<1>3. \A j, e : Unseen(j, e)' => Unseen(j, e) /\ events'[j] = events[j]
  BY <1>2, UnseenSame
<1> QED BY <1>1, <1>2, <1>3, TurnFrame DEF TurnState

\* A client step that leaves serve alone.
LEMMA TurnClient ==
  ASSUME TypeOK, seen \in Nat, TurnState, UNCHANGED vars, UNCHANGED <<ready, started, shown>>,
         UNCHANGED ui \/ ui' = "running",
         engine' \in {"lock", "drain", "run"} => engine \in {"lock", "drain", "run"},
         UNCHANGED seen \/ (seen' = seen + 1 /\ seen < Len(events))
  PROVE  TurnState'
<1>1. UNCHANGED <<written, nread, cmds, cur, pc, events, tstate, tline>>
  BY DEF vars, tvars
<1>2. (GoInFlight' => GoInFlight) /\ Pipe'
  BY <1>1 DEF GoInFlight, TurnState, Pipe, NoStop, OneGo, GoInHand, GoQueued, GoUnread
<1>3. events \in Seq(Events)
  BY DEF TypeOK
<1>4. \A j, e : Unseen(j, e)' => Unseen(j, e) /\ events'[j] = events[j]
  <2>1. CASE UNCHANGED seen
    BY <2>1, <1>1, UnseenSame
  <2>2. CASE seen' = seen + 1 /\ seen < Len(events)
    BY <2>2, <1>1, <1>3, UnseenRead
  <2> QED BY <2>1, <2>2
<1> QED BY <1>1, <1>2, <1>4, TurnFrame DEF TurnState

----
(* serve's own steps. *)

\* Steps of serve that report neither the start nor a suspension.
LEMMA TurnServe ==
  ASSUME TypeOK, seen \in Nat, TurnState, UNCHANGED clientvars,
         Pipe', GoInFlight' => GoInFlight,
         UNCHANGED events \/ \E ev \in Events : Emit(ev) /\ ev.event \notin {"ready", "suspended"},
         pc' \in StartingPCs => pc \in StartingPCs,
         tstate = "suspended" /\ ~GoInFlight => tstate' = "suspended" /\ tline' = tline
  PROVE  TurnState'
<1>1. UNCHANGED <<seen, ready, started, shown, ui, engine>>
  BY DEF clientvars, enginevars, uivars
<1>2. \A k, e : Unseen(k, e)' => \/ Unseen(k, e) /\ events'[k] = events[k]
                                 \/ e \notin {"ready", "suspended"}
  <2>1. CASE UNCHANGED events
    BY <2>1, <1>1, UnseenSame
  <2>2. ASSUME NEW ev \in Events, Emit(ev), ev.event \notin {"ready", "suspended"}
        PROVE  \A k, e : Unseen(k, e)' => \/ Unseen(k, e) /\ events'[k] = events[k]
                                          \/ e \notin {"ready", "suspended"}
    <3>1. events \in Seq(Events)
      BY DEF TypeOK
    <3> QED BY <2>2, <3>1, <1>1, UnseenEmit
  <2> QED BY <2>1, <2>2
<1>3. StartsOnce' /\ OneReport'
  BY <1>1, <1>2, TurnFrame DEF TurnState
<1> QED BY <1>3 DEF TurnState

\* The ready event: the only one, before anything is sent.
LEMMA TurnAnnounce ==
  ASSUME TypeOK, seen \in Nat, TurnState, UNCHANGED clientvars, Announce
  PROVE  TurnState'
<1> USE DEF iovars
<1>1. UNCHANGED <<seen, ready, started, shown, ui, engine>>
  BY DEF clientvars, enginevars, uivars
<1>2. UNCHANGED <<written, nread, cmds, cur, tstate, tline>> /\ pc' = "user" /\ pc = "announce"
  BY DEF Announce, tvars
<1>3. Pipe' /\ (GoInFlight' => GoInFlight)
  BY <1>2, PipeFrame DEF TurnState
<1> DEFINE ev == Event("ready", 0, None)
<1>4. events \in Seq(Events) /\ Emit(ev) /\ ev.event = "ready"
  BY DEF TypeOK, Announce, Event
<1> HIDE DEF ev
<1>5. \A k, e : Unseen(k, e)' => \/ Unseen(k, e) /\ events'[k] = events[k]
                                 \/ k = Len(events) + 1 /\ events'[k] = ev /\ ev.event = e
  BY <1>1, <1>4, UnseenEmit
<1>6. ~ready /\ \A k : ~Unseen(k, "ready")
  BY <1>2 DEF TurnState, StartsOnce, StartingPCs
<1>7. StartsOnce'
  <2>1. \A k : Unseen(k, "ready")' => k = Len(events) + 1
    BY <1>5, <1>6
  <2> QED BY <2>1, <1>1, <1>2, <1>6 DEF StartsOnce, TurnState, StartingPCs
<1>8. OneReport'
  <2>1. \A k : Unseen(k, "suspended")' => Unseen(k, "suspended") /\ events'[k] = events[k]
    BY <1>4, <1>5
  <2>2. \A l : WaitsAt(l) => WaitsAt(l)'
    BY <1>2, <1>3 DEF WaitsAt
  <2> QED BY <2>1, <2>2, <1>1, <1>3 DEF OneReport, TurnState
<1> QED BY <1>3, <1>7, <1>8 DEF TurnState

\* A suspension is reported by the one command that was under way.
LEMMA TurnSuspended ==
  ASSUME TypeOK, seen \in Nat, TurnState, UNCHANGED clientvars, ContSuspended
  PROVE  TurnState'
<1> USE DEF iovars, readervars
<1>1. UNCHANGED <<seen, ready, started, shown, ui, engine>>
  BY DEF clientvars, enginevars, uivars
<1>2. /\ UNCHANGED <<written, nread, cmds, tstate, tline>> /\ pc = "cont" /\ pc' = "idle" /\ cur' = NoCmd
      /\ tstate = "suspended"
  BY DEF ContSuspended, Answer, tvars
<1>3. GoInHand /\ GoInFlight /\ ~GoInHand'
  BY <1>2, FlightParts DEF TurnState, Pipe, OneGo, GoInHand, NoCmd, None, GoKinds, StepFlags
<1>4. Pipe' /\ ~GoInFlight'
  BY <1>2, <1>3, PipeFrame DEF TurnState
<1>5. started /\ ui # "paused" /\ \A k : ~Unseen(k, "suspended")
  BY <1>3 DEF TurnState, OneReport, WaitsAt
<1>6. PICK i : Emit(Event("suspended", tline, i))
  BY DEF ContSuspended, Answer
<1> DEFINE ev == Event("suspended", tline, i)
<1>7. events \in Seq(Events) /\ Emit(ev) /\ ev.event = "suspended" /\ ev.line = tline
  BY <1>6 DEF TypeOK, Event
<1> HIDE DEF ev
<1>8. \A k, e : Unseen(k, e)' => \/ Unseen(k, e) /\ events'[k] = events[k]
                                 \/ k = Len(events) + 1 /\ events'[k] = ev /\ ev.event = e
  BY <1>1, <1>7, UnseenEmit
<1>9. StartsOnce'
  <2>1. \A k : Unseen(k, "ready")' => Unseen(k, "ready")
    BY <1>7, <1>8
  <2>2. pc' \notin StartingPCs
    BY <1>2 DEF StartingPCs
  <2> QED BY <2>1, <2>2, <1>1 DEF StartsOnce, TurnState
<1>10. OneReport'
  <2>1. \A k : Unseen(k, "suspended")' => k = Len(events) + 1 /\ events'[k].line = tline
    BY <1>5, <1>7, <1>8
  <2>2. \A k : Unseen(k, "suspended")' => WaitsAt(events[k].line)'
    BY <2>1, <1>2, <1>4 DEF WaitsAt
  <2> QED BY <2>1, <2>2, <1>1, <1>4, <1>5 DEF OneReport
<1> QED BY <1>4, <1>9, <1>10 DEF TurnState

\* One step per action of serve, its reader and its target.
LEMMA TurnServeStep ==
  ASSUME SessionTypeOK, TurnState, ServeProcess, faults' = 0
  PROVE  TurnState'
<1>0. /\ TypeOK /\ seen \in Nat /\ eof = FALSE /\ UNCHANGED clientvars /\ Pipe /\ NoStop
  BY DEF SessionTypeOK, ServeProcess, TurnState, Pipe
<1>f. ~Fault
  BY <1>0 DEF Fault, TypeOK
<1>n. pc \notin {"abort", "aborting"} /\ cur.kind # "stop"
  BY <1>0 DEF NoStop
<1>e. \A e \in EventKinds, l \in Nat, i \in Infos : Event(e, l, i) \in Events /\ Event(e, l, i).event = e
  BY EventsTyped
<1>k. /\ {"bp_set", "locals", "error", "terminated"} \subseteq EventKinds \ {"ready", "suspended"}
      /\ {None, "ok", "rejected", "raised", "aborted", "no_session", "bad_command", "failed", "output"}
           \subseteq Infos
  BY DEF EventKinds, Infos
<1> USE DEF iovars, readervars, servevars, threadvars
<1>1. CASE Reader
  <2>1. CASE ReadCommand
    <3>1. Pipe' /\ (GoInFlight' => GoInFlight)
      BY <2>1, <1>0, PipeRead
    <3> QED BY <2>1, <3>1, <1>0, TurnServe DEF ReadCommand, tvars
  <2>2. CASE ReadBadLine
    <3>1. Pipe' /\ (GoInFlight' => GoInFlight)
      BY <2>2, <1>0, PipeRead
    <3> QED BY <2>2, <3>1, <1>0, <1>e, <1>k, TurnServe DEF ReadBadLine, tvars
  <2>3. CASE ReadEof
    BY <2>3, <1>0 DEF ReadEof
  <2> QED BY <1>1, <2>1, <2>2, <2>3 DEF Reader
<1>2. CASE Target
  <2>1. CASE SessionStep
    <3>1. UNCHANGED <<written, nread, cmds, cur, pc, events>>
      BY <2>1 DEF SessionStep
    <3>2. Pipe' /\ (GoInFlight' => GoInFlight)
      BY <3>1, <1>0, <1>n, PipeFrame
    <3>3. tstate = "suspended" => tstate' = "suspended" /\ tline' = tline
      BY <2>1 DEF SessionStep, Boot, BootFails, Advance, Complete, Raise, WaitExpires, TimeoutBehaviour
    <3> QED BY <3>1, <3>2, <3>3, <1>0, TurnServe
  <2>2. CASE SessionKilled
    BY <2>2, <1>f DEF SessionKilled
  <2>3. CASE ExecuteReturned \/ SignalDone
    <3>1. UNCHANGED <<written, nread, cmds, cur, pc, events, tstate, tline>>
      BY <2>3 DEF ExecuteReturned, SignalDone, tvars
    <3>2. Pipe' /\ (GoInFlight' => GoInFlight)
      BY <3>1, <1>0, <1>n, PipeFrame
    <3> QED BY <3>1, <3>2, <1>0, TurnServe
  <2> QED BY <1>2, <2>1, <2>2, <2>3 DEF Target
<1>3. CASE Startup
  <2>1. CASE Announce
    BY <2>1, <1>0, TurnAnnounce
  <2>2. CASE StartupCrash
    BY <2>2, <1>f DEF StartupCrash
  <2>3. CASE Synchronize \/ PollAgain \/ NoSession \/ ResolveUser
    <3>1. UNCHANGED <<written, nread, cmds, cur, tstate, tline>> /\ pc' \notin {"cont", "abort", "aborting"}
      BY <2>3 DEF Synchronize, PollAgain, NoSession, ResolveUser, tvars
    <3>2. Pipe' /\ (GoInFlight' => GoInFlight)
      BY <3>1, <1>0, PipeFrame
    <3>3. UNCHANGED events \/ \E ev \in Events : Emit(ev) /\ ev.event \notin {"ready", "suspended"}
      <4>1. CASE NoSession
        <5>1. PICK i \in Infos : Emit(Event("terminated", 0, i))
          BY <4>1, <1>0, <1>k DEF NoSession, TypeOK
        <5> QED BY <5>1, <1>e, <1>k
      <4> QED BY <2>3, <4>1 DEF Synchronize, PollAgain, ResolveUser
    <3>4. pc' \in StartingPCs => pc \in StartingPCs
      BY <2>3 DEF Synchronize, PollAgain, NoSession, ResolveUser, StartingPCs
    <3> QED BY <3>1, <3>2, <3>3, <3>4, <1>0, TurnServe
  <2> QED BY <1>3, <2>1, <2>2, <2>3 DEF Startup
<1>4. CASE Commanding
  <2>1. CASE TakeCommand
    <3>1. Pipe' /\ (GoInFlight' => GoInFlight)
      BY <2>1, <1>0, PipeTake
    <3> QED BY <2>1, <3>1, <1>0, TurnServe DEF TakeCommand, tvars, StartingPCs
  <2>8. CASE TakeNonObject
    <3>1. Pipe' /\ (GoInFlight' => GoInFlight)
      BY <2>8, <1>0, PipeSkip
    <3> QED BY <2>8, <3>1, <1>0, TurnServe DEF TakeNonObject, tvars, StartingPCs
  <2>2. CASE ContSuspended
    BY <2>2, <1>0, TurnSuspended
  <2>3. CASE GoCmd
    <3>1. UNCHANGED <<written, nread, cmds, cur, events>> /\ pc' = "cont" /\ GoInHand
      BY <2>3 DEF GoCmd, GoInHand
    <3>2. Pipe' /\ (GoInFlight' => GoInFlight)
      BY <3>1, <1>0, PipeFrame
    <3>3. GoInFlight /\ pc' \notin StartingPCs
      BY <3>1, FlightParts DEF StartingPCs
    <3> QED BY <3>1, <3>2, <3>3, <1>0, TurnServe
  <2>4. CASE SetBreakpointCmd \/ LocalsCmd \/ UnknownCmd
    <3>1. UNCHANGED <<written, nread, cmds, tstate, tline>> /\ cur' = NoCmd /\ pc' = "idle"
      BY <2>4 DEF SetBreakpointCmd, SetBreakpoint, LocalsCmd, UnknownCmd, Answer, tvars
    <3>2. Pipe' /\ (GoInFlight' => GoInFlight)
      BY <3>1, <1>0, PipeFrame
    <3>3. \E ev \in Events : Emit(ev) /\ ev.event \notin {"ready", "suspended"}
      <4>1. CASE SetBreakpointCmd
        <5>1. PICK i \in Infos : Emit(Event("bp_set", cur.line, i))
          BY <4>1, <1>k DEF SetBreakpointCmd, Answer
        <5>2. cur.line \in Nat
          BY <1>0 DEF TypeOK, Commands, NoCmd
        <5> QED BY <5>1, <5>2, <1>e, <1>k
      <4>2. CASE LocalsCmd
        <5>1. Emit(Event("locals", last, None)) /\ last \in Nat
          BY <4>2, <1>0, LinesAssumption DEF LocalsCmd, Answer, TypeOK
        <5> QED BY <5>1, <1>e, <1>k
      <4>3. CASE UnknownCmd
        <5>1. Emit(Event("error", 0, "bad_command"))
          BY <4>3 DEF UnknownCmd, Answer
        <5> QED BY <5>1, <1>e, <1>k
      <4> QED BY <2>4, <4>1, <4>2, <4>3
    <3> QED BY <3>1, <3>2, <3>3, <1>0, TurnServe DEF StartingPCs
  <2>5. CASE ContOver
    <3>1. UNCHANGED <<written, nread, cmds, cur, events, tstate, tline>> /\ pc' = "detach"
      BY <2>5 DEF ContOver, Finish, tvars
    <3>2. Pipe' /\ (GoInFlight' => GoInFlight)
      BY <3>1, <1>0, PipeFrame
    <3> QED BY <3>1, <3>2, <1>0, TurnServe DEF StartingPCs
  <2>6. CASE ContTimesOut \/ CommandFails \/ StopCmdAbortFails
    BY <2>6, <1>f DEF ContTimesOut, CommandFails, StopCmdAbortFails
  <2>7. CASE StopCmdDelete \/ StopCmdAbort \/ StopCmdFinish
    BY <2>7, <1>n DEF StopCmdDelete, StopCmdAbort, StopCmdFinish
  <2> QED BY <1>4, <2>1, <2>2, <2>3, <2>4, <2>5, <2>6, <2>7, <2>8 DEF Commanding
<1>5. CASE Finishing
  <2>1. CASE DetachFails \/ DrainFails
    BY <2>1, <1>f DEF DetachFails, DrainFails
  <2>2. CASE Detach \/ WaitTarget \/ Drain \/ Report \/ CloseConnections
    <3>1. /\ UNCHANGED <<written, nread, cmds, tstate, tline>> /\ (UNCHANGED cur \/ cur' = NoCmd)
          /\ pc' \notin {"cont", "abort", "aborting"} \cup StartingPCs
      BY <2>2 DEF Detach, DetachSession, WaitTarget, Drain, Report, CloseConnections, tvars, StartingPCs
    <3>2. Pipe' /\ (GoInFlight' => GoInFlight)
      BY <3>1, <1>0, PipeFrame
    <3>3. UNCHANGED events \/ \E ev \in Events : Emit(ev) /\ ev.event \notin {"ready", "suspended"}
      <4>1. CASE Report
        <5>1. PICK i \in Infos : Emit(Event("terminated", 0, i))
          BY <4>1, <1>0, <1>k DEF Report, TypeOK
        <5> QED BY <5>1, <1>e, <1>k
      <4> QED BY <2>2, <4>1 DEF Detach, WaitTarget, Drain, CloseConnections
    <3> QED BY <3>1, <3>2, <3>3, <1>0, TurnServe
  <2> QED BY <1>5, <2>1, <2>2 DEF Finishing
<1> QED BY <1>1, <1>2, <1>3, <1>4, <1>5 DEF ServeProcess, Serve

----
(* The client's steps. *)

\* One step per action of the engine, its tasks and the user.
LEMMA TurnStep == SessionTypeOK /\ TurnInv /\ [SessionNext]_svars => TurnInv'
<1> SUFFICES ASSUME SessionTypeOK, TurnInv, [SessionNext]_svars, ~stopped', faults' = 0
             PROVE  TurnState'
  BY DEF TurnInv, TurnState, Pipe
<1> USE DEF enginevars, uivars, bpvars, locvars
<1>0. TypeOK /\ seen \in Nat /\ (waiting => stopped)
  BY DEF SessionTypeOK
<1>s. ASSUME NEW k \in Kinds, NEW l \in Nat, Send(k, l)
      PROVE  UNCHANGED <<events, pc, tstate, tline, faults>>
  BY <1>s DEF Send, servevars, tvars
<1>t. ASSUME TurnState PROVE /\ Pipe /\ StartsOnce /\ OneReport
                             /\ ui = "paused" => ~GoInFlight /\ started /\ \A k : ~Unseen(k, "suspended")
                             /\ \A k : Unseen(k, "suspended") => ~GoInFlight /\ started /\ ui # "paused"
  BY <1>t DEF TurnState, OneReport, WaitsAt
<1>1. CASE User
  <2>1. ASSUME NEW b \in Bps, Register(b) \/ Unregister(b) PROVE TurnState'
    <3>1. UNCHANGED vars /\ UNCHANGED <<ready, started, shown, ui, engine, seen, stopped, faults>>
      BY <2>1 DEF Register, Unregister, vars
    <3> QED BY <3>1, <1>0, TurnClient DEF TurnInv, TurnState, Pipe
  <2>2. ASSUME NEW k \in {"continue"} \cup StepFlags, Send(k, 0), ui = "paused", ui' = "running",
               UNCHANGED <<ready, started, engine, seen, stopped>>
        PROVE  TurnState'
    <3>1. k \in Kinds \ {"stop"} /\ UNCHANGED <<events, pc, tstate, tline, faults>>
      BY <2>2, <1>s, ClientKinds DEF StepFlags
    <3>2. TurnState
      BY <2>2, <3>1 DEF TurnInv, TurnState, Pipe
    <3>3. Pipe'
      BY <3>1, <3>2, <2>2, <1>0, <1>t, PipeSend
    <3>4. \A j, e : Unseen(j, e)' => Unseen(j, e)
      BY <2>2, <3>1, UnseenSame
    <3>5. started /\ engine \notin {"lock", "drain", "run"}
      BY <2>2, <3>2, <1>t DEF StartsOnce
    <3> QED BY <2>2, <3>1, <3>2, <3>3, <3>4, <3>5, <1>t, TurnGoes DEF TurnState
  <2>3. CASE Resume
    BY <2>2, <2>3 DEF Resume
  <2>4. ASSUME NEW cmd \in StepFlags, BeginStep(cmd) PROVE TurnState'
    BY <2>2, <2>4 DEF BeginStep
  <2>5. CASE Stop
    BY <2>5 DEF Stop
  <2> QED BY <1>1, <2>1, <2>3, <2>4, <2>5 DEF User
<1>2. CASE Pooled
  <2>1. ASSUME NEW k \in {"set_breakpoint", "locals"}, NEW l \in Nat, Send(k, l),
               UNCHANGED <<enginevars, uivars>>
        PROVE  TurnState'
    <3>1. k \in Kinds \ ({"stop"} \cup GoKinds) /\ UNCHANGED faults
      BY <2>1, <1>s, ClientKinds DEF GoKinds, StepFlags
    <3>2. TurnState
      BY <2>1, <3>1 DEF TurnInv, TurnState, Pipe
    <3> QED BY <2>1, <3>1, <3>2, <1>0, TurnSend
  <2>2. ASSUME NEW b \in Bps, AddTask(b) PROVE TurnState'
    <3>1. CASE SendBreakpoint(b)
      BY <2>1, <3>1, ClientKinds DEF SendBreakpoint
    <3>2. CASE AddBreakpoint(b) \/ QueueBreakpoint(b) \/ ReadCounter(b)
      <4>1. UNCHANGED vars /\ UNCHANGED <<enginevars, uivars, faults>>
        BY <3>2 DEF AddBreakpoint, QueueBreakpoint, ReadCounter, vars
      <4> QED BY <4>1, <1>0, TurnClient DEF TurnInv, TurnState, Pipe
    <3> QED BY <2>2, <3>1, <3>2 DEF AddTask
  <2>3. CASE KillServe
    BY <2>3, <1>0 DEF KillServe, clientvars
  <2>4. ASSUME NEW r \in LocalsReqs, AskLocals(r) PROVE TurnState'
    <3>1. UNCHANGED vars /\ UNCHANGED <<enginevars, uivars, faults>>
      BY <2>4 DEF AskLocals, vars
    <3> QED BY <3>1, <1>0, TurnClient DEF TurnInv, TurnState, Pipe
  <2>5. ASSUME NEW r \in LocalsReqs, SendLocals(r) PROVE TurnState'
    BY <2>1, <2>5 DEF SendLocals
  <2> QED BY <1>2, <2>2, <2>3, <2>4, <2>5 DEF Pooled
<1>3. CASE Engine
  <2>1. CASE SpawnServe \/ LockQueue \/ DrainQueued \/ Drained \/ OnLocals \/ OnOther
    <3>1. /\ UNCHANGED vars /\ UNCHANGED <<ready, started, shown, ui, stopped, faults>>
          /\ engine' \in {"lock", "drain", "run"} => engine \in {"lock", "drain", "run"}
          /\ UNCHANGED seen \/ (seen' = seen + 1 /\ seen < Len(events))
      BY <2>1 DEF SpawnServe, LockQueue, DrainQueued, Drained, OnLocals, OnOther, Reading, vars
    <3> QED BY <3>1, <1>0, TurnClient DEF TurnInv, TurnState, Pipe
  <2>2. CASE StartFails \/ EndLoop
    BY <2>2 DEF StartFails, EndLoop
  <2>3. CASE OnReady
    <3>1. /\ UNCHANGED <<written, nread, cmds, cur, pc, events, tstate, tline, faults, stopped>>
          /\ UNCHANGED <<started, shown, ui>> /\ ready' = TRUE /\ engine' = "lock"
          /\ seen' = seen + 1 /\ seen < Len(events) /\ NextEvent.event = "ready"
      BY <2>3 DEF OnReady, Reading, vars, tvars
    <3>2. TurnState
      BY <3>1 DEF TurnInv, TurnState, Pipe
    <3>3. (GoInFlight' => GoInFlight) /\ Pipe'
      BY <3>1, <3>2 DEF GoInFlight, TurnState, Pipe, NoStop, OneGo, GoInHand, GoQueued, GoUnread
    <3>4. /\ \A k, e : Unseen(k, e)' => Unseen(k, e) /\ events'[k] = events[k] /\ k # seen + 1
          /\ Unseen(seen + 1, "ready")
      <4>1. events \in Seq(Events)
        BY <1>0 DEF TypeOK
      <4> QED BY <3>1, <4>1, <1>0, UnseenRead
    <3>5. \A k : ~Unseen(k, "ready")'
      BY <3>2, <3>4 DEF TurnState, StartsOnce
    <3>6. ~ready /\ ~started /\ pc \notin StartingPCs
      BY <3>2, <3>4 DEF TurnState, StartsOnce
    <3>7. StartsOnce'
      BY <3>1, <3>5, <3>6 DEF StartsOnce
    <3>8. \A l : WaitsAt(l) => WaitsAt(l)'
      BY <3>1, <3>3 DEF WaitsAt
    <3>9. OneReport'
      BY <3>1, <3>2, <3>3, <3>4, <3>8 DEF TurnState, OneReport
    <3> QED BY <3>3, <3>7, <3>9 DEF TurnState
  <2>4. CASE SendRun
    <3>1. "run" \in Kinds \ {"stop"} /\ Send("run", 0) /\ UNCHANGED <<events, pc, tstate, tline, faults>>
      BY <2>4, <1>s, ClientKinds DEF SendRun
    <3>2. /\ UNCHANGED <<ready, stopped, seen, ui>> /\ started' = TRUE
          /\ engine = "run" /\ engine' = "reading"
      BY <2>4 DEF SendRun
    <3>3. TurnState
      BY <3>1, <3>2 DEF TurnInv, TurnState, Pipe
    <3>4. ready /\ ~started /\ ~GoInFlight /\ ui # "paused" /\ \A k : ~Unseen(k, "suspended")
      BY <3>2, <3>3 DEF TurnState, StartsOnce, OneReport
    <3>5. Pipe'
      BY <3>1, <3>3, <3>4, <1>0, PipeSend DEF TurnState
    <3>6. \A j, e : Unseen(j, e)' => Unseen(j, e)
      BY <3>1, <3>2, UnseenSame
    <3> QED BY <3>1, <3>2, <3>3, <3>4, <3>5, <3>6, TurnGoes DEF TurnState
  <2>5. ASSUME Reading, NextEvent.event = "suspended", seen' = seen + 1, UNCHANGED <<events, stopped, faults>>
        PROVE  /\ TurnState /\ ~GoInFlight /\ WaitsAt(NextEvent.line) /\ started /\ ui # "paused"
               /\ \A k : ~Unseen(k, "suspended")'
               /\ \A k, e : Unseen(k, e)' => Unseen(k, e)
    <3>1. TurnState
      BY <2>5 DEF TurnInv, TurnState, Pipe
    <3>2. /\ \A k, e : Unseen(k, e)' => Unseen(k, e) /\ events'[k] = events[k] /\ k # seen + 1
          /\ Unseen(seen + 1, "suspended")
      <4>1. events \in Seq(Events) /\ seen < Len(events)
        BY <1>0, <2>5 DEF TypeOK, Reading
      <4> QED BY <2>5, <4>1, <1>0, UnseenRead
    <3>3. WaitsAt(NextEvent.line) /\ started /\ ui # "paused"
      BY <3>1, <3>2 DEF TurnState, OneReport, NextEvent
    <3>4. \A k : ~Unseen(k, "suspended")'
      BY <3>1, <3>2 DEF TurnState, OneReport
    <3> QED BY <3>1, <3>2, <3>3, <3>4 DEF WaitsAt
  <2>6. CASE Surface
    <3>1. /\ UNCHANGED <<written, nread, cmds, cur, pc, events, tstate, tline, faults, stopped>>
          /\ UNCHANGED <<ready, started, engine>> /\ ui' = "paused" /\ shown' = NextEvent.line
          /\ Reading /\ NextEvent.event = "suspended" /\ seen' = seen + 1
      BY <2>6 DEF Surface, vars, tvars
    <3>2. /\ TurnState /\ ~GoInFlight /\ WaitsAt(NextEvent.line) /\ started
          /\ \A k : ~Unseen(k, "suspended")'
          /\ \A k, e : Unseen(k, e)' => Unseen(k, e)
      BY <3>1, <2>5
    <3>3. (GoInFlight' => GoInFlight) /\ Pipe'
      BY <3>1, <3>2 DEF GoInFlight, TurnState, Pipe, NoStop, OneGo, GoInHand, GoQueued, GoUnread
    <3>4. WaitsAt(shown)'
      BY <3>1, <3>2, <3>3 DEF WaitsAt
    <3>5. StartsOnce'
      BY <3>1, <3>2 DEF TurnState, StartsOnce
    <3>6. OneReport'
      BY <3>1, <3>2, <3>3, <3>4 DEF OneReport
    <3> QED BY <3>3, <3>5, <3>6 DEF TurnState
  <2>7. CASE HopAgain
    <3>1. /\ Send(activeStep.cmd, 0) /\ Reading /\ NextEvent.event = "suspended" /\ seen' = seen + 1
          /\ UNCHANGED <<ready, started, engine, stopped, ui>>
      BY <2>7 DEF HopAgain
    <3>2. activeStep.cmd \in StepFlags
      BY <2>7 DEF HopAgain, StaysOnLine, SessionTypeOK
    <3>3. activeStep.cmd \in Kinds \ {"stop"} /\ UNCHANGED <<events, pc, tstate, tline, faults>>
      BY <3>1, <3>2, <1>s, ClientKinds DEF StepFlags
    <3>4. /\ TurnState /\ ~GoInFlight /\ started /\ ui # "paused"
          /\ \A k : ~Unseen(k, "suspended")'
          /\ \A k, e : Unseen(k, e)' => Unseen(k, e)
      BY <3>1, <3>3, <2>5
    <3>5. Pipe'
      BY <3>1, <3>3, <3>4, <1>0, PipeSend DEF TurnState
    <3>6. engine \notin {"lock", "drain", "run"}
      BY <3>1 DEF Reading
    <3> QED BY <3>1, <3>3, <3>4, <3>5, <3>6, TurnGoes DEF TurnState
  <2> QED BY <1>3, <2>1, <2>2, <2>3, <2>4, <2>6, <2>7 DEF Engine
<1>4. CASE ServeProcess
  <2>1. UNCHANGED stopped
    BY <1>4 DEF ServeProcess, clientvars
  <2>2. faults = 0
    BY <1>4, <1>0
    DEF ServeProcess, Serve, Startup, Synchronize, PollAgain, NoSession, Announce, ResolveUser, StartupCrash,
        Commanding, TakeCommand, TakeNonObject, SetBreakpointCmd, GoCmd, ContSuspended, ContOver, ContTimesOut,
        LocalsCmd, UnknownCmd, StopCmdDelete, StopCmdAbort, StopCmdFinish, StopCmdAbortFails, CommandFails,
        Finishing, Detach, DetachFails, WaitTarget, Drain, DrainFails, Report, CloseConnections,
        Reader, ReadCommand, ReadBadLine, ReadEof, Target, SessionStep, SessionKilled, ExecuteReturned,
        SignalDone, Fault, TypeOK
  <2> QED BY <1>4, <2>1, <2>2, TurnServeStep DEF TurnInv, TurnState, Pipe
<1>5. CASE UNCHANGED svars
  <2>1. UNCHANGED vars /\ UNCHANGED <<enginevars, uivars, faults>>
    BY <1>5 DEF svars, clientvars, vars
  <2> QED BY <2>1, <1>0, TurnClient DEF TurnInv, TurnState, Pipe
<1> QED BY <1>1, <1>2, <1>3, <1>4, <1>5 DEF SessionNext

LEMMA TurnInit == SessionInit => TurnInv
<1> SUFFICES ASSUME SessionInit PROVE TurnState
  BY DEF TurnInv, TurnState, Pipe
<1>1. /\ written = <<>> /\ cmds = <<>> /\ events = <<>> /\ nread = 0 /\ seen = 0
      /\ cur = NoCmd /\ pc = "poll"
      /\ ~ready /\ ~started /\ ui = "running" /\ engine = "starting"
  BY DEF SessionInit, Init
<1>2. Len(written) = 0 /\ Len(cmds) = 0 /\ Len(events) = 0
  BY <1>1
<1>3. NoCmd.kind = None /\ None \notin GoKinds /\ None # "stop"
  BY DEF NoCmd, None, GoKinds, StepFlags
<1>4. /\ \A k, e : ~Unseen(k, e)
      /\ ~GoInHand /\ \A q : ~GoQueued(q)
      /\ \A i : ~GoUnread(i)
  BY <1>1, <1>2, <1>3 DEF Unseen, GoInHand, GoQueued, GoUnread
<1>5. NoStop
  BY <1>1, <1>2, <1>3 DEF NoStop
<1>6. OneGo
  BY <1>1, <1>4 DEF OneGo
<1>7. StartsOnce
  BY <1>1, <1>4 DEF StartsOnce
<1>8. OneReport
  BY <1>1, <1>4, FlightParts DEF OneReport
<1> QED BY <1>5, <1>6, <1>7, <1>8 DEF TurnState, Pipe

\* A session that shows a paused program shows the line the target is really
\* suspended at, and no command is on its way that would move it: across both
\* processes, for every program, breakpoints, steps and hops.
THEOREM PausedIsPausedHolds == SessionSpec => []PausedIsPaused
<1>1. SessionInit => SessionTypeOK /\ TurnInv
  BY SessionTypeInit, TurnInit
<1>2. SessionTypeOK /\ TurnInv /\ [SessionNext]_svars => (SessionTypeOK /\ TurnInv)'
  BY SessionTypeStep, TurnStep
<1>3. TurnInv => PausedIsPaused
  BY DEF TurnInv, OneReport, WaitsAt, PausedIsPaused
<1> QED BY <1>1, <1>2, <1>3, PTL DEF SessionSpec
====
