---- MODULE DebugServe_proofs ----
(***************************************************************************)
(* Theorems about DebugServe, for every block, every bound and every set   *)
(* of input lines.                                                         *)
(***************************************************************************)
EXTENDS DebugServe, TLAPS

----
(* Type correctness. *)

\* What a call or a step does to the target keeps its type.
LEMMA TargetTypeStep ==
  ASSUME TargetTypeOK
  PROVE  /\ Boot \/ BootFails \/ Advance \/ Complete \/ Raise \/ WaitExpires(TimeoutBehaviour)
              \/ Killed => TargetTypeOK'
         /\ \A f \in Flags : Continue(f) => TargetTypeOK'
         /\ \A l \in Nat : SetBreakpoint(l) => TargetTypeOK'
         /\ DetachSession => TargetTypeOK'
<1> USE DEF TargetTypeOK, TargetStates, Flags, StepFlags
<1>1. Advance => TargetTypeOK'
  BY FlowAssumption DEF Advance
<1>2. Boot \/ BootFails \/ Complete \/ Raise \/ WaitExpires(TimeoutBehaviour) \/ Killed
        => TargetTypeOK'
  BY DEF Boot, BootFails, Complete, Raise, WaitExpires, Killed
<1>3. \A f \in Flags : Continue(f) => TargetTypeOK'
  BY DEF Continue
<1>4. \A l \in Nat : SetBreakpoint(l) => TargetTypeOK'
  BY DEF SetBreakpoint
<1>5. DetachSession => TargetTypeOK'
  BY DEF DetachSession
<1> QED BY <1>1, <1>2, <1>3, <1>4, <1>5

\* The initial state is well typed.
LEMMA TypeInit == Init => TypeOK
<1> SUFFICES ASSUME Init PROVE TypeOK OBVIOUS
<1>1. TargetTypeOK
  BY DEF Init, TargetInit, TargetTypeOK, TargetStates, Flags
<1>2. /\ pc \in PCs /\ reader \in {"off", "reading", "ended"}
      /\ eof \in BOOLEAN /\ out \in {None, "output", "late"} /\ target_done \in BOOLEAN
      /\ tthread \in {"executing", "returned", "done"}
  BY DEF Init, PCs, StartingPCs
<1>3. cur \in Commands \cup {NoCmd} /\ fin \in {None, "aborted"} /\ target_error \in {None, "raised"}
  BY DEF Init
<1>4. written \in Seq(Commands) /\ cmds \in Seq(Commands) /\ events \in Seq(Events)
  BY DEF Init
<1>5. nread \in Nat /\ faults \in Nat /\ last \in {0} \cup Lines
  BY DEF Init
<1> QED BY <1>1, <1>2, <1>3, <1>4, <1>5 DEF TypeOK

\* Every step of every actor keeps the types.
LEMMA TypeStep == TypeOK /\ [Next]_vars => TypeOK'
<1> SUFFICES ASSUME TypeOK, [Next]_vars PROVE TypeOK' OBVIOUS
<1> USE DEF TypeOK, iovars, readervars, servevars, threadvars, PCs, StartingPCs, FinishPCs
<1>t. UNCHANGED tvars => TargetTypeOK'
  BY DEF tvars, TargetTypeOK
<1>1. ASSUME NEW c \in Inputs, Write(c) PROVE TypeOK'
  BY <1>1, <1>t, InputsAssumption DEF Write
<1>2. CASE CloseStdin
  BY <1>2, <1>t DEF CloseStdin
<1>3. CASE Reader
  <2>1. CASE ReadCommand
    BY <2>1, <1>t DEF ReadCommand
  <2>2. CASE ReadBadLine
    BY <2>2, <1>t DEF ReadBadLine, Emit, Event, Events, EventKinds, Infos
  <2>3. CASE ReadEof
    BY <2>3, <1>t DEF ReadEof, StopCmd, Commands, Kinds
  <2> QED BY <1>3, <2>1, <2>2, <2>3 DEF Reader
<1>4. CASE Target
  <2>1. CASE SessionStep
    BY <2>1, TargetTypeStep DEF SessionStep
  <2>2. CASE SessionKilled
    BY <2>2, TargetTypeStep DEF SessionKilled, Fault
  <2>3. CASE ExecuteReturned
    BY <2>3, <1>t DEF ExecuteReturned
  <2>4. CASE SignalDone
    BY <2>4, <1>t DEF SignalDone
  <2> QED BY <1>4, <2>1, <2>2, <2>3, <2>4 DEF Target
<1>5. CASE Startup
  <2>1. CASE Synchronize
    BY <2>1, <1>t DEF Synchronize
  <2>2. CASE PollAgain
    BY <2>2, <1>t DEF PollAgain
  <2>3. CASE NoSession
    BY <2>3, <1>t DEF NoSession, Emit, Event, Events, EventKinds, Infos
  <2>4. CASE Announce
    BY <2>4, <1>t DEF Announce, Emit, Event, Events, EventKinds, Infos
  <2>5. CASE ResolveUser
    BY <2>5, <1>t DEF ResolveUser
  <2>6. CASE StartupCrash
    BY <2>6, <1>t DEF StartupCrash, Fault
  <2> QED BY <1>5, <2>1, <2>2, <2>3, <2>4, <2>5, <2>6 DEF Startup
<1>6. CASE Commanding
  <2>c. cur.line \in Nat
    BY DEF Commands, NoCmd
  <2>1. CASE TakeCommand
    BY <2>1, <1>t DEF TakeCommand
  <2>14. CASE TakeNonObject
    BY <2>14, <1>t DEF TakeNonObject
  <2>2. CASE SetBreakpointCmd
    BY <2>2, <2>c, TargetTypeStep
    DEF SetBreakpointCmd, Answer, Emit, Event, Events, EventKinds, Infos
  <2>3. CASE GoCmd
    <3>1. FlagOf(cur.kind) \in Flags
      BY <2>3 DEF GoCmd, FlagOf, GoKinds, StepFlags, Flags
    <3> QED BY <2>3, <3>1, TargetTypeStep DEF GoCmd
  <2>4. CASE ContSuspended
    <3>1. tline \in Nat /\ tline \in {0} \cup Lines
      BY LinesAssumption DEF TargetTypeOK
    <3> QED BY <2>4, <1>t, <3>1 DEF ContSuspended, Answer, Emit, Event, Events, EventKinds, Infos
  <2>5. CASE ContOver
    BY <2>5, <1>t DEF ContOver, Finish
  <2>6. CASE ContTimesOut
    <3>1. CASE Finish(None)
      BY <2>6, <1>t, <3>1 DEF ContTimesOut, Fault, Finish, Answer, Emit
    <3>2. CASE Answer(Event("suspended", 0, "timeout"))
      <4>1. Event("suspended", 0, "timeout") \in Events
        BY DEF Event, Events, EventKinds, Infos
      <4> QED BY <2>6, <1>t, <3>2, <4>1 DEF ContTimesOut, Fault, Finish, Answer, Emit
    <3> QED BY <2>6, <3>1, <3>2 DEF ContTimesOut
  <2>7. CASE LocalsCmd
    <3>1. last \in Nat
      BY LinesAssumption
    <3> QED BY <2>7, <1>t, <3>1 DEF LocalsCmd, Answer, Emit, Event, Events, EventKinds, Infos
  <2>8. CASE UnknownCmd
    BY <2>8, <1>t DEF UnknownCmd, Answer, Emit, Event, Events, EventKinds, Infos
  <2>9. CASE StopCmdDelete
    BY <2>9 DEF StopCmdDelete, TargetTypeOK
  <2>10. CASE StopCmdAbort
    <3>1. "abort" \in Flags
      BY DEF Flags
    <3> QED BY <2>10, <3>1, TargetTypeStep DEF StopCmdAbort
  <2>11. CASE StopCmdFinish
    BY <2>11, <1>t DEF StopCmdFinish, Finish
  <2>12. CASE StopCmdAbortFails
    BY <2>12, <1>t DEF StopCmdAbortFails, Fault, Finish
  <2>13. CASE CommandFails
    BY <2>13, <1>t DEF CommandFails, Fault, Finish, Emit, Event, Events, EventKinds, Infos
  <2> QED BY <1>6, <2>1, <2>2, <2>3, <2>4, <2>5, <2>6, <2>7, <2>8, <2>9, <2>10, <2>11, <2>12, <2>13, <2>14
      DEF Commanding
<1>7. CASE Finishing
  <2>1. CASE Detach
    BY <2>1, TargetTypeStep DEF Detach
  <2>2. CASE DetachFails
    BY <2>2, <1>t DEF DetachFails, Fault
  <2>3. CASE WaitTarget
    BY <2>3, <1>t DEF WaitTarget
  <2>4. CASE Drain
    BY <2>4, <1>t DEF Drain
  <2>5. CASE DrainFails
    BY <2>5, <1>t DEF DrainFails, Fault
  <2>6. CASE Report
    BY <2>6, <1>t DEF Report, Emit, Event, Events, EventKinds, Infos
  <2>7. CASE CloseConnections
    BY <2>7, <1>t DEF CloseConnections
  <2> QED BY <1>7, <2>1, <2>2, <2>3, <2>4, <2>5, <2>6, <2>7 DEF Finishing
<1>8. CASE Exited
  BY <1>8, <1>t DEF Exited, vars
<1>9. CASE UNCHANGED vars
  BY <1>9, <1>t DEF vars
<1> QED BY <1>1, <1>2, <1>3, <1>4, <1>5, <1>6, <1>7, <1>8, <1>9 DEF Next, Serve

\* All variables keep their types (the whole of serve(), for every block).
THEOREM TypeCorrect == Spec => []TypeOK
<1>1. Init => TypeOK
  BY TypeInit
<1>2. TypeOK /\ [Next]_vars => TypeOK'
  BY TypeStep
<1> QED BY <1>1, <1>2, PTL DEF Spec

----
(* The drain, and what terminated says of the block. *)

\* When execute() is back the block is over for good, and how it ended is known
\* to the thread that waited for it.
Finality ==
  /\ target_done => tthread = "done"
  /\ tthread # "executing" =>
       tstate \in {"exiting", "over"} /\ (raised => target_error = "raised")
  /\ target_error = "raised" => raised
  /\ tstate = "over" => raised
  /\ tstate = "exiting" /\ debugOn => raised

\* The loop drains, and has drained, only a target that is done without error;
\* past the wait the target is done, or the wait was in vain.
DrainInv ==
  /\ pc = "drain" => target_done /\ target_error = None
  /\ out = "output" => target_done /\ target_error = None
  /\ pc \in {"drain", "report"} => target_done \/ out = "late"

EndInv == TypeOK /\ Finality /\ DrainInv

LEMMA EndInit == Init => EndInv
<1> SUFFICES ASSUME Init PROVE EndInv OBVIOUS
<1>1. TypeOK
  BY TypeInit
<1>2. Finality /\ DrainInv
  BY DEF Init, TargetInit, Finality, DrainInv, None
<1> QED BY <1>1, <1>2 DEF EndInv

\* Steps that leave alone what the two invariants speak of.
LEMMA EndFrame ==
  ASSUME Finality, DrainInv, UNCHANGED <<threadvars, tstate, debugOn, raised, out>>,
         pc' = pc \/ pc' \notin {"drain", "report"}
  PROVE  Finality' /\ DrainInv'
BY DEF Finality, DrainInv, threadvars

\* One step per action that changes the thread, the target or the drain.
LEMMA EndStep == EndInv /\ [Next]_vars => EndInv'
<1> SUFFICES ASSUME EndInv, [Next]_vars PROVE EndInv' OBVIOUS
<1>0. TypeOK /\ Finality /\ DrainInv
  BY DEF EndInv
<1>t. TypeOK'
  BY <1>0, TypeStep
<1> SUFFICES Finality' /\ DrainInv'
  BY <1>t DEF EndInv
<1> USE DEF iovars, readervars, servevars
<1>1. ASSUME NEW c \in Inputs, Write(c) PROVE Finality' /\ DrainInv'
  BY <1>0, <1>1, EndFrame DEF Write, tvars
<1>2. CASE CloseStdin \/ Reader
  BY <1>0, <1>2, EndFrame DEF CloseStdin, Reader, ReadCommand, ReadBadLine, ReadEof, tvars
<1>3. CASE SessionStep
  <2>1. CASE Boot \/ Advance \/ WaitExpires(TimeoutBehaviour)
    BY <1>0, <1>3, <2>1
    DEF SessionStep, Boot, Advance, WaitExpires, TimeoutBehaviour, Finality, DrainInv, threadvars
  <2>2. CASE BootFails \/ Complete \/ Raise
    BY <1>0, <1>3, <2>2
    DEF SessionStep, BootFails, Complete, Raise, Finality, DrainInv, threadvars
  <2> QED BY <1>3, <2>1, <2>2 DEF SessionStep
<1>4. CASE SessionKilled
  BY <1>0, <1>4 DEF SessionKilled, Killed, Finality, DrainInv, threadvars
<1>5. CASE ExecuteReturned
  BY <1>0, <1>5 DEF ExecuteReturned, ExecuteReturns, Finality, DrainInv, tvars, TypeOK
<1>6. CASE SignalDone
  BY <1>0, <1>6 DEF SignalDone, Finality, DrainInv, tvars
<1>7. CASE Startup
  BY <1>0, <1>7, EndFrame
  DEF Startup, Synchronize, PollAgain, NoSession, Announce, ResolveUser, StartupCrash, tvars
<1>8. CASE Commanding
  <2>1. CASE GoCmd \/ StopCmdAbort
    BY <1>0, <2>1 DEF GoCmd, StopCmdAbort, Continue, Finality, DrainInv, threadvars
  <2>2. CASE TakeCommand \/ TakeNonObject \/ SetBreakpointCmd \/ ContSuspended \/ ContOver \/ LocalsCmd
               \/ UnknownCmd \/ StopCmdDelete \/ StopCmdFinish \/ StopCmdAbortFails
    BY <1>0, <2>2, EndFrame
    DEF TakeCommand, TakeNonObject, SetBreakpointCmd, SetBreakpoint, ContSuspended, ContOver, LocalsCmd, UnknownCmd,
        StopCmdDelete, StopCmdFinish, StopCmdAbortFails, Answer, Finish, tvars
  <2>3. CASE ContTimesOut \/ CommandFails
    BY <1>0, <2>3, EndFrame DEF ContTimesOut, CommandFails, Answer, Finish, tvars
  <2> QED BY <1>8, <2>1, <2>2, <2>3 DEF Commanding
<1>9. CASE Finishing
  <2>1. CASE WaitTarget
    BY <1>0, <2>1 DEF WaitTarget, MayDrain, Finality, DrainInv, None, threadvars, tvars
  <2>2. CASE Drain
    BY <1>0, <2>2 DEF Drain, Finality, DrainInv, threadvars, tvars
  <2>4. CASE DrainFails
    BY <1>0, <2>4 DEF DrainFails, Finality, DrainInv, threadvars, tvars
  <2>3. CASE Detach \/ DetachFails \/ Report \/ CloseConnections
    BY <1>0, <2>3, EndFrame
    DEF Detach, DetachSession, DetachFails, Report, CloseConnections, tvars
  <2> QED BY <1>9, <2>1, <2>2, <2>3, <2>4 DEF Finishing
<1>10. CASE Exited \/ UNCHANGED vars
  BY <1>0, <1>10, EndFrame DEF Exited, vars, tvars, threadvars
<1> QED BY <1>1, <1>2, <1>3, <1>4, <1>5, <1>6, <1>7, <1>8, <1>9, <1>10 DEF Next, Target, Serve

\* The invariant holds throughout.
LEMMA EndCorrect == Spec => []EndInv
<1>1. Init => EndInv
  BY EndInit
<1>2. EndInv /\ [Next]_vars => EndInv'
  BY EndStep
<1> QED BY <1>1, <1>2, PTL DEF Spec

\* finish() never drains a session that still waits for a debugger: the hang the
\* comment in finish() warns of cannot happen.
THEOREM DrainSafe == Spec => []DrainsIdleTarget
<1>1. EndInv => DrainsIdleTarget
  BY DEF EndInv, Finality, DrainInv, DrainsIdleTarget, None, TypeOK, TargetTypeOK
<1> QED BY <1>1, EndCorrect, PTL

----
(* The log of events. *)

\* What emitting one more event does to the log.
LEMMA EmitAppends ==
  ASSUME events \in Seq(Events), NEW ev \in Events, Emit(ev)
  PROVE  /\ Len(events') = Len(events) + 1
         /\ events'[Len(events) + 1] = ev
         /\ \A k \in 1..Len(events) : events'[k] = events[k]
         /\ \A e : Emitted(e)' <=> Emitted(e) \/ ev.event = e
<1>1. /\ Len(events') = Len(events) + 1
      /\ events'[Len(events) + 1] = ev
      /\ \A k \in 1..Len(events) : events'[k] = events[k]
  BY DEF Emit
<1>2. \A k \in 1..Len(events') : k \in 1..Len(events) \/ k = Len(events) + 1
  BY <1>1
<1>3. Len(events) \in Nat /\ Len(events) + 1 \in 1..Len(events')
  BY <1>1
<1>4. \A k \in 1..Len(events) : k \in 1..Len(events')
  BY <1>1, <1>3
<1> QED BY <1>1, <1>2, <1>3, <1>4 DEF Emitted

\* The lines that events are about.
LEMMA LinesTyped == TypeOK => cur.line \in Nat /\ last \in Nat /\ tline \in Nat
<1> SUFFICES ASSUME TypeOK PROVE cur.line \in Nat /\ last \in Nat /\ tline \in Nat OBVIOUS
<1>1. cur \in Commands \cup {NoCmd} /\ last \in {0} \cup Lines /\ tline \in {0} \cup Lines
  BY DEF TypeOK, TargetTypeOK
<1>2. cur.line \in Nat
  BY <1>1 DEF Commands, NoCmd
<1> QED BY <1>1, <1>2, LinesAssumption

\* Every event the loop emits is one of Events.
LEMMA EventsTyped ==
  ASSUME NEW e \in EventKinds, NEW l \in Nat, NEW i \in Infos
  PROVE  Event(e, l, i) \in Events /\ Event(e, l, i).event = e /\ Event(e, l, i).info = i
BY DEF Event, Events

Over == {"close", "exit"}

\* Once terminated is out the loop has nothing left to do but close.
OverInv ==
  /\ Emitted("terminated") => pc \in Over
  /\ TerminatedIsLast

LEMMA OverStep == TypeOK /\ OverInv /\ [Next]_vars => OverInv'
<1> SUFFICES ASSUME TypeOK, OverInv, [Next]_vars PROVE OverInv' OBVIOUS
<1> USE DEF iovars, readervars, servevars, threadvars, tvars
<1>0. events \in Seq(Events)
  BY DEF TypeOK
<1>1. ASSUME UNCHANGED events, pc \in Over => pc' \in Over PROVE OverInv'
  BY <1>1 DEF OverInv, Emitted, TerminatedIsLast
\* One more event, while the loop is still at work.
<1>2. ASSUME NEW ev \in Events, Emit(ev), pc \notin Over, ev.event = "terminated" => pc' \in Over
      PROVE  OverInv'
  <2>1. ~Emitted("terminated")
    BY <1>2 DEF OverInv
  <2>2. /\ Len(events') = Len(events) + 1
        /\ events'[Len(events) + 1] = ev
        /\ \A k \in 1..Len(events) : events'[k] = events[k]
        /\ Emitted("terminated")' <=> Emitted("terminated") \/ ev.event = "terminated"
    BY <1>0, <1>2, EmitAppends
  <2>3. \A k \in 1..Len(events') : events'[k].event = "terminated" => k = Len(events')
    BY <1>0, <2>1, <2>2 DEF Emitted
  <2>4. TerminatedIsLast'
    BY <1>0, <2>2, <2>3 DEF TerminatedIsLast
  <2> QED BY <1>2, <2>1, <2>2, <2>4 DEF OverInv
<1>e. ASSUME NEW e \in EventKinds, NEW l \in Nat, NEW i \in Infos, Emit(Event(e, l, i)),
             pc \notin Over, e = "terminated" => pc' \in Over
      PROVE  OverInv'
  BY <1>2, <1>e, EventsTyped
<1>k. EventKinds = {"ready", "bp_set", "suspended", "locals", "error", "terminated"}
      /\ Infos = {None, "ok", "rejected", "breakpoint", "line", "timeout", "raised", "aborted",
                  "no_session", "bad_command", "failed", "output"}
  BY DEF EventKinds, Infos
<1>3. CASE (\E c \in Inputs : Write(c)) \/ CloseStdin \/ ReadCommand \/ ReadEof \/ Target
  BY <1>1, <1>3
  DEF Write, CloseStdin, ReadCommand, ReadEof, Target, SessionStep, SessionKilled,
      ExecuteReturned, SignalDone
<1>4. CASE ReadBadLine
  <2> DEFINE c == Event("error", 0, "bad_command")
  <2>1. c \in Events /\ c.event # "terminated" /\ Emit(c) /\ pc' = pc
    BY <1>4, <1>k, EventsTyped DEF ReadBadLine
  <2>2. /\ Len(events') = Len(events) + 1
        /\ events'[Len(events) + 1] = c
        /\ \A k \in 1..Len(events) : events'[k] = events[k]
        /\ Emitted("terminated")' <=> Emitted("terminated")
    BY <1>0, <2>1, EmitAppends
  <2> HIDE DEF c
  <2>3. ASSUME NEW k \in 1..Len(events'), events'[k].event = "terminated",
               NEW j \in (k + 1)..Len(events')
        PROVE  events'[j] = c
    <3>1. CASE j = Len(events) + 1
      BY <2>2, <3>1
    <3>2. CASE j # Len(events) + 1
      <4>1. k \in 1..Len(events) /\ j \in (k + 1)..Len(events) /\ j \in 1..Len(events)
        BY <1>0, <2>2, <2>3, <3>2
      <4>2. events[k].event = "terminated" /\ events'[j] = events[j]
        BY <2>2, <2>3, <4>1
      <4> QED BY <4>1, <4>2 DEF OverInv, TerminatedIsLast, c
    <3> QED BY <3>1, <3>2
  <2>4. TerminatedIsLast'
    BY <2>3 DEF TerminatedIsLast, c
  <2> QED BY <2>1, <2>2, <2>4 DEF OverInv
<1>5. CASE Startup
  <2>1. CASE Synchronize \/ PollAgain \/ ResolveUser \/ StartupCrash
    BY <1>1, <2>1 DEF Synchronize, PollAgain, ResolveUser, StartupCrash, Over
  <2>2. CASE NoSession
    <3>1. (IF target_error = None THEN "no_session" ELSE target_error) \in Infos
      BY <1>k DEF TypeOK
    <3> QED BY <1>e, <1>k, <2>2, <3>1 DEF NoSession, Over
  <2>3. CASE Announce
    BY <1>e, <1>k, <2>3 DEF Announce, Over
  <2> QED BY <1>5, <2>1, <2>2, <2>3 DEF Startup
<1>6. CASE Commanding
  <2>1. CASE TakeCommand \/ TakeNonObject \/ GoCmd \/ ContOver \/ StopCmdDelete \/ StopCmdAbort \/ StopCmdFinish
               \/ StopCmdAbortFails
    BY <1>1, <2>1
    DEF TakeCommand, TakeNonObject, GoCmd, ContOver, StopCmdDelete, StopCmdAbort, StopCmdFinish, StopCmdAbortFails,
        Over
  <2>2. cur.line \in Nat /\ last \in Nat /\ tline \in Nat
    BY LinesTyped
  <2>3. CASE SetBreakpointCmd
    BY <1>e, <1>k, <2>2, <2>3 DEF SetBreakpointCmd, Answer, Over
  <2>4. CASE ContSuspended
    BY <1>e, <1>k, <2>2, <2>4 DEF ContSuspended, Answer, Over
  <2>5. CASE ContTimesOut
    <3>1. CASE UNCHANGED events
      BY <1>1, <2>5, <3>1 DEF ContTimesOut, Over
    <3>2. CASE Answer(Event("suspended", 0, "timeout"))
      BY <1>e, <1>k, <2>5, <3>2 DEF ContTimesOut, Answer, Over
    <3> QED BY <2>5, <3>1, <3>2 DEF ContTimesOut
  <2>6. CASE LocalsCmd
    BY <1>e, <1>k, <2>2, <2>6 DEF LocalsCmd, Answer, Over
  <2>7. CASE UnknownCmd
    BY <1>e, <1>k, <2>7 DEF UnknownCmd, Answer, Over
  <2>8. CASE CommandFails
    BY <1>e, <1>k, <2>8 DEF CommandFails, Over
  <2> QED BY <1>6, <2>1, <2>3, <2>4, <2>5, <2>6, <2>7, <2>8 DEF Commanding
<1>7. CASE Finishing
  <2>1. CASE Detach \/ DetachFails \/ WaitTarget \/ Drain \/ DrainFails \/ CloseConnections
    BY <1>1, <2>1
    DEF Detach, DetachFails, WaitTarget, Drain, DrainFails, CloseConnections, Over
  <2>2. CASE Report
    <3> DEFINE i == CASE fin # None -> fin
                      [] fin = None /\ target_error # None -> target_error
                      [] OTHER -> IF out = "output" THEN out ELSE None
    <3>1. i \in Infos
      BY <1>k DEF TypeOK
    <3>2. pc \notin Over /\ pc' \in Over /\ Emit(Event("terminated", 0, i))
      BY <2>2 DEF Report, Over
    <3> HIDE DEF i
    <3> QED BY <1>e, <1>k, <3>1, <3>2
  <2> QED BY <1>7, <2>1, <2>2 DEF Finishing
<1>8. CASE Exited \/ UNCHANGED vars
  BY <1>1, <1>8 DEF Exited, vars
<1> QED BY <1>3, <1>4, <1>5, <1>6, <1>7, <1>8 DEF Next, Reader, Serve

LEMMA OverCorrect == Spec => []OverInv
<1>1. Init => TypeOK /\ OverInv
  <2>1. Init => ~Emitted("terminated") /\ TerminatedIsLast
    BY DEF Init, Emitted, TerminatedIsLast
  <2> QED BY <2>1, TypeInit DEF OverInv
<1>2. TypeOK /\ OverInv /\ [Next]_vars => TypeOK' /\ OverInv'
  BY TypeStep, OverStep
<1> QED BY <1>1, <1>2, PTL DEF Spec

\* Nothing but complaints of the reader thread follows terminated (serve, finish).
THEOREM TerminatedLast == Spec => []TerminatedIsLast
<1>1. OverInv => TerminatedIsLast
  BY DEF OverInv
<1> QED BY <1>1, OverCorrect, PTL

----
(* What terminated says of the block. *)

\* A report without an error stands for a target known to be done and well, or
\* for a wait in vain.
Silent == {None, "output", "no_session"}
Truth(i) ==
  /\ i = "output" => ~raised /\ ~debugOn /\ target_done
  /\ i = "raised" => raised
  /\ i \in Silent => (target_done /\ ~raised) \/ out = "late"
ReportInv == \A k \in 1..Len(events) : events[k].event = "terminated" => Truth(events[k].info)

\* It is true when terminated is emitted, and stays so.
LEMMA ReportStep == EndInv /\ OverInv /\ ReportInv /\ [Next]_vars => ReportInv'
<1> SUFFICES ASSUME EndInv, OverInv, ReportInv, [Next]_vars PROVE ReportInv' OBVIOUS
<1>0. TypeOK /\ Finality /\ DrainInv /\ events \in Seq(Events) /\ EndInv'
  BY EndStep DEF EndInv, TypeOK
<1> USE DEF iovars, readervars, servevars, threadvars, tvars
<1>1. ASSUME UNCHANGED <<events, raised, debugOn, target_done, out>> PROVE ReportInv'
  BY <1>1 DEF ReportInv, Truth
<1>2. ASSUME NEW ev \in Events, Emit(ev), UNCHANGED <<raised, debugOn, target_done, out>>,
             ev.event = "terminated" => Truth(ev.info)
      PROVE  ReportInv'
  <2>1. /\ Len(events') = Len(events) + 1
        /\ events'[Len(events) + 1] = ev
        /\ \A k \in 1..Len(events) : events'[k] = events[k]
    BY <1>0, <1>2, EmitAppends
  <2>2. \A k \in 1..Len(events') : k \in 1..Len(events) \/ k = Len(events) + 1
    BY <1>0, <2>1
  <2> QED BY <1>2, <2>1, <2>2 DEF ReportInv, Truth
<1>e. ASSUME NEW e \in EventKinds \ {"terminated"}, NEW l \in Nat, NEW i \in Infos,
             Emit(Event(e, l, i)), UNCHANGED <<raised, debugOn, target_done, out>>
      PROVE  ReportInv'
  BY <1>2, <1>e, EventsTyped
<1>k. {"ready", "bp_set", "suspended", "locals", "error"} \subseteq EventKinds \ {"terminated"}
      /\ {None, "ok", "rejected", "breakpoint", "line", "timeout", "bad_command", "failed"}
           \subseteq Infos
  BY DEF EventKinds, Infos
<1>3. CASE Target
  <2>1. UNCHANGED events
    BY <1>3 DEF Target, SessionStep, SessionKilled, ExecuteReturned, SignalDone
  <2>2. /\ out' = out
        /\ raised => raised'
        /\ target_done => target_done'
        /\ target_done => UNCHANGED <<raised, debugOn>>
    BY <1>0, <1>3
    DEF Target, SessionStep, SessionKilled, ExecuteReturned, SignalDone, Finality,
        Boot, BootFails, Advance, Complete, Raise, WaitExpires, Killed, TypeOK, TargetTypeOK
  <2>3. ASSUME NEW i, Truth(i) PROVE Truth(i)'
    BY <2>2, <2>3 DEF Truth
  <2> QED BY <2>1, <2>3 DEF ReportInv
<1>4. CASE \E c \in Inputs : Write(c)
  BY <1>1, <1>4 DEF Write
<1>5. CASE CloseStdin \/ ReadCommand \/ ReadEof
  BY <1>1, <1>5 DEF CloseStdin, ReadCommand, ReadEof
<1>6. CASE ReadBadLine
  BY <1>e, <1>k, <1>6 DEF ReadBadLine
<1>7. CASE Startup
  <2>1. CASE Synchronize \/ PollAgain \/ ResolveUser \/ StartupCrash
    BY <1>1, <2>1 DEF Synchronize, PollAgain, ResolveUser, StartupCrash
  <2>2. CASE NoSession
    <3> DEFINE i == IF target_error = None THEN "no_session" ELSE target_error
    <3>1. i \in Infos /\ Truth(i)
      BY <1>0, <2>2 DEF NoSession, TypeOK, Finality, Infos, Truth, Silent, None
    <3>2. Event("terminated", 0, i) \in Events /\ Event("terminated", 0, i).info = i
      BY <3>1, EventsTyped DEF EventKinds
    <3> QED BY <1>2, <2>2, <3>1, <3>2 DEF NoSession
  <2>3. CASE Announce
    BY <1>e, <1>k, <2>3 DEF Announce
  <2> QED BY <1>7, <2>1, <2>2, <2>3 DEF Startup
<1>8. CASE Commanding
  <2>1. CASE TakeCommand \/ TakeNonObject \/ GoCmd \/ ContOver \/ StopCmdDelete \/ StopCmdAbort \/ StopCmdFinish
               \/ StopCmdAbortFails
    BY <1>1, <2>1
    DEF TakeCommand, TakeNonObject, GoCmd, ContOver, StopCmdDelete, StopCmdAbort, StopCmdFinish, StopCmdAbortFails,
        Continue
  <2>2. cur.line \in Nat /\ last \in Nat /\ tline \in Nat
    BY <1>0, LinesTyped
  <2>3. CASE SetBreakpointCmd
    BY <1>e, <1>k, <2>2, <2>3 DEF SetBreakpointCmd, SetBreakpoint, Answer
  <2>4. CASE ContSuspended
    BY <1>e, <1>k, <2>2, <2>4 DEF ContSuspended, Answer
  <2>5. CASE ContTimesOut
    <3>1. CASE UNCHANGED events
      BY <1>1, <2>5, <3>1 DEF ContTimesOut
    <3>2. CASE Answer(Event("suspended", 0, "timeout"))
      BY <1>e, <1>k, <2>5, <3>2 DEF ContTimesOut, Answer
    <3> QED BY <2>5, <3>1, <3>2 DEF ContTimesOut
  <2>6. CASE LocalsCmd
    BY <1>e, <1>k, <2>2, <2>6 DEF LocalsCmd, Answer
  <2>7. CASE UnknownCmd
    BY <1>e, <1>k, <2>7 DEF UnknownCmd, Answer
  <2>8. CASE CommandFails
    BY <1>e, <1>k, <2>8 DEF CommandFails
  <2> QED BY <1>8, <2>1, <2>3, <2>4, <2>5, <2>6, <2>7, <2>8 DEF Commanding
<1>9. CASE Finishing
  <2>1. CASE Detach \/ DetachFails \/ DrainFails \/ CloseConnections
    BY <1>1, <2>1 DEF Detach, DetachSession, DetachFails, DrainFails, CloseConnections
  <2>3. CASE WaitTarget \/ Drain
    <3>1. ~Emitted("terminated") /\ UNCHANGED events
      BY <2>3 DEF OverInv, Over, WaitTarget, Drain
    <3> QED BY <3>1 DEF ReportInv, Emitted
  <2>2. CASE Report
    <3> DEFINE i == CASE fin # None -> fin
                      [] fin = None /\ target_error # None -> target_error
                      [] OTHER -> IF out = "output" THEN out ELSE None
    <3>1. i \in Infos /\ Truth(i)
      <4>1. CASE fin # None
        BY <1>0, <4>1 DEF TypeOK, Infos, Truth, Silent, None
      <4>2. CASE fin = None /\ target_error # None
        BY <1>0, <4>2 DEF TypeOK, Finality, Infos, Truth, Silent, None
      <4>3. CASE fin = None /\ target_error = None
        BY <1>0, <2>2, <4>3
        DEF Report, TypeOK, TargetTypeOK, Finality, DrainInv, Infos, None, Truth, Silent
      <4> QED BY <4>1, <4>2, <4>3
    <3>2. Event("terminated", 0, i) \in Events /\ Event("terminated", 0, i).info = i
      BY <3>1, EventsTyped DEF EventKinds
    <3> QED BY <1>2, <2>2, <3>1, <3>2 DEF Report
  <2> QED BY <1>9, <2>1, <2>2, <2>3 DEF Finishing
<1>10. CASE Exited \/ UNCHANGED vars
  BY <1>1, <1>10 DEF Exited, vars
<1> QED BY <1>3, <1>4, <1>5, <1>6, <1>7, <1>8, <1>9, <1>10 DEF Next, Reader, Serve

\* What the terminated event says of the block is true, for every block and
\* whatever fails; and it says nothing of an error of the block only if there was
\* none or wait(15) ran out (finish).
THEOREM ReportTrue == Spec => []ReportIsTrue
<1>1. Init => ReportInv
  BY DEF Init, ReportInv
<1>2. EndInv /\ OverInv /\ ReportInv /\ [Next]_vars => ReportInv'
  BY ReportStep
<1>3. ReportInv => ReportIsTrue
  BY DEF ReportInv, ReportIsTrue, Truth, Silent
<1> QED BY <1>1, <1>2, <1>3, EndCorrect, OverCorrect, PTL DEF Spec

----
(* Who moves the target. *)

\* Unless a database call has failed, the target runs only while the loop waits
\* in continue, or to its end under an abort.
MoveInv == faults = 0 /\ tstate = "running" => pc = "cont" \/ flags = "abort"

\* What a step of the whole system may do to the state of the target.
LEMMA MoveStep ==
  ASSUME TypeOK, MoveInv, [Next]_vars
  PROVE  /\ MoveInv'
         /\ tstate = "suspended" /\ tstate' = "running" => pc \in {"exec", "abort"}
         /\ tline' # tline /\ faults = 0 => pc = "cont"
<1> USE DEF iovars, readervars, servevars, threadvars, tvars
<1> DEFINE Goal == /\ MoveInv'
                   /\ tstate = "suspended" /\ tstate' = "running" => pc \in {"exec", "abort"}
                   /\ tline' # tline /\ faults = 0 => pc = "cont"
<1>1. ASSUME UNCHANGED <<tstate, tline, flags, faults>>,
             pc = "cont" /\ tstate = "running" => pc' = "cont"
      PROVE  Goal
  BY <1>1 DEF MoveInv
<1>2. ASSUME faults' = faults + 1, UNCHANGED tline, tstate' = tstate \/ tstate' = "over"
      PROVE  Goal
  BY <1>2 DEF MoveInv, TypeOK
<1>3. CASE (\E c \in Inputs : Write(c)) \/ CloseStdin \/ Reader
  BY <1>1, <1>3 DEF Write, CloseStdin, Reader, ReadCommand, ReadBadLine, ReadEof
<1>4. CASE SessionStep
  <2>1. CASE Boot \/ BootFails \/ WaitExpires(TimeoutBehaviour)
    BY <1>4, <2>1 DEF SessionStep, Boot, BootFails, WaitExpires, TimeoutBehaviour, MoveInv
  <2>2. CASE Advance \/ Complete \/ Raise
    BY <1>4, <2>2 DEF SessionStep, Advance, Complete, Raise, MoveInv
  <2> QED BY <1>4, <2>1, <2>2 DEF SessionStep
<1>5. CASE SessionKilled
  BY <1>2, <1>5 DEF SessionKilled, Killed, Fault
<1>6. CASE ExecuteReturned \/ SignalDone
  BY <1>1, <1>6 DEF ExecuteReturned, SignalDone
<1>7. CASE Startup
  <2>1. CASE StartupCrash
    BY <1>2, <2>1 DEF StartupCrash, Fault
  <2>2. CASE Synchronize \/ PollAgain \/ NoSession \/ Announce \/ ResolveUser
    BY <1>1, <2>2 DEF Synchronize, PollAgain, NoSession, Announce, ResolveUser
  <2> QED BY <1>7, <2>1, <2>2 DEF Startup
<1>8. CASE Commanding
  <2>1. CASE GoCmd
    BY <2>1 DEF GoCmd, Continue, MoveInv
  <2>2. CASE StopCmdAbort
    BY <2>2 DEF StopCmdAbort, Continue, MoveInv
  <2>3. CASE ContTimesOut \/ StopCmdAbortFails \/ CommandFails
    BY <1>2, <2>3 DEF ContTimesOut, StopCmdAbortFails, CommandFails, Fault
  <2>4. CASE TakeCommand \/ TakeNonObject \/ SetBreakpointCmd \/ LocalsCmd \/ UnknownCmd \/ StopCmdDelete
    BY <1>1, <2>4 DEF TakeCommand, TakeNonObject, SetBreakpointCmd, SetBreakpoint, LocalsCmd, UnknownCmd, StopCmdDelete
  <2>5. CASE ContSuspended \/ ContOver \/ StopCmdFinish
    BY <1>1, <2>5 DEF ContSuspended, ContOver, StopCmdFinish
  <2> QED BY <1>8, <2>1, <2>2, <2>3, <2>4, <2>5 DEF Commanding
<1>9. CASE Finishing
  BY <1>1, <1>2, <1>9
  DEF Finishing, Detach, DetachSession, DetachFails, WaitTarget, Drain, DrainFails, Report,
      CloseConnections, Fault
<1>10. CASE Exited \/ UNCHANGED vars
  BY <1>1, <1>10 DEF Exited, vars
<1> QED BY <1>3, <1>4, <1>5, <1>6, <1>7, <1>8, <1>9, <1>10 DEF Next, Target, Serve

\* The target starts to run on a command only, and gets anywhere only while the
\* loop waits in continue (set_timeout_behaviour, the serve loop).
THEOREM Obedience == Spec => TargetObeys
<1>1. Init => TypeOK /\ MoveInv
  BY TypeInit DEF Init, TargetInit, MoveInv
<1>2. TypeOK /\ MoveInv /\ [Next]_vars =>
        TypeOK' /\ MoveInv'
        /\ [/\ tstate = "suspended" /\ tstate' = "running" => pc \in {"exec", "abort"}
            /\ tline' # tline /\ faults = 0 => pc = "cont"]_vars
  BY TypeStep, MoveStep
<1> QED BY <1>1, <1>2, PTL DEF Spec, TargetObeys

----
(* Where locals are read. *)

Before == StartingPCs \cup {"user"}
Ready == {"idle", "exec"}

\* Nothing has been reported while the session starts; afterwards the target
\* waits where the last report said whenever the loop could read locals.
LocalsInv ==
  /\ pc \in Before => ~Emitted("suspended")
  /\ LocalsAreCurrent

LEMMA LocalsStep == TypeOK /\ LocalsInv /\ [Next]_vars => LocalsInv'
<1> SUFFICES ASSUME TypeOK, LocalsInv, [Next]_vars PROVE LocalsInv' OBVIOUS
<1> USE DEF iovars, readervars, servevars, threadvars, tvars
<1>0. events \in Seq(Events) /\ faults \in Nat
  BY DEF TypeOK
\* The position is not touched, and the loop comes from where it could be read.
<1>1. ASSUME UNCHANGED <<tstate, tline, last, faults>>, Emitted("suspended")' = Emitted("suspended"),
             pc' \in Ready => pc \in Ready \cup Before,
             pc' \in Before => pc \in Before
      PROVE  LocalsInv'
  BY <1>1 DEF LocalsInv, LocalsAreCurrent, Ready, Before
\* The loop is where no locals can be read.
<1>2. ASSUME pc' \notin Ready \cup Before
      PROVE  LocalsInv'
  BY <1>2 DEF LocalsInv, LocalsAreCurrent, Ready, Before
\* A call has failed.
<1>3. ASSUME faults' = faults + 1, pc' \notin Before
      PROVE  LocalsInv'
  BY <1>0, <1>3 DEF LocalsInv, LocalsAreCurrent
<1>4. UNCHANGED events => Emitted("suspended")' = Emitted("suspended")
  BY DEF Emitted
<1>5. ASSUME NEW e \in EventKinds \ {"suspended"}, NEW l \in Nat, NEW i \in Infos,
             Emit(Event(e, l, i))
      PROVE  Emitted("suspended")' = Emitted("suspended")
  <2>1. Event(e, l, i) \in Events /\ Event(e, l, i).event # "suspended"
    BY EventsTyped
  <2>2. Emitted("suspended")' <=> Emitted("suspended")
    BY <1>0, <1>5, <2>1, EmitAppends
  <2> QED BY <2>2 DEF Emitted
<1>k. /\ {"ready", "bp_set", "locals", "error"} \subseteq EventKinds \ {"suspended"}
      /\ {None, "ok", "rejected", "bad_command"} \subseteq Infos
  BY DEF EventKinds, Infos
<1>6. CASE (\E c \in Inputs : Write(c)) \/ CloseStdin \/ ReadCommand \/ ReadEof
  BY <1>1, <1>4, <1>6 DEF Write, CloseStdin, ReadCommand, ReadEof
<1>7. CASE ReadBadLine
  BY <1>1, <1>5, <1>k, <1>7 DEF ReadBadLine
<1>8. CASE SessionStep
  <2>1. CASE pc \in Ready /\ tstate = "suspended"
    BY <1>1, <1>4, <1>8, <2>1
    DEF SessionStep, Boot, BootFails, Advance, Complete, Raise, WaitExpires, TimeoutBehaviour
  <2>2. CASE pc \notin Ready \/ tstate # "suspended"
    <3>1. UNCHANGED <<pc, last, faults, events>>
      BY <1>8 DEF SessionStep
    <3>2. Emitted("suspended")' = Emitted("suspended")
      BY <1>4, <3>1
    <3> QED BY <2>2, <3>1, <3>2 DEF LocalsInv, LocalsAreCurrent, Ready
  <2> QED BY <2>1, <2>2
<1>9. CASE SessionKilled
  <2>1. pc \in Before => ~Emitted("suspended")'
    BY <1>4, <1>9 DEF SessionKilled, LocalsInv
  <2> QED BY <1>0, <1>9, <2>1 DEF SessionKilled, Fault, LocalsInv, LocalsAreCurrent
<1>10. CASE ExecuteReturned \/ SignalDone
  BY <1>1, <1>4, <1>10 DEF ExecuteReturned, SignalDone
<1>11. CASE Startup
  <2>1. CASE Synchronize \/ PollAgain \/ ResolveUser
    BY <1>1, <1>4, <2>1 DEF Synchronize, PollAgain, ResolveUser, Before, StartingPCs, Ready
  <2>2. CASE NoSession \/ StartupCrash
    BY <1>2, <2>2 DEF NoSession, StartupCrash, Before, StartingPCs, Ready
  <2>3. CASE Announce
    BY <1>1, <1>5, <1>k, <2>3 DEF Announce, Before, StartingPCs, Ready
  <2> QED BY <1>11, <2>1, <2>2, <2>3 DEF Startup
<1>12. CASE Commanding
  <2> USE DEF Before, StartingPCs, Ready
  <2>1. CASE TakeCommand
    BY <1>1, <1>4, <2>1 DEF TakeCommand
  <2>9. CASE TakeNonObject
    BY <1>2, <2>9 DEF TakeNonObject
  <2>2. cur.line \in Nat /\ last \in Nat
    BY LinesTyped
  <2>3. CASE SetBreakpointCmd
    BY <1>1, <1>5, <1>k, <2>2, <2>3 DEF SetBreakpointCmd, SetBreakpoint, Answer
  <2>4. CASE LocalsCmd
    BY <1>1, <1>5, <1>k, <2>2, <2>4 DEF LocalsCmd, Answer
  <2>5. CASE UnknownCmd
    BY <1>1, <1>5, <1>k, <2>5 DEF UnknownCmd, Answer
  <2>6. CASE ContSuspended
    BY <2>6 DEF ContSuspended, Answer, LocalsInv, LocalsAreCurrent
  <2>7. CASE ContTimesOut \/ CommandFails
    BY <1>3, <2>7 DEF ContTimesOut, CommandFails, Fault, Answer, Finish
  <2>8. CASE GoCmd \/ ContOver \/ StopCmdDelete \/ StopCmdAbort \/ StopCmdFinish \/ StopCmdAbortFails
    BY <1>2, <2>8
    DEF GoCmd, ContOver, StopCmdDelete, StopCmdAbort, StopCmdFinish, StopCmdAbortFails, Finish
  <2> QED BY <1>12, <2>1, <2>3, <2>4, <2>5, <2>6, <2>7, <2>8, <2>9 DEF Commanding
<1>13. CASE Finishing
  BY <1>2, <1>13
  DEF Finishing, Detach, DetachFails, WaitTarget, Drain, DrainFails, Report, CloseConnections,
      Before, StartingPCs, Ready
<1>14. CASE Exited \/ UNCHANGED vars
  BY <1>1, <1>4, <1>14 DEF Exited, vars
<1> QED BY <1>6, <1>7, <1>8, <1>9, <1>10, <1>11, <1>12, <1>13, <1>14
    DEF Next, Reader, Target, Serve

\* The frame locals are read from is the one last reported (do_continue, locals).
THEOREM LocalsCurrent == Spec => []LocalsAreCurrent
<1>1. Init => TypeOK /\ LocalsInv
  <2>1. Init => ~Emitted("suspended")
    BY DEF Init, Emitted
  <2> QED BY <2>1, TypeInit DEF LocalsInv, LocalsAreCurrent
<1>2. TypeOK /\ LocalsInv /\ [Next]_vars => TypeOK' /\ LocalsInv'
  BY TypeStep, LocalsStep
<1>3. LocalsInv => LocalsAreCurrent
  BY DEF LocalsInv
<1> QED BY <1>1, <1>2, <1>3, PTL DEF Spec

----
(* Breakpoints against the first run. *)

\* A breakpoint written before anything that lets the target run.
EarlyBp(i) ==
  /\ written[i].kind = "set_breakpoint"
  /\ \A j \in 1..i : written[j].kind \notin GoKinds
BpSet(l) == \E k \in 1..Len(events) : events[k].event = "bp_set" /\ events[k].line = l

\* A request for line l is in hand or in the queue, before any run or step.
Ahead(l) ==
  \/ cur.kind = "set_breakpoint" /\ cur.line = l
  \/ /\ cur.kind \notin GoKinds
     /\ \E q \in 1..Len(cmds) :
          /\ cmds[q].kind = "set_breakpoint" /\ cmds[q].line = l
          /\ \A r \in 1..q : cmds[r].kind \notin GoKinds

NoGoRead == \A j \in 1..nread : written[j].kind \notin GoKinds
LetGo == tline # 0 \/ (tstate = "running" /\ flags # "abort")

\* The queue keeps the order of the lines, every request for a breakpoint is
\* answered before the next is taken, and nothing but a run or step taken from
\* the queue lets the target go.
FifoInv ==
  /\ cur.kind = "set_breakpoint" => pc = "exec"
  /\ NoGoRead => /\ cur.kind \notin GoKinds
                 /\ \A q \in 1..Len(cmds) : cmds[q].kind \notin GoKinds
                 /\ ~LetGo
  /\ \A i \in 1..nread : EarlyBp(i) => BpSet(written[i].line) \/ Ahead(written[i].line)
  /\ LetGo => \A i \in 1..Len(written) : EarlyBp(i) => BpSet(written[i].line)

BeforeInv == nread <= Len(written) /\ (faults = 0 => FifoInv)

\* No event is taken back, and a bp_set event sets its line.
LEMMA BpSetGrows ==
  ASSUME events \in Seq(Events), NEW ev, Emit(ev)
  PROVE  /\ \A l : BpSet(l) => BpSet(l)'
         /\ ev.event = "bp_set" => BpSet(ev.line)'
<1>1. /\ Len(events') = Len(events) + 1 /\ Len(events) \in Nat
      /\ events'[Len(events) + 1] = ev
      /\ \A k \in 1..Len(events) : events'[k] = events[k]
  BY DEF Emit
<1>2. Len(events) + 1 \in 1..Len(events') /\ 1..Len(events) \subseteq 1..Len(events')
  BY <1>1
<1> QED BY <1>1, <1>2 DEF BpSet

\* Steps that leave the lines and the queue alone.
LEMMA FifoFrame ==
  ASSUME FifoInv, UNCHANGED <<written, nread, cmds>>,
         UNCHANGED cur \/ (cur' = NoCmd /\ cur.kind # "set_breakpoint"),
         cur'.kind = "set_breakpoint" => pc' = "exec",
         \A l : BpSet(l) => BpSet(l)',
         LetGo' => LetGo
  PROVE  FifoInv'
<1>1. NoCmd.kind = None /\ None \notin GoKinds /\ None # "set_breakpoint"
  BY DEF NoCmd, None, GoKinds, StepFlags
<1>2. \A i : EarlyBp(i)' <=> EarlyBp(i)
  BY DEF EarlyBp
<1>3. \A l : Ahead(l) => Ahead(l)'
  BY <1>1 DEF Ahead
<1>4. NoGoRead' => NoGoRead
  BY DEF NoGoRead
<1> QED BY <1>1, <1>2, <1>3, <1>4 DEF FifoInv

\* One more line is written: behind a run or step it is not early.
LEMMA FifoWrite ==
  ASSUME TypeOK, nread <= Len(written), FifoInv, NEW c \in Inputs, Write(c)
  PROVE  FifoInv'
<1> USE DEF iovars, readervars, servevars, threadvars, tvars
<1>1. /\ written \in Seq(Commands) /\ Len(written') = Len(written) + 1 /\ Len(written) \in Nat
      /\ \A i \in 1..Len(written) : written'[i] = written[i]
      /\ nread \in Nat
  BY InputsAssumption DEF TypeOK, Write
<1>2. UNCHANGED <<nread, cmds, cur, pc, events, tline, tstate, flags>>
  BY DEF Write
<1>3. NoGoRead' <=> NoGoRead
  BY <1>1, <1>2 DEF NoGoRead
<1>4. \A i \in 1..Len(written) : EarlyBp(i)' <=> EarlyBp(i)
  BY <1>1 DEF EarlyBp
<1>5. \A i : i = Len(written) + 1 /\ EarlyBp(i)' => NoGoRead
  BY <1>1 DEF EarlyBp, NoGoRead
<1>6. \A l : (BpSet(l)' <=> BpSet(l)) /\ (Ahead(l)' <=> Ahead(l))
  BY <1>2 DEF BpSet, Ahead
<1>7. LetGo' <=> LetGo
  BY <1>2 DEF LetGo
<1>8. ASSUME LetGo', NEW i \in 1..Len(written'), EarlyBp(i)' PROVE BpSet(written[i].line)'
  <2>1. i # Len(written) + 1
    BY <1>8, <1>5, <1>7 DEF FifoInv
  <2>2. i \in 1..Len(written)
    BY <2>1, <1>1
  <2> QED BY <2>2, <1>8, <1>1, <1>4, <1>6, <1>7 DEF FifoInv
<1>9. ASSUME NEW i \in 1..nread', EarlyBp(i)'
      PROVE  BpSet(written[i].line)' \/ Ahead(written[i].line)'
  <2>1. i \in 1..nread /\ i \in 1..Len(written)
    BY <1>1, <1>2
  <2> QED BY <2>1, <1>9, <1>1, <1>4, <1>6 DEF FifoInv
<1> QED BY <1>2, <1>3, <1>7, <1>8, <1>9 DEF FifoInv

\* The reader thread queues the next line behind the others; at end of file a
\* stop.
LEMMA FifoRead ==
  ASSUME TypeOK, FifoInv, nread <= Len(written), Reader
  PROVE  FifoInv' /\ nread' <= Len(written')
<1> USE DEF iovars, readervars, servevars, threadvars, tvars
<1>0. /\ written \in Seq(Commands) /\ cmds \in Seq(Commands) /\ nread \in Nat
      /\ events \in Seq(Events) /\ Len(cmds) \in Nat /\ Len(written) \in Nat
  BY DEF TypeOK
<1>1. UNCHANGED <<written, cur, pc, tline, tstate, flags>>
  BY DEF Reader, ReadCommand, ReadBadLine, ReadEof
<1>2. /\ \A l : BpSet(l) => BpSet(l)'
      /\ \A i : EarlyBp(i)' <=> EarlyBp(i)
      /\ LetGo' <=> LetGo
  <2>1. \A i : EarlyBp(i)' <=> EarlyBp(i)
    BY <1>1 DEF EarlyBp
  <2>2. LetGo' <=> LetGo
    BY <1>1 DEF LetGo
  <2>3. CASE UNCHANGED events
    BY <2>1, <2>2, <2>3 DEF BpSet
  <2>4. CASE ReadBadLine
    BY <2>1, <2>2, <2>4, <1>0, BpSetGrows DEF ReadBadLine
  <2> QED BY <2>3, <2>4 DEF Reader, ReadCommand, ReadEof
\* A command goes to the end of the queue.
<1>q. ASSUME NEW c \in Commands, cmds' = Append(cmds, c)
      PROVE  /\ Len(cmds') = Len(cmds) + 1 /\ cmds'[Len(cmds) + 1] = c
             /\ \A q \in 1..Len(cmds) : cmds'[q] = cmds[q]
             /\ \A l : Ahead(l) => Ahead(l)'
  <2>1. /\ Len(cmds') = Len(cmds) + 1 /\ cmds'[Len(cmds) + 1] = c
        /\ \A q \in 1..Len(cmds) : cmds'[q] = cmds[q]
    BY <1>0, <1>q
  <2>2. \A q \in 1..Len(cmds) : q \in 1..Len(cmds') /\ 1..q \subseteq 1..Len(cmds)
    BY <1>0, <2>1
  <2>3. \A l : Ahead(l) => Ahead(l)'
    BY <1>1, <2>1, <2>2 DEF Ahead
  <2> QED BY <2>1, <2>3
<1>3. CASE ReadCommand
  <2> DEFINE n == nread + 1
             c == written[n]
  <2>1. nread' = n /\ n \in 1..Len(written) /\ cmds' = Append(cmds, c) /\ c \in Commands
    BY <1>0, <1>3 DEF ReadCommand
  <2>2. NoGoRead' <=> NoGoRead /\ c.kind \notin GoKinds
    <3>1. \A j \in 1..n : j \in 1..nread \/ j = n
      BY <1>0
    <3>2. 1..nread \subseteq 1..n /\ n \in 1..n
      BY <1>0
    <3> QED BY <3>1, <3>2, <2>1, <1>1 DEF NoGoRead
  <2>3. ASSUME NoGoRead'
        PROVE  /\ cur'.kind \notin GoKinds
               /\ \A q \in 1..Len(cmds') : cmds'[q].kind \notin GoKinds
               /\ ~LetGo'
    <3>1. \A q \in 1..Len(cmds') : q \in 1..Len(cmds) \/ q = Len(cmds) + 1
      BY <2>1, <1>q, <1>0
    <3>2. NoGoRead /\ c.kind \notin GoKinds
      BY <2>2, <2>3
    <3> HIDE DEF c
    <3> QED BY <3>1, <3>2, <2>1, <1>q, <1>1, <1>2 DEF FifoInv
  <2>4. ASSUME NEW i, i = n, EarlyBp(i)
        PROVE  Ahead(written[i].line)'
    <3>1. NoGoRead' /\ c.kind = "set_breakpoint"
      <4>1. \A j \in 1..n : written[j].kind \notin GoKinds
        BY <2>4 DEF EarlyBp
      <4>2. c.kind = "set_breakpoint"
        BY <2>4 DEF EarlyBp
      <4> QED BY <4>1, <4>2, <2>1, <1>1 DEF NoGoRead
    <3>2. Len(cmds) + 1 \in 1..Len(cmds') /\ cmds'[Len(cmds) + 1] = c
      BY <2>1, <1>q, <1>0
    <3>3. \A r \in 1..(Len(cmds) + 1) : cmds'[r].kind \notin GoKinds
      BY <3>1, <2>1, <2>3, <1>q
    <3>4. cur'.kind \notin GoKinds
      BY <3>1, <2>3
    <3>5. \A q : q = Len(cmds) + 1 => /\ q \in 1..Len(cmds')
                                     /\ cmds'[q].kind = "set_breakpoint" /\ cmds'[q].line = c.line
                                     /\ \A r \in 1..q : cmds'[r].kind \notin GoKinds
      BY <3>1, <3>2, <3>3
    <3>6. written'[i].line = c.line
      BY <2>4, <1>1
    <3> HIDE DEF c
    <3> QED BY <3>4, <3>5, <3>6 DEF Ahead
  <2>5. ASSUME NEW i \in 1..nread', EarlyBp(i)'
        PROVE  BpSet(written[i].line)' \/ Ahead(written[i].line)'
    <3>1. CASE i = n
      BY <3>1, <2>4, <2>5, <1>1, <1>2
    <3>2. CASE i # n
      <4>1. i \in 1..nread
        BY <3>2, <2>1, <1>0
      <4> QED BY <4>1, <2>5, <2>1, <1>q, <1>1, <1>2 DEF FifoInv
    <3> QED BY <3>1, <3>2
  <2>6. nread' <= Len(written')
    BY <2>1, <1>1, <1>0
  <2> HIDE DEF n, c
  <2> QED BY <2>3, <2>5, <2>6, <1>1, <1>2 DEF FifoInv
<1>4. CASE ReadBadLine
  <2> DEFINE n == nread + 1
  <2>1. nread' = n /\ n \in 1..Len(written) /\ UNCHANGED cmds /\ written[n].kind = "bad"
    BY <1>0, <1>4 DEF ReadBadLine
  <2>2. NoGoRead' => NoGoRead
    <3>1. 1..nread \subseteq 1..n
      BY <1>0
    <3> QED BY <3>1, <2>1, <1>1 DEF NoGoRead
  <2>3. \A l : Ahead(l) => Ahead(l)'
    BY <2>1, <1>1 DEF Ahead
  <2>4. ~EarlyBp(n)
    BY <2>1 DEF EarlyBp
  <2>5. \A i \in 1..nread' : i = n \/ i \in 1..nread
    BY <2>1, <1>0
  <2>6. nread' <= Len(written')
    BY <2>1, <1>1, <1>0
  <2> HIDE DEF n
  <2> QED BY <2>1, <2>2, <2>3, <2>4, <2>5, <2>6, <1>1, <1>2 DEF FifoInv
<1>5. CASE ReadEof
  <2>1. UNCHANGED nread /\ cmds' = Append(cmds, StopCmd) /\ StopCmd \in Commands
        /\ StopCmd.kind \notin GoKinds
    BY <1>5 DEF ReadEof, StopCmd, Commands, Kinds, GoKinds, StepFlags
  <2>2. \A q \in 1..Len(cmds') : q \in 1..Len(cmds) \/ q = Len(cmds) + 1
    BY <2>1, <1>q, <1>0
  <2>3. NoGoRead' <=> NoGoRead
    BY <2>1, <1>1 DEF NoGoRead
  <2>4. nread' <= Len(written')
    BY <2>1, <1>1
  <2> QED BY <2>1, <2>2, <2>3, <2>4, <1>1, <1>2, <1>q DEF FifoInv
<1> QED BY <1>3, <1>4, <1>5 DEF Reader

\* The loop takes the oldest command, or chokes on it.
LEMMA FifoTake ==
  ASSUME TypeOK, FifoInv, TakeCommand \/ TakeNonObject
  PROVE  FifoInv'
<1> USE DEF iovars, readervars, servevars, threadvars, tvars
<1>0. cmds \in Seq(Commands) /\ Len(cmds) \in Nat /\ cmds # <<>>
  BY DEF TypeOK, TakeCommand, TakeNonObject
<1>1. /\ pc = "idle" /\ cmds' = Tail(cmds)
      /\ \/ cur' = cmds[1] /\ pc' = "exec"
         \/ cur' = cur /\ pc' = "exit" /\ cmds[1].kind = "value"
      /\ UNCHANGED <<written, nread, events, tline, tstate, flags>>
  BY <1>0 DEF TakeCommand, TakeNonObject
<1>2. /\ Len(cmds') = Len(cmds) - 1 /\ 1 \in 1..Len(cmds)
      /\ \A q \in 1..Len(cmds') : cmds'[q] = cmds[q + 1]
  BY <1>0, <1>1
<1>3. \A i : EarlyBp(i)' <=> EarlyBp(i)
  BY <1>1 DEF EarlyBp
<1>4. /\ NoGoRead' <=> NoGoRead
      /\ LetGo' <=> LetGo
      /\ \A l : BpSet(l)' <=> BpSet(l)
  BY <1>1 DEF NoGoRead, LetGo, BpSet
<1>5. ASSUME NEW l, Ahead(l) PROVE Ahead(l)'
  <2>1. cur.kind # "set_breakpoint"
    BY <1>1 DEF FifoInv
  <2>2. PICK q \in 1..Len(cmds) : /\ cmds[q].kind = "set_breakpoint" /\ cmds[q].line = l
                                  /\ \A r \in 1..q : cmds[r].kind \notin GoKinds
                                  /\ cur.kind \notin GoKinds
    BY <1>5, <2>1 DEF Ahead
  <2>3. CASE q = 1
    BY <2>2, <2>3, <1>1 DEF Ahead
  <2>4. CASE q # 1
    <3>1. q - 1 \in 1..Len(cmds') /\ cmds'[q - 1] = cmds[q] /\ 1 \in 1..q
      BY <2>4, <1>0, <1>2
    <3>2. \A r \in 1..(q - 1) : r + 1 \in 1..q /\ cmds'[r] = cmds[r + 1]
      BY <1>0, <1>2
    <3> QED BY <3>1, <3>2, <2>2, <1>1 DEF Ahead
  <2> QED BY <2>3, <2>4
<1>6. \A q \in 1..Len(cmds') : q + 1 \in 1..Len(cmds)
  BY <1>0, <1>2
<1>7. NoGoRead' => /\ cur'.kind \notin GoKinds
                   /\ \A q \in 1..Len(cmds') : cmds'[q].kind \notin GoKinds
                   /\ ~LetGo'
  BY <1>1, <1>2, <1>4, <1>6 DEF FifoInv
<1> QED BY <1>1, <1>3, <1>4, <1>5, <1>7 DEF FifoInv

\* A run or step lets the target go when every earlier breakpoint is set.
LEMMA FifoGo ==
  ASSUME TypeOK, FifoInv, GoCmd
  PROVE  FifoInv'
<1> USE DEF iovars, readervars, servevars, threadvars, tvars
<1>1. /\ cur.kind \in GoKinds /\ cur.kind # "set_breakpoint"
      /\ UNCHANGED <<written, nread, cmds, cur, events>>
  BY DEF GoCmd, GoKinds, StepFlags
<1>2. \A l : ~Ahead(l)
  BY <1>1 DEF Ahead
<1>3. ~NoGoRead
  BY <1>1 DEF FifoInv
<1>4. ASSUME NEW i \in 1..Len(written), EarlyBp(i) PROVE BpSet(written[i].line)
  <2>1. nread \in Nat /\ Len(written) \in Nat
    BY DEF TypeOK
  <2>2. CASE i \in 1..nread
    BY <2>2, <1>2, <1>4 DEF FifoInv
  <2>3. CASE i \notin 1..nread
    <3>1. 1..nread \subseteq 1..i
      BY <2>1, <2>3
    <3> QED BY <3>1, <1>3, <1>4 DEF EarlyBp, NoGoRead
  <2> QED BY <2>2, <2>3
<1>5. \A i : EarlyBp(i)' <=> EarlyBp(i)
  BY <1>1 DEF EarlyBp
<1>6. (NoGoRead' <=> NoGoRead) /\ \A l : (BpSet(l)' <=> BpSet(l)) /\ (Ahead(l)' <=> Ahead(l))
  BY <1>1 DEF NoGoRead, BpSet, Ahead
<1> QED BY <1>1, <1>3, <1>4, <1>5, <1>6 DEF FifoInv

LEMMA BeforeStep == TypeOK /\ BeforeInv /\ [Next]_vars => BeforeInv'
<1> SUFFICES ASSUME TypeOK, BeforeInv, [Next]_vars PROVE BeforeInv' OBVIOUS
<1> USE DEF iovars, readervars, servevars, threadvars, tvars
<1>0. /\ written \in Seq(Commands) /\ nread \in Nat /\ Len(written) \in Nat
      /\ events \in Seq(Events) /\ faults \in Nat
  BY DEF TypeOK
<1>1. CASE \E c \in Inputs : Write(c)
  <2>1. PICK c \in Inputs : Write(c)
    BY <1>1
  <2>2. Len(written') = Len(written) + 1 /\ UNCHANGED <<nread, faults>>
    BY <2>1, <1>0 DEF Write
  <2> QED BY <2>1, <2>2, <1>0, FifoWrite DEF BeforeInv
<1>2. CASE Reader
  <2>1. UNCHANGED faults
    BY <1>2 DEF Reader, ReadCommand, ReadBadLine, ReadEof
  <2>2. nread' <= Len(written')
    BY <1>2, <1>0 DEF Reader, ReadCommand, ReadBadLine, ReadEof, BeforeInv
  <2> QED BY <1>2, <2>1, <2>2, FifoRead DEF BeforeInv
\* Nobody else touches the pipe.
<1>3. ASSUME UNCHANGED <<written, nread>>, faults = 0 /\ faults' = 0 /\ FifoInv => FifoInv',
             faults' = 0 => faults = 0
      PROVE  BeforeInv'
  BY <1>3 DEF BeforeInv
<1>f. ASSUME faults' = faults + 1, UNCHANGED <<written, nread>> PROVE BeforeInv'
  BY <1>f, <1>0 DEF BeforeInv
<1>b. UNCHANGED events => \A l : BpSet(l) => BpSet(l)'
  BY DEF BpSet
<1>l. UNCHANGED <<tline, tstate, flags>> => (LetGo' => LetGo)
  BY DEF LetGo
\* Steps that hold on to the command and do not let the target go.
<1>s. ASSUME UNCHANGED <<written, nread, cmds, cur, pc, events, faults>>, LetGo' => LetGo
      PROVE  BeforeInv'
  <2>1. FifoInv => FifoInv'
    BY <1>s, <1>b, FifoFrame DEF FifoInv
  <2> QED BY <2>1, <1>s, <1>3
<1>4. CASE CloseStdin \/ ExecuteReturned \/ SignalDone \/ Exited \/ UNCHANGED vars
  BY <1>4, <1>s, <1>l DEF CloseStdin, ExecuteReturned, SignalDone, Exited, vars
<1>5. CASE SessionStep
  <2>1. LetGo' => LetGo
    BY <1>5 DEF SessionStep, Boot, BootFails, Advance, Complete, Raise, WaitExpires,
                TimeoutBehaviour, LetGo
  <2> QED BY <2>1, <1>5, <1>s DEF SessionStep
<1>6. CASE SessionKilled
  BY <1>6, <1>f DEF SessionKilled, Fault
\* Steps of the loop that hold no request for a breakpoint.
<1>7. ASSUME UNCHANGED <<written, nread, cmds, faults>>,
             UNCHANGED cur \/ cur' = NoCmd,
             pc # "exec" \/ cur.kind # "set_breakpoint",
             UNCHANGED events \/ \E ev : Emit(ev),
             LetGo' => LetGo
      PROVE  BeforeInv'
  <2>1. \A l : BpSet(l) => BpSet(l)'
    BY <1>7, <1>0, <1>b, BpSetGrows
  <2>2. FifoInv => cur.kind # "set_breakpoint"
    BY <1>7 DEF FifoInv
  <2>3. NoCmd.kind # "set_breakpoint"
    BY DEF NoCmd, None
  <2>4. FifoInv => FifoInv'
    BY <1>7, <2>1, <2>2, <2>3, FifoFrame
  <2> QED BY <2>4, <1>7, <1>3
<1>8. CASE Startup
  <2>1. CASE StartupCrash
    BY <2>1, <1>f DEF StartupCrash, Fault
  <2>2. CASE Synchronize \/ PollAgain \/ NoSession \/ Announce \/ ResolveUser
    BY <2>2, <1>7, <1>l DEF Synchronize, PollAgain, NoSession, Announce, ResolveUser
  <2> QED BY <1>8, <2>1, <2>2 DEF Startup
<1>9. CASE Commanding
  <2>1. CASE TakeCommand \/ TakeNonObject
    <3>1. FifoInv => FifoInv'
      BY <2>1, FifoTake
    <3> QED BY <2>1, <3>1, <1>3 DEF TakeCommand, TakeNonObject
  <2>2. CASE GoCmd
    <3>1. FifoInv => FifoInv'
      BY <2>2, FifoGo
    <3> QED BY <2>2, <3>1, <1>3 DEF GoCmd
  <2>3. CASE SetBreakpointCmd
    <3> DEFINE ev == Event("bp_set", cur.line, IF cur.line \in Lines THEN "ok" ELSE "rejected")
    <3>1. /\ UNCHANGED <<written, nread, cmds, tline, tstate, flags, faults>>
          /\ cur' = NoCmd /\ Emit(ev)
      BY <2>3 DEF SetBreakpointCmd, SetBreakpoint, Answer
    <3>2. ev.event = "bp_set" /\ ev.line = cur.line
      BY DEF Event
    <3> HIDE DEF ev
    <3>3. \A l : BpSet(l) \/ l = cur.line => BpSet(l)'
      BY <3>1, <3>2, <1>0, BpSetGrows
    <3>4. NoCmd.kind = None /\ None \notin GoKinds /\ None # "set_breakpoint"
      BY DEF NoCmd, None, GoKinds, StepFlags
    <3>5. \A l : Ahead(l) => Ahead(l)' \/ BpSet(l)'
      BY <3>1, <3>3, <3>4 DEF Ahead
    <3>6. \A i : EarlyBp(i)' <=> EarlyBp(i)
      BY <3>1 DEF EarlyBp
    <3>7. (NoGoRead' <=> NoGoRead) /\ (LetGo' <=> LetGo)
      BY <3>1 DEF NoGoRead, LetGo
    <3>8. FifoInv => FifoInv'
      BY <3>1, <3>3, <3>4, <3>5, <3>6, <3>7 DEF FifoInv
    <3> QED BY <3>1, <3>8, <1>3
  <2>4. CASE ContTimesOut \/ StopCmdAbortFails \/ CommandFails
    BY <2>4, <1>f DEF ContTimesOut, StopCmdAbortFails, CommandFails, Fault
  <2>5. CASE StopCmdAbort
    <3>1. LetGo' => LetGo
      BY <2>5 DEF StopCmdAbort, Continue, LetGo
    <3> QED BY <2>5, <3>1, <1>7 DEF StopCmdAbort
  <2>6. CASE ContSuspended \/ LocalsCmd \/ UnknownCmd
    BY <2>6, <1>7, <1>l DEF ContSuspended, LocalsCmd, UnknownCmd, Answer
  <2>7. CASE ContOver \/ StopCmdDelete \/ StopCmdFinish
    BY <2>7, <1>7, <1>l DEF ContOver, StopCmdDelete, StopCmdFinish
  <2> QED BY <1>9, <2>1, <2>2, <2>3, <2>4, <2>5, <2>6, <2>7 DEF Commanding
<1>10. CASE Finishing
  <2>1. CASE DetachFails \/ DrainFails
    BY <2>1, <1>f DEF DetachFails, DrainFails, Fault
  <2>2. CASE Detach \/ WaitTarget \/ Drain \/ Report \/ CloseConnections
    BY <2>2, <1>7, <1>l DEF Detach, DetachSession, WaitTarget, Drain, Report, CloseConnections
  <2> QED BY <1>10, <2>1, <2>2 DEF Finishing
<1> QED BY <1>1, <1>2, <1>4, <1>5, <1>6, <1>8, <1>9, <1>10 DEF Next, Target, Serve

\* A breakpoint written before the first run or step is set before any user
\* code runs, unless a database call fails (the wait at interpreter_starting,
\* the queue between the reader thread and the loop).
THEOREM BreakpointsFirst == Spec => []BreakpointsBeforeCode
<1>1. Init => BeforeInv
  BY LinesAssumption DEF Init, TargetInit, BeforeInv, FifoInv, NoCmd, None, GoKinds, StepFlags, LetGo
<1>2. TypeOK /\ BeforeInv /\ [Next]_vars => BeforeInv'
  BY BeforeStep
<1>3. BeforeInv => BreakpointsBeforeCode
  BY DEF BeforeInv, FifoInv, LetGo, EarlyBp, BpSet, BreakpointsBeforeCode
<1> QED BY <1>1, <1>2, <1>3, TypeCorrect, PTL DEF Spec
====
