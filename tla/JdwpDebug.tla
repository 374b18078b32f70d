---- MODULE JdwpDebug ----
(***************************************************************************)
(* A debug session over the JDWP transport: PellDebugProcess, the IDE's    *)
(* engine, `pell debug-target`, whose database session connects back to    *)
(* it, and that session's VM as JDI shows it.  Actors:                     *)
(*                                                                         *)
(*   the engine thread   startDebugSession(), then eventLoop()             *)
(*   pooled tasks        addBreakpoint() and removeBreakpoint()            *)
(*   the user            steps, resume, stop, breakpoints                  *)
(*   the VM              one thread running the block, an event queue      *)
(*                                                                         *)
(* A breakpoint stands for the unit line its pell line resolves to; a unit *)
(* is a PL/SQL class, prepared when execution first reaches it.            *)
(***************************************************************************)
EXTENDS Naturals, Sequences, FiniteSets

CONSTANTS
  Lines,        \* lines of all units
  UnitOf,       \* [Lines -> units]
  Flow, Exits,  \* control flow: [{0} \cup Lines -> SUBSET Lines], where it may end
  PellLine,     \* [Lines -> Nat], 0 if the line is not mapped
  Bps, InitialBps, BpLine,
  MaxHops,      \* a step re-steps at most so often (256)
  MaxActions    \* bound: steps and resumes of the user

ASSUME CodeAssumption ==
  /\ Lines \subseteq Nat \ {0}
  /\ Flow \in [{0} \cup Lines -> SUBSET Lines]
  /\ Exits \subseteq {0} \cup Lines
  /\ PellLine \in [Lines -> Nat]
ASSUME BpsAssumption ==
  /\ IsFiniteSet(Bps) /\ InitialBps \subseteq Bps
  /\ BpLine \in [Bps -> Lines]
ASSUME BoundsAssumption == MaxHops \in Nat /\ MaxActions \in Nat

Units == {UnitOf[l] : l \in Lines}
BpUnit(b) == UnitOf[BpLine[b]]

NoBp == "no breakpoint"
NoStep == [active |-> FALSE, origin |-> 0, hops |-> 0]

VARIABLES
  \* the VM
  vstate,      \* "absent", "held" (awaiting go), "running" or "ended"
  susp,        \* its suspend count
  vline,       \* line of its thread, 0 before the block
  prepared,    \* units prepared
  stepReq,     \* a step request is enabled
  evq,         \* event sets not taken yet: sequences of events
  \* the engine thread
  epc,
  redo,        \* deferred breakpoints it has still to add
  evset,       \* events of the set it is handling
  forUi,       \* suspendForUi
  classes,     \* allClasses() as read last
  \* shared state of the process
  mapsReady, vmSet, attached, stopped,
  deferred,    \* deferredBreakpoints
  pending, armed,
  claimed,     \* classPrepareFilters
  watched,     \* units with an enabled ClassPrepare request
  unfiltered,  \* history: units whose ClassPrepare request failed
  missed,      \* history: units prepared unnoticed for that, and not scanned since
  refused,     \* history: breakpoints the last attempt to arm did not arm
  currentSet,  \* currentEventSet is not null
  activeStep,
  \* pooled tasks
  task,        \* [Bps -> where addBreakpoint() is]
  scan,        \* [Bps -> allClasses() as that task read it]
  rem,         \* [Bps -> where removeBreakpoint() is]
  \* the user and the display
  ui, shown, removed, actions,
  settled,     \* history: breakpoints that were through when they were removed
  resumed,     \* history: the set in hand has been resumed already
  released,    \* history: so many queued sets were, by the second resume of another
  early        \* history: the set last surfaced had been, when it surfaced

vmvars == <<vstate, susp, vline, prepared, stepReq, evq>>
engvars == <<epc, redo, evset, forUi, classes>>
failvars == <<unfiltered, missed, refused>>
reqvars == <<deferred, pending, armed, claimed, watched, failvars>>
stepvars == <<currentSet, activeStep, resumed, released, early>>
flagvars == <<mapsReady, vmSet, attached, stopped>>
taskvars == <<task, scan, rem>>
uivars == <<ui, shown, removed, settled, actions>>
vars == <<vmvars, engvars, reqvars, stepvars, flagvars, taskvars, uivars>>

Init ==
  /\ vstate = "absent" /\ susp = 0 /\ vline = 0 /\ prepared = {} /\ stepReq = FALSE
  /\ evq = <<>>
  /\ epc = "maps" /\ redo = <<>> /\ evset = <<>> /\ forUi = FALSE /\ classes = {}
  /\ mapsReady = FALSE /\ vmSet = FALSE /\ attached = FALSE /\ stopped = FALSE
  /\ deferred = <<>> /\ pending = {} /\ armed = {} /\ claimed = {} /\ watched = {}
  /\ unfiltered = {} /\ missed = {} /\ refused = {}
  /\ currentSet = FALSE /\ activeStep = NoStep
  /\ resumed = FALSE /\ released = 0 /\ early = FALSE
  /\ task = [b \in Bps |-> IF b \in InitialBps THEN "new" ELSE "off"]
  /\ scan = [b \in Bps |-> {}]
  /\ rem = [b \in Bps |-> "off"]
  /\ ui = "running" /\ shown = 0 /\ removed = {} /\ settled = {} /\ actions = 0

Ev(kind, b) == [kind |-> kind, bp |-> b]

\* VirtualMachine.resume, what EventSet.resume of a SUSPEND_ALL set does.
Lower(n) == IF n = 0 THEN 0 ELSE n - 1
ResumeVm == susp' = Lower(susp)

----
(* The VM: the block runs while the session is running and not suspended. *)

VmRuns == vstate = "running" /\ susp = 0

\* A unit is prepared when execution is about to enter it; a matching
\* ClassPrepare request suspends the thread.
Prepare ==
  /\ VmRuns
  /\ \E l \in Flow[vline] :
       /\ UnitOf[l] \notin prepared
       /\ prepared' = prepared \cup {UnitOf[l]}
       /\ IF UnitOf[l] \in watched
          THEN evq' = Append(evq, <<Ev("prepare", NoBp)>>) /\ susp' = susp + 1
          ELSE UNCHANGED <<evq, susp>>
       /\ missed' = missed \cup ({UnitOf[l]} \cap unfiltered)
  /\ UNCHANGED <<vstate, vline, stepReq, engvars, deferred, pending, armed, claimed, watched,
                 unfiltered, refused, stepvars, flagvars, taskvars, uivars>>

\* The next line is reached.  Co-located events travel in one set, in either
\* order; a step may pass over a line (a callee's, a deeper frame's).
Advance ==
  /\ VmRuns
  /\ \E l \in Flow[vline], stepHere \in {stepReq, FALSE} :
       LET steps == IF stepHere THEN {Ev("step", NoBp)} ELSE {}
           bps == {Ev("bp", b) : b \in {c \in armed : BpLine[c] = l}}
           all == steps \cup bps
       IN /\ UnitOf[l] \in prepared
          /\ vline' = l
          /\ stepReq' = (stepReq /\ ~stepHere)
          /\ IF all = {} THEN UNCHANGED <<evq, susp>>
             ELSE /\ \E s \in [1..Cardinality(all) -> all] :
                       /\ {s[i] : i \in DOMAIN s} = all
                       /\ evq' = Append(evq, s)
                  /\ susp' = susp + 1
  /\ UNCHANGED <<vstate, prepared, engvars, reqvars, stepvars, flagvars, taskvars, uivars>>

\* The block ends or raises; debug-target disconnects.
VmEnds ==
  /\ VmRuns
  /\ vline \in Exits
  /\ vstate' = "ended"
  /\ evq' = Append(evq, <<Ev("death", NoBp)>>)
  /\ UNCHANGED <<susp, vline, prepared, stepReq, engvars, reqvars, stepvars, flagvars, taskvars,
                 uivars>>

Vm == Prepare \/ Advance \/ VmEnds

----
(* addBreakpoint() and removeBreakpoint() on pooled threads. *)

\* The user sets or clears a breakpoint.
Register(b) ==
  /\ task[b] = "off" /\ ~stopped
  /\ task' = [task EXCEPT ![b] = "new"]
  /\ UNCHANGED <<vmvars, engvars, reqvars, stepvars, flagvars, scan, rem, uivars>>

Unregister(b) ==
  /\ task[b] # "off" /\ rem[b] = "off" /\ ~stopped
  /\ rem' = [rem EXCEPT ![b] = "new"]
  /\ removed' = removed \cup {b}
  /\ UNCHANGED <<vmvars, engvars, reqvars, stepvars, flagvars, task, scan, ui, shown, settled, actions>>

Goto(b, s) == task' = [task EXCEPT ![b] = s]

\* if (!mapsReady), read without the lock ...
CheckMaps(b) ==
  /\ task[b] = "new"
  /\ Goto(b, IF mapsReady THEN "resolve" ELSE "defer")
  /\ UNCHANGED <<vmvars, engvars, reqvars, stepvars, flagvars, scan, rem, uivars>>

\* ... and the list it is then added to, with it.
Defer(b) ==
  /\ task[b] = "defer"
  /\ deferred' = Append(deferred, b)
  /\ Goto(b, "done")
  /\ UNCHANGED <<vmvars, engvars, pending, armed, claimed, watched, failvars, stepvars, flagvars,
                 scan, rem, uivars>>

\* Line map and target line found: pending, whatever the state of the VM.
AddPending(b) ==
  /\ task[b] = "resolve"
  /\ pending' = pending \cup {b}
  /\ Goto(b, "latch")
  /\ UNCHANGED <<vmvars, engvars, deferred, armed, claimed, watched, failvars, stepvars, flagvars,
                 scan, rem, uivars>>

CheckLatch(b) ==
  /\ task[b] = "latch"
  /\ Goto(b, IF attached THEN "watch" ELSE "done")
  /\ UNCHANGED <<vmvars, engvars, reqvars, stepvars, flagvars, scan, rem, uivars>>

\* ensureClassPrepareFor(): the filter is claimed, then the request enabled.
ClaimFilter(b) ==
  /\ task[b] = "watch"
  /\ claimed' = claimed \cup {BpUnit(b)}
  /\ Goto(b, IF BpUnit(b) \in claimed THEN "scan" ELSE "enable")
  /\ UNCHANGED <<vmvars, engvars, deferred, pending, armed, watched, failvars, stepvars, flagvars,
                 scan, rem, uivars>>

\* The request may fail, which is caught; the filter stays claimed.
EnableFilter(b) ==
  /\ task[b] = "enable"
  /\ \/ watched' = watched \cup {BpUnit(b)} /\ UNCHANGED unfiltered
     \/ unfiltered' = unfiltered \cup {BpUnit(b)} /\ UNCHANGED watched
  /\ Goto(b, "scan")
  /\ UNCHANGED <<vmvars, engvars, deferred, pending, armed, claimed, missed, refused, stepvars,
                 flagvars, scan, rem, uivars>>

\* armWhatWeCan(): allClasses() before the lock ...
ScanClasses(b) ==
  /\ task[b] = "scan"
  /\ scan' = [scan EXCEPT ![b] = prepared]
  /\ Goto(b, "arm")
  /\ UNCHANGED <<vmvars, engvars, reqvars, stepvars, flagvars, rem, uivars>>

\* ... which may raise: nothing is armed this time ...
NothingScanned ==
  /\ refused' = refused \cup {p \in pending : BpUnit(p) \in prepared}
  /\ UNCHANGED <<deferred, pending, armed, claimed, watched, unfiltered, missed>>

ScanFails(b) ==
  /\ task[b] = "scan"
  /\ NothingScanned
  /\ Goto(b, "done")
  /\ UNCHANGED <<vmvars, engvars, stepvars, flagvars, scan, rem, uivars>>

\* ... and armOn() for every pending breakpoint of those classes under it, which
\* finds no code near the line, or whose request fails, for some of them.
ArmPending(known) ==
  LET tried == {p \in pending : BpUnit(p) \in known}
  IN \E now \in SUBSET tried :
       /\ pending' = pending \ now
       /\ armed' = armed \cup now
       /\ refused' = (refused \cup tried) \ now
       /\ missed' = missed \ known

ArmFromTask(b) ==
  /\ task[b] = "arm"
  /\ ArmPending(scan[b])
  /\ Goto(b, "done")
  /\ UNCHANGED <<vmvars, engvars, deferred, claimed, watched, unfiltered, stepvars, flagvars, scan,
                 rem, uivars>>

AddTask(b) ==
  CheckMaps(b) \/ Defer(b) \/ AddPending(b) \/ CheckLatch(b) \/ ClaimFilter(b)
    \/ EnableFilter(b) \/ ScanClasses(b) \/ ScanFails(b) \/ ArmFromTask(b)

\* removeBreakpoint(): from pending under its lock, then, if there is a VM,
\* from armed.
AddThrough(b) ==
  /\ task[b] = "done"
  /\ \A i \in 1..Len(deferred) : deferred[i] # b
  /\ \A i \in 1..Len(redo) : redo[i] # b

\* Mutant: armed breakpoints are forgotten.
RemoveOnlyPending(b) ==
  /\ rem[b] = "new"
  /\ pending' = pending \ {b}
  /\ rem' = [rem EXCEPT ![b] = "done"]
  /\ settled' = IF AddThrough(b) THEN settled \cup {b} ELSE settled
  /\ UNCHANGED <<vmvars, engvars, deferred, armed, claimed, watched, failvars, stepvars, flagvars,
                 task, scan, ui, shown, removed, actions>>

RemovePending(b) ==
  /\ rem[b] = "new"
  /\ pending' = pending \ {b}
  /\ rem' = [rem EXCEPT ![b] = IF vmSet THEN "unarm" ELSE "done"]
  /\ settled' = IF AddThrough(b) THEN settled \cup {b} ELSE settled
  /\ UNCHANGED <<vmvars, engvars, deferred, armed, claimed, watched, failvars, stepvars, flagvars,
                 task, scan, ui, shown, removed, actions>>

RemoveArmed(b) ==
  /\ rem[b] = "unarm"
  /\ armed' = armed \ {b}
  /\ rem' = [rem EXCEPT ![b] = "done"]
  /\ UNCHANGED <<vmvars, engvars, deferred, pending, claimed, watched, failvars, stepvars, flagvars,
                 task, scan, uivars>>

RemoveTask(b) == RemovePending(b) \/ RemoveArmed(b)

----
(* The engine thread: startDebugSession(). *)

Step(from, to) == epc = from /\ epc' = to

\* Deployed, maps built: mapsReady is set ...
MapsBuilt ==
  /\ Step("maps", "drain")
  /\ mapsReady' = TRUE
  /\ UNCHANGED <<vmvars, redo, evset, forUi, classes, reqvars, stepvars, vmSet, attached,
                 stopped, taskvars, uivars>>

\* ... then the deferred list is taken and cleared, under its lock ...
TakeDeferred ==
  /\ Step("drain", "redo")
  /\ redo' = deferred
  /\ deferred' = <<>>
  /\ UNCHANGED <<vmvars, evset, forUi, classes, pending, armed, claimed, watched, failvars,
                 stepvars, flagvars, taskvars, uivars>>

\* ... and added; the latch is still closed.
AddDeferred ==
  /\ epc = "redo"
  /\ redo # <<>>
  /\ pending' = pending \cup {Head(redo)}
  /\ redo' = Tail(redo)
  /\ UNCHANGED <<vmvars, epc, evset, forUi, classes, deferred, armed, claimed, watched, failvars,
                 stepvars, flagvars, taskvars, uivars>>

\* Listen, spawn debug-target, accept the connection of its session.
Accept ==
  /\ redo = <<>>
  /\ Step("redo", "latch")
  /\ vstate' = "held"
  /\ vmSet' = TRUE
  /\ UNCHANGED <<susp, vline, prepared, stepReq, evq, redo, evset, forUi, classes, reqvars,
                 stepvars, mapsReady, attached, stopped, taskvars, uivars>>

\* vmAttached.countDown()
OpenLatch ==
  /\ Step("latch", "watch")
  /\ attached' = TRUE
  /\ UNCHANGED <<vmvars, redo, evset, forUi, classes, reqvars, stepvars, mapsReady, vmSet,
                 stopped, taskvars, uivars>>

\* ensureClassPrepareFor() for every unit of the pending breakpoints; a filter
\* a task has claimed is left to that task.
WatchPending ==
  /\ Step("watch", "scan")
  /\ LET units == {BpUnit(b) : b \in pending} IN
       /\ claimed' = claimed \cup units
       /\ \E failing \in SUBSET (units \ claimed) :
            /\ watched' = watched \cup ((units \ claimed) \ failing)
            /\ unfiltered' = unfiltered \cup failing
  /\ UNCHANGED <<vmvars, redo, evset, forUi, classes, deferred, pending, armed, missed, refused,
                 stepvars, flagvars, taskvars, uivars>>

EngineScan ==
  /\ Step("scan", "arm")
  /\ classes' = prepared
  /\ UNCHANGED <<vmvars, redo, evset, forUi, reqvars, stepvars, flagvars, taskvars, uivars>>

EngineScanFails ==
  /\ Step("scan", "go")
  /\ NothingScanned
  /\ UNCHANGED <<vmvars, redo, evset, forUi, classes, stepvars, flagvars, taskvars, uivars>>

EngineArm ==
  /\ Step("arm", "go")
  /\ ArmPending(classes)
  /\ UNCHANGED <<vmvars, redo, evset, forUi, classes, deferred, claimed, watched, unfiltered,
                 stepvars, flagvars, taskvars, uivars>>

\* acceptedVm.resume() finds nothing suspended; sendGo() releases the block.
SendGo ==
  /\ Step("go", "loop")
  /\ vstate' = IF vstate = "held" THEN "running" ELSE vstate
  /\ UNCHANGED <<susp, vline, prepared, stepReq, evq, redo, evset, forUi, classes, reqvars,
                 stepvars, flagvars, taskvars, uivars>>

\* A missing CLI, no free port, a connection that is never accepted because
\* stop() closed the listener: session.stop().
StartupFails ==
  /\ epc \in {"maps", "redo", "latch", "watch", "scan", "go"}
  /\ epc' = "ended"
  /\ stopped' = TRUE
  /\ ui' = "running"
  /\ vstate' = IF vstate = "absent" THEN "absent" ELSE "ended"
  /\ UNCHANGED <<susp, vline, prepared, stepReq, evq, redo, evset, forUi, classes, reqvars,
                 stepvars, mapsReady, vmSet, attached, taskvars, shown, removed, settled,
                 actions>>

\* processTerminated(): debug-target has exited.
TargetExits ==
  /\ vstate = "ended" /\ ~stopped
  /\ stopped' = TRUE
  /\ ui' = "running"
  /\ UNCHANGED <<vmvars, engvars, reqvars, stepvars, mapsReady, vmSet, attached, taskvars,
                 shown, removed, settled, actions>>

----
(* The engine thread: eventLoop(). *)

TakeSet ==
  /\ ~stopped
  /\ evq # <<>>
  /\ Step("loop", "set")
  /\ evset' = Head(evq)
  /\ evq' = Tail(evq)
  /\ forUi' = FALSE
  /\ resumed' = (released > 0)
  /\ released' = Lower(released)
  /\ UNCHANGED <<vstate, susp, vline, prepared, stepReq, redo, classes, reqvars, currentSet,
                 activeStep, early, flagvars, taskvars, uivars>>

Handling(kind) == epc = "set" /\ evset # <<>> /\ Head(evset).kind = kind
Handled == evset' = Tail(evset) /\ UNCHANGED <<epc, redo, classes>>

\* Mutant: the classes of the last scan are used again.
OnPrepareStale ==
  /\ Handling("prepare")
  /\ ArmPending(classes)
  /\ Handled
  /\ UNCHANGED <<vmvars, forUi, deferred, claimed, watched, unfiltered, stepvars, flagvars, taskvars,
                 uivars>>

\* armWhatWeCan() while the preparing thread is suspended.
OnPrepare ==
  /\ Handling("prepare")
  /\ ArmPending(prepared)
  /\ Handled
  /\ UNCHANGED <<vmvars, forUi, deferred, claimed, watched, unfiltered, stepvars, flagvars, taskvars,
                 uivars>>

\* The classes cannot be read: the event is used up all the same.
OnPrepareFails ==
  /\ Handling("prepare")
  /\ NothingScanned
  /\ Handled
  /\ UNCHANGED <<vmvars, forUi, stepvars, flagvars, taskvars, uivars>>

OnBreakpoint ==
  /\ Handling("bp")
  /\ activeStep' = NoStep
  /\ currentSet' = TRUE
  /\ forUi' = TRUE
  /\ ui' = "paused" /\ shown' = BpLine[Head(evset).bp]
  /\ early' = resumed
  /\ Handled
  /\ UNCHANGED <<vmvars, reqvars, resumed, released, flagvars, taskvars, removed, settled,
                 actions>>

\* Still on the pell line the step began at, and it may go on.
StaysOnLine ==
  /\ activeStep.active
  /\ vline # 0
  /\ PellLine[vline] # 0
  /\ PellLine[vline] = activeStep.origin
  /\ activeStep.hops < MaxHops

\* events.resume() for the set in hand.  The second one of a set takes the
\* suspension of whatever has been queued since.
ResumeSet ==
  /\ ResumeVm
  /\ released' = IF resumed THEN Len(evq) ELSE released

\* Re-step: a new request, events.resume() - and the set is not finished with.
OnStepAgain ==
  /\ Handling("step")
  /\ StaysOnLine
  /\ activeStep' = [activeStep EXCEPT !.hops = @ + 1]
  /\ stepReq' = TRUE
  /\ currentSet' = TRUE
  /\ ResumeSet
  /\ resumed' = TRUE
  /\ Handled
  /\ UNCHANGED <<vstate, vline, prepared, evq, forUi, reqvars, early, flagvars, taskvars, uivars>>

OnStepDone ==
  /\ Handling("step")
  /\ ~StaysOnLine
  /\ activeStep' = NoStep
  /\ stepReq' = FALSE
  /\ currentSet' = TRUE
  /\ forUi' = TRUE
  /\ ui' = "paused" /\ shown' = vline
  /\ early' = resumed
  /\ Handled
  /\ UNCHANGED <<vstate, susp, vline, prepared, evq, reqvars, resumed, released, flagvars,
                 taskvars, removed, settled, actions>>

OnDeath ==
  /\ Handling("death")
  /\ stopped' = TRUE
  /\ ui' = "running"
  /\ Handled
  /\ UNCHANGED <<vmvars, forUi, reqvars, stepvars, mapsReady, vmSet, attached, taskvars, shown,
                 removed, settled, actions>>

\* Mutant: every set is resumed.
EndSetAlways ==
  /\ evset = <<>>
  /\ Step("set", "loop")
  /\ ResumeSet
  /\ UNCHANGED <<vstate, vline, prepared, stepReq, evq, redo, evset, forUi, classes, reqvars,
                 currentSet, activeStep, resumed, early, flagvars, taskvars, uivars>>

\* Mutant: nothing is resumed at the end.
EndSetNever ==
  /\ evset = <<>>
  /\ Step("set", "loop")
  /\ UNCHANGED <<vmvars, redo, evset, forUi, classes, reqvars, stepvars, flagvars, taskvars,
                 uivars>>

\* End of the set: events.resume() unless something surfaced.
EndSet ==
  /\ evset = <<>>
  /\ Step("set", "loop")
  /\ IF forUi \/ stopped THEN UNCHANGED <<susp, released>> ELSE ResumeSet
  /\ UNCHANGED <<vstate, vline, prepared, stepReq, evq, redo, evset, forUi, classes, reqvars,
                 currentSet, activeStep, resumed, early, flagvars, taskvars, uivars>>

EndLoop ==
  /\ stopped
  /\ Step("loop", "ended")
  /\ UNCHANGED <<vmvars, redo, evset, forUi, classes, reqvars, stepvars, flagvars, taskvars,
                 uivars>>

Engine ==
  MapsBuilt \/ TakeDeferred \/ AddDeferred \/ Accept \/ OpenLatch \/ WatchPending
    \/ EngineScan \/ EngineScanFails \/ EngineArm \/ SendGo \/ StartupFails \/ TargetExits
    \/ TakeSet \/ OnPrepare \/ OnPrepareFails \/ OnBreakpoint \/ OnStepAgain \/ OnStepDone \/ OnDeath \/ EndSet \/ EndLoop

----
(* The user. *)

\* resumeTarget(): the event set last surfaced is resumed, once.  The engine may
\* have a set in hand still; and if the one shown had been resumed before, this
\* is another's suspension.
ResumeTarget ==
  /\ currentSet' = FALSE
  /\ IF currentSet
     THEN /\ ResumeVm
          /\ resumed' = (resumed \/ epc = "set")
          /\ released' = IF early THEN Len(evq) ELSE released
     ELSE UNCHANGED <<susp, resumed, released>>
  /\ UNCHANGED early

UserGoes == ui = "paused" /\ actions < MaxActions /\ actions' = actions + 1 /\ ui' = "running"

\* step(): the pell position of the top frame now is where it must lead away from.
UserStep ==
  /\ UserGoes
  /\ activeStep' = [active |-> TRUE, hops |-> 0,
                    origin |-> IF vline = 0 THEN 0 ELSE PellLine[vline]]
  /\ stepReq' = TRUE
  /\ ResumeTarget
  /\ UNCHANGED <<vstate, vline, prepared, evq, engvars, reqvars, flagvars, taskvars, shown,
                 removed, settled>>

UserResume ==
  /\ UserGoes
  /\ activeStep' = NoStep
  /\ stepReq' = FALSE
  /\ ResumeTarget
  /\ UNCHANGED <<vstate, vline, prepared, evq, engvars, reqvars, flagvars, taskvars, shown,
                 removed, settled>>

\* stop(): ends what there is by now; startDebugSession() does not look.
UserStop ==
  /\ ~stopped
  /\ stopped' = TRUE
  /\ ui' = "running"
  /\ vstate' = IF vstate = "absent" THEN "absent" ELSE "ended"
  /\ UNCHANGED <<susp, vline, prepared, stepReq, evq, engvars, reqvars, stepvars, mapsReady,
                 vmSet, attached, taskvars, shown, removed, settled, actions>>

User ==
  \/ \E b \in Bps : Register(b) \/ Unregister(b)
  \/ UserStep
  \/ UserResume
  \/ UserStop

Next == User \/ (\E b \in Bps : AddTask(b) \/ RemoveTask(b)) \/ Engine \/ Vm

Spec == Init /\ [][Next]_vars

Fairness == WF_vars(Engine)

FairSpec == Spec /\ Fairness

----
(* Properties. *)

\* Once a unit has been prepared and its event handled, no breakpoint of it is
\* left pending: pending first, then the latch; the request first, then the
\* scan of the classes (addBreakpoint against startup, ClassPrepare and other
\* tasks).  Two failures are the exceptions: a breakpoint that was tried and
\* refused (armOn, allClasses), and one of a unit whose ClassPrepare request
\* had failed, until the classes are read again (ensureClassPrepareFor).
Arming(b) == task[b] \in {"latch", "watch", "enable", "scan", "arm"}
PrepareComing ==
  \E i \in 1..Len(evq) : \E j \in 1..Len(evq[i]) : evq[i][j].kind = "prepare"
NothingLeftPending ==
  epc = "loop" /\ ~stopped =>
    \A b \in pending \ refused :
      BpUnit(b) \in prepared \ missed => PrepareComing \/ \E c \in Bps : Arming(c)

\* A breakpoint that was through when it was removed stays removed, whatever
\* armWhatWeCan() runs meanwhile (removeBreakpoint).
RemovalSticks ==
  \A b \in settled : rem[b] = "done" => b \notin pending \cup armed

\* A session shown as paused at a line is a VM suspended there, in that line,
\* unless the very set shown had been resumed when it surfaced: by its own hop,
\* by the user between two events of it, or by the second resume of a set
\* before it (suspendForUi, resumeTarget; OnStepAgain followed by EndSet).
PausedUnlessEarly ==
  ui = "paused" /\ ~stopped /\ ~early => susp > 0 /\ vline = shown

\* The VM never stays suspended behind the user's back: an event set that
\* surfaces nothing is resumed (eventLoop; hops, ClassPrepare).
SuspensionsEnd == susp > 0 ~> susp = 0 \/ ui = "paused" \/ stopped
====
