---- MODULE ProbeTarget ----
(***************************************************************************)
(* The target database session of `pell debug-serve`, seen through         *)
(* DBMS_DEBUG.  Oracle is not part of the repository: this module is the   *)
(* environment debug_serve.py is written against, reconstructed from the   *)
(* calls it makes and from the protocol facts its comments record.         *)
(*                                                                         *)
(* The debugged block is a flow graph over the lines of one unit.  Line 0  *)
(* is interpreter_starting, where the session waits for the debugger       *)
(* before any code runs.                                                   *)
(***************************************************************************)
EXTENDS Naturals

CONSTANTS
  Lines,      \* executable lines of the debugged unit
  Flow,       \* [{0} \cup Lines -> SUBSET Lines]: where execution may go next
  Exits       \* lines after which the block may reach its END

ASSUME LinesAssumption == Lines \subseteq Nat \ {0}
ASSUME FlowAssumption == Flow \in [{0} \cup Lines -> SUBSET Lines]
ASSUME ExitsAssumption == Exits \subseteq {0} \cup Lines

StepFlags == {"step_over", "step_into", "step_out"}
Flags == {"run", "abort"} \cup StepFlags

\* booting   execute() was called, the interpreter has not started
\* suspended waiting for a debugger command
\* running   executing user code under `flags`
\* exiting   the block is over; execute() returns when the debugger detaches
\* over      execute() can return
TargetStates == {"booting", "suspended", "running", "exiting", "over"}

VARIABLES
  tstate,     \* state of the session, in TargetStates
  tline,      \* line it is at
  flags,      \* break flags of the last continue
  armed,      \* lines that carry a breakpoint
  attached,   \* a control session is attached
  debugOn,    \* debug_off has not run in this session
  raised      \* the block ended with an exception

tvars == <<tstate, tline, flags, armed, attached, debugOn, raised>>

TargetTypeOK ==
  /\ tstate \in TargetStates
  /\ tline \in {0} \cup Lines
  /\ flags \in Flags
  /\ armed \subseteq Lines
  /\ attached \in BOOLEAN
  /\ debugOn \in BOOLEAN
  /\ raised \in BOOLEAN

\* The control session attaches before the target thread starts.
TargetInit ==
  /\ tstate = "booting"
  /\ tline = 0
  /\ flags = "run"
  /\ armed = {}
  /\ attached = TRUE
  /\ debugOn = TRUE
  /\ raised = FALSE

----
(* Steps of the session itself. *)

\* The interpreter starts and waits for the debugger.
Boot ==
  /\ tstate = "booting"
  /\ tstate' = "suspended"
  /\ UNCHANGED <<tline, flags, armed, attached, debugOn, raised>>

\* The block does not compile: execute() raises without any debug event.
BootFails ==
  /\ tstate = "booting"
  /\ tstate' = "over"
  /\ raised' = TRUE
  /\ UNCHANGED <<tline, flags, armed, attached, debugOn>>

\* Execution reaches the next line.  A breakpoint stops it there; a step may
\* stop at any line (the next one, a callee's, the caller's).
Advance ==
  /\ tstate = "running"
  /\ flags # "abort"
  /\ \E l \in Flow[tline] :
       /\ tline' = l
       /\ \/ /\ attached
             /\ l \in armed \/ flags \in StepFlags
             /\ tstate' = "suspended"
          \/ /\ attached => l \notin armed
             /\ UNCHANGED tstate
  /\ UNCHANGED <<flags, armed, attached, debugOn, raised>>

\* The block's last statement is the inserted dbms_debug.debug_off.
Complete ==
  /\ tstate = "running"
  /\ flags # "abort"
  /\ tline \in Exits
  /\ tstate' = "exiting"
  /\ debugOn' = FALSE
  /\ UNCHANGED <<tline, flags, armed, attached, raised>>

\* The block raises, or was aborted: debug_off never runs.
Raise ==
  /\ tstate = "running"
  /\ tstate' = "exiting"
  /\ raised' = TRUE
  /\ UNCHANGED <<tline, flags, armed, attached, debugOn>>

\* The session's wait for the next debugger command times out.  With
\* retry_on_timeout it goes on waiting, else it resumes on its own.
WaitExpires(behaviour) ==
  /\ tstate = "suspended"
  /\ tstate' = IF behaviour = "retry" THEN "suspended" ELSE "running"
  /\ UNCHANGED <<tline, flags, armed, attached, debugOn, raised>>

\* The session is killed.
Killed ==
  /\ tstate \in {"suspended", "running"}
  /\ tstate' = "over"
  /\ raised' = TRUE
  /\ UNCHANGED <<tline, flags, armed, attached, debugOn>>

----
(* What a call on the control session does to the target. *)

\* dbms_debug.continue: a waiting target runs on under the new flags.
Continue(f) ==
  /\ IF tstate = "suspended"
     THEN tstate' = "running" /\ flags' = f
     ELSE UNCHANGED <<tstate, flags>>
  /\ UNCHANGED <<tline, armed, attached, debugOn, raised>>

SetBreakpoint(l) ==
  /\ armed' = armed \cup ({l} \cap Lines)
  /\ UNCHANGED <<tstate, tline, flags, attached, debugOn, raised>>

DetachSession ==
  /\ attached' = FALSE
  /\ UNCHANGED <<tstate, tline, flags, armed, debugOn, raised>>

\* execute() on the target connection has a result to return.
ExecuteReturns == tstate = "over" \/ (tstate = "exiting" /\ ~attached)
====
