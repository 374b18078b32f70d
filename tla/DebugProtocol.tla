---- MODULE DebugProtocol ----
(***************************************************************************)
(* What `pell debug-serve` promises whoever drives it, with no thread, no  *)
(* queue and no database: requests are answered one by one in the order    *)
(* they were made, between one ready and at most one terminated.  Lines    *)
(* that are not JSON are complained about out of turn; one that is JSON    *)
(* but no object kills the process.                                        *)
(***************************************************************************)
EXTENDS Naturals, Sequences

CONSTANTS
  Requests,   \* the well-formed lines
  GoKinds,    \* kinds of request that let the target run
  StopCmd     \* the request end of file stands for

VARIABLES
  phase,      \* "starting", "serving" or "over"
  pending,    \* requests not answered yet, oldest first
  noise,      \* malformed lines not complained about yet
  events      \* the event lines

pvars == <<phase, pending, noise, events>>

PEvent(e, l, i) == [event |-> e, line |-> l, info |-> i]
PEmit(ev) == events' = Append(events, ev)
LastEvent == events[Len(events)]

Complaint == PEvent("error", 0, "bad_command")
Failure == PEvent("error", 0, "failed")

PInit ==
  /\ phase = "starting"
  /\ pending = <<>>
  /\ noise = 0
  /\ events = <<>>

Request ==
  /\ \E c \in Requests \cup {StopCmd} : pending' = Append(pending, c)
  /\ UNCHANGED <<phase, noise, events>>

BadLine ==
  /\ noise' = noise + 1
  /\ UNCHANGED <<phase, pending, events>>

Ready ==
  /\ phase = "starting"
  /\ phase' = "serving"
  /\ PEmit(PEvent("ready", 0, "none"))
  /\ UNCHANGED <<pending, noise>>

\* There is no session to debug.
Refuse ==
  /\ phase = "starting"
  /\ phase' = "over"
  /\ \E e \in {"raised", "no_session"} : PEmit(PEvent("terminated", 0, e))
  /\ UNCHANGED <<pending, noise>>

\* The event that answers request c, of the kind c asks for and about the line
\* c names; a request that fails or is unknown is answered by an error.
IsAnswer(ev, c) ==
  \/ ev = Failure /\ c.kind \notin {"unknown", "value"}
  \/ ev = Complaint /\ c.kind = "unknown"
  \/ c.kind = "set_breakpoint" /\ ev.event = "bp_set" /\ ev.line = c.line
  \/ c.kind \in GoKinds /\ ev.event = "suspended"
  \/ c.kind = "locals" /\ ev.event = "locals"

Reply ==
  /\ phase = "serving"
  /\ pending # <<>>
  /\ Len(events') = Len(events) + 1
  /\ SubSeq(events', 1, Len(events)) = events
  /\ IsAnswer(events'[Len(events')], Head(pending))
  /\ pending' = Tail(pending)
  /\ UNCHANGED <<phase, noise>>

\* Not before ready, but as long as the process lives.
Complain ==
  /\ phase # "starting"
  /\ noise > 0
  /\ noise' = noise - 1
  /\ PEmit(Complaint)
  /\ UNCHANGED <<phase, pending>>

\* The session ends as the answer to a stop or to a request that let the target
\* run, or on its own right after a failure.
End ==
  /\ phase = "serving"
  /\ phase' = "over"
  /\ \E e \in {"none", "output", "raised", "aborted"} :
       /\ PEmit(PEvent("terminated", 0, e))
       /\ \/ /\ pending # <<>>
             /\ Head(pending).kind \in IF e = "aborted" THEN {"stop"} ELSE GoKinds
             /\ pending' = Tail(pending)
          \/ /\ e # "aborted"
             /\ \E k \in 1..Len(events) : events[k] = Failure
             /\ UNCHANGED pending
  /\ UNCHANGED noise

\* A start-up call raised: the process dies without a word.
Crash ==
  /\ phase # "over"
  /\ \A k \in 1..Len(events) : events[k].event = "ready" \/ events[k] = Complaint
  /\ phase' = "over"
  /\ UNCHANGED <<pending, noise, events>>

\* A request that is no object, when its turn comes.
Choke ==
  /\ phase = "serving"
  /\ pending # <<>>
  /\ Head(pending).kind = "value"
  /\ phase' = "over"
  /\ pending' = Tail(pending)
  /\ UNCHANGED <<noise, events>>

PNext ==
  Request \/ BadLine \/ Ready \/ Refuse \/ Reply \/ Complain \/ End \/ Crash \/ Choke

PSpec == PInit /\ [][PNext]_pvars
====
