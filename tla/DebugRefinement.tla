---- MODULE DebugRefinement ----
(***************************************************************************)
(* How DebugServe implements DebugProtocol: what the protocol's requests,  *)
(* noise and phases are in the state of the process.                       *)
(***************************************************************************)
EXTENDS DebugServe, FiniteSets

WellFormed(c) == c.kind # "bad"

\* The lines the reader thread has not come to, well-formed or not.
Unread == (nread + 1)..Len(written)
Waiting == {i \in Unread : WellFormed(written[i])}

\* The elements of s at the places P, in the order of s.
Rank(P, i) == Cardinality({j \in P : j <= i})
Place(P, k) == CHOOSE i \in P : Rank(P, i) = k
InOrder(s, P) == [k \in 1..Cardinality(P) |-> s[Place(P, k)]]

\* Requests without an answer: the command in hand, the queue, what is still
\* in the pipe, and the stop that end of file stands for.
InHand == IF cur = NoCmd THEN <<>> ELSE <<cur>>
InPipe == InOrder(written, Waiting)
AtEof == IF eof /\ reader # "ended" THEN <<StopCmd>> ELSE <<>>

PendingMap == (InHand \o cmds) \o (InPipe \o AtEof)

NoiseMap == Cardinality(Unread \ Waiting)

PhaseMap ==
  IF pc \in StartingPCs THEN "starting"
  ELSE IF pc \in {"close", "exit"} THEN "over"
  ELSE "serving"

Protocol == INSTANCE DebugProtocol
  WITH Requests <- {c \in Inputs : WellFormed(c)},
       phase <- PhaseMap, pending <- PendingMap, noise <- NoiseMap

\* The serve process answers its requests as DebugProtocol promises: one answer
\* each, in order, between ready and terminated, whatever the threads do
\* (the loop of serve(), read_stdin and finish).
ImplementsProtocol == Protocol!PSpec
====
