---- MODULE MCDebugServe ----
(***************************************************************************)
(* A small instance of DebugServe for TLC: a block of two lines with a     *)
(* loop back to the first, and the refinement of DebugProtocol.            *)
(***************************************************************************)
EXTENDS DebugRefinement, TLC

TwoLines == {1, 2}
LoopFlow == (0 :> {1}) @@ (1 :> {2}) @@ (2 :> {1})
LoopExits == {2}

C(k, l) == [kind |-> k, line |-> l]

\* What can meet the target or end the process.
AllInputs ==
  {C("set_breakpoint", 1), C("continue", 0), C("step_out", 0), C("locals", 0), C("stop", 0),
   C("value", 0), C("bad", 0)}

\* What answers at once, what blocks, and what ends the loop; line 3 is not a line of the unit.
LiveInputs ==
  {C("set_breakpoint", 3), C("continue", 0), C("stop", 0), C("unknown", 0), C("value", 0), C("bad", 0)}
====
