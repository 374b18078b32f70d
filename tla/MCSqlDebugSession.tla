---- MODULE MCSqlDebugSession ----
(***************************************************************************)
(* Small instances of SqlDebugSession for TLC: three unit lines, the first *)
(* two of one pell statement; the second is a loop of its own.             *)
(***************************************************************************)
EXTENDS SqlDebugSession, TLC

ThreeLines == {1, 2, 3}
BlockFlow == (0 :> {1}) @@ (1 :> {2}) @@ (2 :> {2, 3}) @@ (3 :> {})
BlockExits == {3}
PellLines == (1 :> 10) @@ (2 :> 10) @@ (3 :> 11)

CONSTANTS b1, r1

OneBp == {b1}
OneBpLine == b1 :> 1
NoReqs == {}
OneReq == {r1}
NoInputs == {}
====
