---- MODULE MCJdwpDebug ----
(***************************************************************************)
(* Small instances of JdwpDebug for TLC: a script block (line 1) that      *)
(* calls a package; the package's line 2 loops and is one pell statement   *)
(* with line 3.                                                            *)
(***************************************************************************)
EXTENDS JdwpDebug, TLC

ThreeLines == {1, 2, 3}
TwoUnits == (1 :> "block") @@ (2 :> "package") @@ (3 :> "package")
CallFlow == (0 :> {1}) @@ (1 :> {2}) @@ (2 :> {2, 3}) @@ (3 :> {1})
CallExits == {1}
PellLines == (1 :> 5) @@ (2 :> 10) @@ (3 :> 10)

CONSTANTS b1, b2

OneBp == {b1}
BlockBp == b1 :> 1
BodyBp == b1 :> 2
TwoBps == {b1, b2}
BothInBody == (b1 :> 2) @@ (b2 :> 3)
====
