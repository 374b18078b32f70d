---- MODULE MCDeploy ----
(***************************************************************************)
(* A project for TLC to deploy: `a` is installed before `b`, which it      *)
(* calls, and `b` before `c`, whose types its second version needs and     *)
(* which is in a directory of its own.                                     *)
(***************************************************************************)
EXTENDS Deploy

Source(offers, specNeeds, bodyNeeds, errors) ==
  [parses |-> TRUE, emits |-> TRUE, stub |-> FALSE, errors |-> errors,
   offers |-> offers, specNeeds |-> specNeeds, bodyNeeds |-> bodyNeeds]
RT == "pell_runtime"
MyOrder == <<"a", "b", "c", "sys">>
MyDirectory == [m \in {"a", "b", "c", "sys"} |-> IF m = "c" THEN {"c"} ELSE {"a", "b", "c", "sys"}]
MyText ==
  [a |-> <<Source({"f"}, {}, {<<"b", "g">>}, {}),
           Source({"f"}, {}, {<<"b", "h">>}, {})>>,
   b |-> <<Source({"g"}, {}, {<<RT, "b_e">>}, {"b_e"}),
           Source({"h"}, {<<"c", "t">>}, {<<RT, "b_e">>}, {"b_e"})>>,
   c |-> <<Source({"t"}, {}, {<<RT, "c_e">>}, {"c_e"}),
           [Source({}, {}, {}, {}) EXCEPT !.parses = FALSE]>>,
   sys |-> <<[Source({}, {}, {}, {}) EXCEPT !.stub = TRUE],
             [Source({}, {}, {}, {}) EXCEPT !.stub = TRUE, !.emits = FALSE]>>]
====
