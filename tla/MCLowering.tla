---- MODULE MCLowering ----
(***************************************************************************)
(* Functions for TLC to run Lowering on: each of the constructs alone and  *)
(* in the combinations the compiler accepts.                               *)
(***************************************************************************)
EXTENDS Lowering, TLC

S(op, arg) == [op |-> op, arg |-> arg]
Fn(body, fin, retry, autonomous) ==
  [body |-> body, finally |-> fin, retry |-> retry, autonomous |-> autonomous]

Blocks ==
  [fails    |-> <<S("err", NoArg)>>,
   leaves   |-> <<S("return", NoArg)>>,
   \* examples/03_transfer.pell
   move     |-> <<S("dml", "debit"), S("if", "fails"), S("dml", "credit")>>,
   transfer |-> <<S("transaction", "move"), S("return", NoArg)>>,
   \* a return out of a transaction block, past an IF
   claimTx  |-> <<S("dml", "lock"), S("if", "leaves"), S("dml", "use")>>,
   claim    |-> <<S("transaction", "claimTx"), S("dml", "note")>>,
   \* finally around a transaction, its own statement may fail
   cleanup  |-> <<S("dml", "log")>>,
   tidy     |-> <<S("dml", "row"), S("if", "fails"), S("transaction", "claimTx")>>,
   audit    |-> <<S("dml", "trail"), S("if", "fails")>>,
   helper   |-> <<S("dml", "part"), S("call", "audit")>>,
   again    |-> <<S("dml", "try"), S("call", "helper"), S("if", "leaves"), S("if", "fails")>>,
   \* a transaction block around calls
   batchTx  |-> <<S("call", "helper"), S("call", "again")>>,
   batch    |-> <<S("transaction", "batchTx")>>,
   main     |-> <<S("dml", "first"), S("call", "tidy"), S("call", "claim")>>,
   \* nested transactions, nested attempts, a return in an autonomous function
   innerTx  |-> <<S("dml", "inner")>>,
   outerTx  |-> <<S("dml", "outer"), S("transaction", "innerTx"), S("if", "fails")>>,
   outer    |-> <<S("transaction", "outerTx")>>,
   twice    |-> <<S("dml", "own"), S("call", "again"), S("if", "fails")>>,
   \* an attempt with a transaction block and an autonomous call of its own
   step     |-> <<S("dml", "step"), S("if", "fails")>>,
   job      |-> <<S("call", "audit"), S("transaction", "step"), S("if", "fails")>>,
   logId    |-> <<S("dml", "trail"), S("return", NoArg)>>,
   logged   |-> <<S("call", "logId")>>]

Functions ==
  [transfer |-> Fn("transfer", NoBlock, 0, FALSE),
   claim    |-> Fn("claim", NoBlock, 0, FALSE),
   tidy     |-> Fn("tidy", "cleanup", 0, FALSE),
   audit    |-> Fn("audit", NoBlock, 0, TRUE),
   helper   |-> Fn("helper", NoBlock, 0, FALSE),
   again    |-> Fn("again", NoBlock, 2, FALSE),
   batch    |-> Fn("batch", NoBlock, 0, FALSE),
   main     |-> Fn("main", NoBlock, 0, FALSE),
   outer    |-> Fn("outer", NoBlock, 0, FALSE),
   twice    |-> Fn("twice", NoBlock, 2, FALSE),
   job      |-> Fn("job", NoBlock, 2, FALSE),
   logId    |-> Fn("logId", NoBlock, 0, TRUE),
   logged   |-> Fn("logged", NoBlock, 0, FALSE)]

FnNames == DOMAIN Functions

AllMains == {"transfer", "claim", "tidy", "again", "batch", "main", "outer", "twice", "job", "logged"}
NestedMains == {"outer"}
====
