---- MODULE MCSources ----
(***************************************************************************)
(* A text under the eyes of the compiler, or of the editor: MCFrontEnd's   *)
(* sources are parsed and analysed while the editor shows an empty file,   *)
(* MCScanning's files are typed while the compiler is done with an empty   *)
(* cell.  The two share nothing but the language.                          *)
(***************************************************************************)
EXTENDS MCFrontEnd, MCScanning

EmptyFile == File(<<>>, {}, <<>>, 0)
NoTree == [header |-> <<>>, items |-> <<>>, stmts |-> <<>>]
EmptyCell == [kind |-> "cell", written |-> TRUE, toks |-> <<Tk("EOF")>>, tree |-> NoTree]
CompilerDone ==
  /\ src = EmptyCell /\ pos = 1 /\ status = "done"
  /\ header = <<>> /\ items = <<>> /\ stmts = <<>>

SourcesInit == \/ (StartsAsWritten \/ StartsDamaged) /\ Open(EmptyFile)
               \/ CompilerDone /\ \E f \in Files : Open(f)
SourcesNext == \/ Next /\ UNCHANGED scanned
               \/ Typing /\ UNCHANGED vars
SourcesSpec == SourcesInit /\ [][SourcesNext]_<<vars, scanned>>
====
