---- MODULE DebugRefinement_proofs ----
(***************************************************************************)
(* DebugServe implements DebugProtocol, for every block, every set of      *)
(* input lines and every bound.                                            *)
(***************************************************************************)
EXTENDS DebugRefinement, DebugServe_proofs, FiniteSetTheorems, FunctionTheorems,
        SequenceTheorems

----
(* Picking the elements at some places of a sequence, in order. *)

\* The places of a set are counted through by their ranks.
LEMMA RankIs ==
  ASSUME NEW P \in SUBSET Nat, IsFiniteSet(P)
  PROVE  /\ Cardinality(P) \in Nat
         /\ \A i \in P : Rank(P, i) \in 1..Cardinality(P)
         /\ \A i \in P, j \in P : Rank(P, i) = Rank(P, j) => i = j
         /\ \A k \in 1..Cardinality(P) : Place(P, k) \in P /\ Rank(P, Place(P, k)) = k
         /\ \A i \in P : Place(P, Rank(P, i)) = i
<1> DEFINE upto(i) == {j \in P : j <= i}
           rank == [i \in P |-> Rank(P, i)]
           T == 1..Cardinality(P)
<1>1. IsFiniteSet(P) /\ Cardinality(P) \in Nat
  BY FS_CardinalityType
<1>2. \A i \in P : /\ IsFiniteSet(upto(i)) /\ Cardinality(upto(i)) \in Nat
                   /\ Cardinality(upto(i)) <= Cardinality(P) /\ upto(i) # {}
  <2> TAKE i \in P
  <2>1. upto(i) \in SUBSET P /\ i \in upto(i)
    OBVIOUS
  <2> QED BY <1>1, <2>1, FS_Subset, FS_CardinalityType
<1>3. \A i \in P : Rank(P, i) \in T
  <2> TAKE i \in P
  <2>1. Cardinality(upto(i)) # 0
    BY <1>2, FS_EmptySet
  <2> QED BY <1>1, <1>2, <2>1 DEF Rank
<1>4. \A i \in P, j \in P : Rank(P, i) = Rank(P, j) => i = j
  <2>1. ASSUME NEW i \in P, NEW j \in P, i < j PROVE Rank(P, i) # Rank(P, j)
    <3>1. upto(i) \in SUBSET upto(j) /\ j \in upto(j) /\ j \notin upto(i)
      <4>1. i \in Nat /\ j \in Nat /\ ~(j <= i) /\ j <= j
        BY <2>1
      <4>2. \A l \in P : l <= i => l <= j
        BY <2>1
      <4> QED BY <4>1, <4>2
    <3>2. Cardinality(upto(j)) = Cardinality(upto(i)) => upto(j) = upto(i)
      BY <1>2, <3>1, FS_Subset
    <3> QED BY <3>1, <3>2 DEF Rank
  <2> QED BY <2>1
<1>5. \A k \in T : \E i \in P : Rank(P, i) = k
  <2>1. rank \in Injection(P, T)
    BY <1>3, <1>4 DEF Injection, IsInjective
  <2>2. IsFiniteSet(T) /\ Cardinality(T) = Cardinality(P)
    BY <1>1, FS_Interval
  <2>3. rank \in Surjection(P, T)
    BY <2>1, <2>2, FS_Injection
  <2> QED BY <2>3 DEF Surjection
<1>6. \A k \in T : Place(P, k) \in P /\ Rank(P, Place(P, k)) = k
  BY <1>5 DEF Place
<1> QED BY <1>1, <1>3, <1>4, <1>6

LEMMA PlacesFinite ==
  ASSUME NEW n \in Nat, NEW P \in SUBSET (1..n)
  PROVE  P \in SUBSET Nat /\ IsFiniteSet(P)
<1>1. IsFiniteSet(1..n)
  BY FS_Interval
<1>2. IsFiniteSet(P)
  BY <1>1, FS_Subset
<1> QED BY <1>2

\* What is picked from a sequence is a sequence of its elements, and depends on
\* those elements only.
LEMMA InOrderIs ==
  ASSUME NEW S, NEW s \in Seq(S), NEW P \in SUBSET (1..Len(s))
  PROVE  /\ InOrder(s, P) \in Seq(S)
         /\ Len(InOrder(s, P)) = Cardinality(P) /\ Cardinality(P) \in Nat
         /\ \A i \in P : Rank(P, i) \in 1..Cardinality(P) /\ InOrder(s, P)[Rank(P, i)] = s[i]
<1>1. P \in SUBSET Nat /\ IsFiniteSet(P)
  BY PlacesFinite, LenProperties
<1>2. \A k \in 1..Cardinality(P) : s[Place(P, k)] \in S
  <2> TAKE k \in 1..Cardinality(P)
  <2>1. Place(P, k) \in P
    BY <1>1, RankIs
  <2>2. Place(P, k) \in 1..Len(s)
    BY <2>1
  <2> QED BY <2>2, ElementOfSeq
<1>3. Cardinality(P) \in Nat
  BY <1>1, RankIs
<1>4. InOrder(s, P) \in Seq(S) /\ Len(InOrder(s, P)) = Cardinality(P)
  BY <1>2, <1>3 DEF InOrder
<1>5. \A i \in P : Rank(P, i) \in 1..Cardinality(P) /\ Place(P, Rank(P, i)) = i
  BY <1>1, RankIs
<1> QED BY <1>3, <1>4, <1>5 DEF InOrder

LEMMA InOrderSame ==
  ASSUME NEW S, NEW s \in Seq(S), NEW P \in SUBSET (1..Len(s)), NEW t,
         \A i \in P : t[i] = s[i]
  PROVE  InOrder(t, P) = InOrder(s, P)
<1>1. P \in SUBSET Nat /\ IsFiniteSet(P)
  BY PlacesFinite, LenProperties
<1>2. \A k \in 1..Cardinality(P) : Place(P, k) \in P
  BY <1>1, RankIs
<1> QED BY <1>2 DEF InOrder

\* One more place behind all others appends its element.
LEMMA InOrderAppends ==
  ASSUME NEW S, NEW s \in Seq(S), NEW e \in S, NEW P \in SUBSET (1..Len(s))
  PROVE  InOrder(Append(s, e), P \cup {Len(s) + 1}) = Append(InOrder(s, P), e)
<1> DEFINE m == Len(s) + 1
           t == Append(s, e)
           Q == P \cup {m}
<1>1. /\ t \in Seq(S) /\ Len(t) = m /\ t[m] = e /\ m \in Nat
      /\ \A i \in P : t[i] = s[i]
  <2>1. P \in SUBSET (1..Len(s)) /\ Len(s) \in Nat
    BY LenProperties
  <2> QED BY <2>1, AppendProperties
<1>2. Q \in SUBSET (1..m) /\ m \notin P /\ \A i \in P : ~(m <= i)
  <2>1. P \in SUBSET (1..Len(s)) /\ Len(s) \in Nat
    BY LenProperties
  <2>2. \A i \in P : i \in 1..m /\ ~(m <= i)
    BY <2>1
  <2>3. m \in 1..m /\ m <= m
    BY <2>1
  <2> QED BY <2>2, <2>3
<1>p. /\ P \in SUBSET Nat /\ IsFiniteSet(P)
      /\ Q \in SUBSET Nat /\ IsFiniteSet(Q)
  BY <1>1, <1>2, PlacesFinite, LenProperties
<1>3. IsFiniteSet(P) /\ Cardinality(P) \in Nat /\ Cardinality(Q) = Cardinality(P) + 1
  BY <1>p, <1>2, RankIs, FS_AddElement
<1>4. Rank(Q, m) = Cardinality(P) + 1
  <2>1. {j \in Q : j <= m} = Q
    BY <1>2
  <2> QED BY <1>3, <2>1 DEF Rank
<1>5. \A i \in P : Rank(Q, i) = Rank(P, i)
  <2> TAKE i \in P
  <2>1. {j \in Q : j <= i} = {j \in P : j <= i}
    BY <1>2
  <2> QED BY <2>1 DEF Rank
<1>6. \A k \in 1..Cardinality(P) : Place(Q, k) = Place(P, k) /\ Place(P, k) \in P
  <2> TAKE k \in 1..Cardinality(P)
  <2>1. Place(P, k) \in P /\ Rank(P, Place(P, k)) = k
    BY <1>p, RankIs
  <2>2. Rank(Q, Place(P, k)) = k /\ Place(P, k) \in Q
    BY <1>5, <2>1
  <2>3. Place(Q, Rank(Q, Place(P, k))) = Place(P, k)
    BY <1>p, <2>2, RankIs
  <2> QED BY <2>1, <2>2, <2>3
<1>7. Place(Q, Cardinality(P) + 1) = m
  BY <1>p, <1>4, RankIs
<1>8. InOrder(t, Q) \in Seq(S) /\ Len(InOrder(t, Q)) = Cardinality(P) + 1
  BY <1>1, <1>2, <1>3, InOrderIs
<1>9. InOrder(s, P) \in Seq(S) /\ Len(InOrder(s, P)) = Cardinality(P)
  BY InOrderIs
<1>10. \A k \in 1..Cardinality(P) : InOrder(t, Q)[k] = InOrder(s, P)[k]
  <2> HIDE DEF t, Q
  <2> TAKE k \in 1..Cardinality(P)
  <2>1. k \in 1..Cardinality(Q)
    BY <1>3
  <2>2. InOrder(t, Q)[k] = t[Place(Q, k)] /\ InOrder(s, P)[k] = s[Place(P, k)]
    BY <2>1 DEF InOrder
  <2> QED BY <1>1, <1>6, <2>2
<1>11. InOrder(t, Q)[Cardinality(P) + 1] = e
  BY <1>1, <1>3, <1>7 DEF InOrder
<1> DEFINE a == Append(InOrder(s, P), e)
           b == InOrder(t, Q)
<1>12. /\ a \in Seq(S) /\ Len(a) = Cardinality(P) + 1 /\ a[Cardinality(P) + 1] = e
       /\ \A k \in 1..Cardinality(P) : a[k] = InOrder(s, P)[k]
  BY <1>9, AppendProperties
<1>13. \A k \in 1..Len(b) : b[k] = a[k]
  <2> HIDE DEF a, b
  <2> TAKE k \in 1..Len(b)
  <2>1. k \in 1..Cardinality(P) \/ k = Cardinality(P) + 1
    BY <1>3, <1>8 DEF b
  <2>2. b[Cardinality(P) + 1] = e /\ \A i \in 1..Cardinality(P) : b[i] = a[i]
    BY <1>10, <1>11, <1>12 DEF b
  <2> QED BY <2>1, <2>2, <1>12
<1> QED BY <1>8, <1>12, <1>13, SeqEqual

\* One place before all others puts its element first.
LEMMA InOrderStarts ==
  ASSUME NEW S, NEW s \in Seq(S), NEW m \in 1..Len(s), NEW P \in SUBSET ((m + 1)..Len(s))
  PROVE  InOrder(s, P \cup {m}) = <<s[m]>> \o InOrder(s, P)
<1> DEFINE Q == P \cup {m}
           n == Cardinality(P)
<1>1. /\ Len(s) \in Nat /\ P \in SUBSET (1..Len(s)) /\ Q \in SUBSET (1..Len(s))
      /\ m \notin P /\ s[m] \in S /\ \A i \in P : ~(i <= m) /\ m <= i
  BY LenProperties
<1>p. /\ P \in SUBSET Nat /\ IsFiniteSet(P)
      /\ Q \in SUBSET Nat /\ IsFiniteSet(Q)
  BY <1>1, PlacesFinite
<1>2. IsFiniteSet(P) /\ n \in Nat /\ Cardinality(Q) = n + 1
  BY <1>p, <1>1, RankIs, FS_AddElement
<1>3. Rank(Q, m) = 1
  <2>1. m <= m /\ \A j \in Q : j <= m => j = m
    BY <1>1
  <2>2. {j \in Q : j <= m} = {m}
    BY <2>1
  <2> QED BY <2>2, FS_Singleton DEF Rank
<1>4. \A i \in P : Rank(Q, i) = Rank(P, i) + 1
  <2> TAKE i \in P
  <2>1. {j \in Q : j <= i} = {j \in P : j <= i} \cup {m}
    <3>1. m <= i
      BY <1>1
    <3> QED BY <3>1
  <2>2. IsFiniteSet({j \in P : j <= i}) /\ m \notin {j \in P : j <= i}
    BY <1>1, <1>2, FS_Subset
  <2> QED BY <2>1, <2>2, FS_AddElement DEF Rank
<1>5. Place(Q, 1) = m
  BY <1>p, <1>3, RankIs
<1>6. \A k \in 1..n : Place(Q, k + 1) = Place(P, k)
  <2> TAKE k \in 1..n
  <2>1. Place(P, k) \in P /\ Rank(P, Place(P, k)) = k
    BY <1>p, RankIs
  <2>2. Rank(Q, Place(P, k)) = k + 1 /\ Place(P, k) \in Q
    BY <1>4, <2>1
  <2>3. Place(Q, Rank(Q, Place(P, k))) = Place(P, k)
    BY <1>p, <2>2, RankIs
  <2> QED BY <2>2, <2>3
<1> DEFINE b == InOrder(s, Q)
           c == InOrder(s, P)
           a == <<s[m]>> \o c
<1>7. b \in Seq(S) /\ Len(b) = n + 1
  BY <1>1, <1>2, InOrderIs
<1>8. c \in Seq(S) /\ Len(c) = n
  BY <1>1, InOrderIs
<1>9. /\ a \in Seq(S) /\ Len(a) = n + 1 /\ a[1] = s[m]
      /\ \A k \in 1..n : a[k + 1] = c[k]
  <2> HIDE DEF c, n
  <2> QED BY <1>1, <1>2, <1>8
<1>10. b[1] = s[m] /\ \A k \in 1..n : b[k + 1] = c[k]
  <2>1. b[1] = s[m]
    BY <1>2, <1>5 DEF InOrder
  <2>2. ASSUME NEW k \in 1..n PROVE b[k + 1] = c[k]
    <3>1. k + 1 \in 1..Cardinality(Q) /\ k \in 1..Cardinality(P)
      BY <1>2
    <3> HIDE DEF Q, n
    <3> QED BY <3>1, <1>6, <2>2 DEF InOrder
  <2> QED BY <2>1, <2>2
<1>11. \A k \in 1..Len(b) : b[k] = a[k]
  <2> SUFFICES ASSUME NEW k \in 1..(n + 1) PROVE b[k] = a[k]
    BY <1>7
  <2>1. CASE k = 1
    BY <2>1, <1>9, <1>10
  <2>2. CASE k # 1
    <3>1. k - 1 \in 1..n /\ (k - 1) + 1 = k
      BY <1>2, <2>2
    <3> HIDE DEF a, b, c, n
    <3>2. b[(k - 1) + 1] = c[k - 1] /\ a[(k - 1) + 1] = c[k - 1]
      BY <3>1, <1>9, <1>10
    <3> QED BY <3>1, <3>2
  <2> QED BY <2>1, <2>2
<1> QED BY <1>7, <1>9, <1>11, SeqEqual

----
(* Where the loop, its command and the reader thread are with each other. *)

HasFailed == \E k \in 1..Len(events) : events[k] = Protocol!Failure

\* The reader starts with the ready event, and ends when everything is read.
ReaderInv ==
  /\ nread <= Len(written)
  /\ reader = "ended" => eof /\ nread = Len(written)
  /\ pc \in StartingPCs => reader = "off" /\ events = <<>>
  /\ pc = "user" => \A k \in 1..Len(events) :
       events[k].event = "ready" \/ events[k] = Protocol!Complaint

\* There is a command in hand exactly while one is carried out, and finish() is
\* called for a stop, for a command that let the target run, or after a failure.
HandInv ==
  /\ pc \in StartingPCs \cup {"user", "idle"} => cur = NoCmd
  /\ pc = "exec" => cur # NoCmd
  /\ pc = "cont" => cur.kind \in GoKinds
  /\ pc \in {"abort", "aborting"} => cur.kind = "stop"
  /\ pc \in FinishPCs =>
       IF cur = NoCmd THEN fin = None /\ HasFailed
       ELSE cur.kind \in IF fin = "aborted" THEN {"stop"} ELSE GoKinds
  /\ pc \notin FinishPCs \cup {"close", "exit"} => fin = None

ImplInv == TypeOK /\ ReaderInv /\ HandInv

\* One more event at the end of the log.
LEMMA LogGrows ==
  ASSUME events \in Seq(Events), NEW ev \in Events, Emit(ev)
  PROVE  /\ HasFailed => HasFailed'
         /\ ev = Protocol!Failure => HasFailed'
         /\ \A k \in 1..Len(events') : events'[k] = ev \/ (k \in 1..Len(events) /\ events'[k] = events[k])
         /\ Len(events') = Len(events) + 1 /\ SubSeq(events', 1, Len(events)) = events
         /\ events'[Len(events')] = ev
<1>1. /\ Len(events') = Len(events) + 1 /\ Len(events) \in Nat /\ events' \in Seq(Events)
      /\ events'[Len(events) + 1] = ev
      /\ \A k \in 1..Len(events) : events'[k] = events[k]
  BY AppendProperties DEF Emit
<1>2. \A k \in 1..Len(events') : k \in 1..Len(events) \/ k = Len(events) + 1
  BY <1>1
<1>3. \A k \in 1..Len(events) : k \in 1..Len(events')
  BY <1>1
<1>4. Len(events) + 1 \in 1..Len(events')
  BY <1>1
<1>5. HasFailed => HasFailed'
  BY <1>1, <1>3 DEF HasFailed, Protocol!Failure, Protocol!PEvent
<1>6. ev = Protocol!Failure => HasFailed'
  BY <1>1, <1>4 DEF HasFailed, Protocol!Failure, Protocol!PEvent
<1>7. SubSeq(events', 1, Len(events)) = events
  <2> DEFINE t == SubSeq(events', 1, Len(events))
  <2>1. /\ t \in Seq(Events) /\ Len(t) = Len(events)
        /\ \A k \in 1..Len(events) : t[k] = events'[k]
    BY <1>1
  <2> QED BY <1>1, <2>1, SeqEqual
<1> QED BY <1>1, <1>2, <1>5, <1>6, <1>7

\* One step per action that touches the pipes, the reader or the start.
LEMMA ReaderStep == TypeOK /\ ReaderInv /\ [Next]_vars => ReaderInv'
<1> SUFFICES ASSUME TypeOK, ReaderInv, [Next]_vars PROVE ReaderInv' OBVIOUS
<1>t. /\ nread \in Nat /\ Len(written) \in Nat /\ events \in Seq(Events)
      /\ reader \in {"off", "reading", "ended"} /\ pc \in PCs
  BY DEF TypeOK
<1> DEFINE Quiet(ev) == ev.event = "ready" \/ ev = Protocol!Complaint
<1>f. ASSUME UNCHANGED <<iovars, readervars>>, pc' \notin StartingPCs \cup {"user"} PROVE ReaderInv'
  BY <1>f DEF ReaderInv, iovars, readervars
<1>g. ASSUME UNCHANGED <<iovars, readervars, pc, events>> PROVE ReaderInv'
  BY <1>g DEF ReaderInv, iovars, readervars
<1>1. ASSUME NEW c \in Inputs, Write(c) PROVE ReaderInv'
  <2>1. Len(written') = Len(written) + 1
    BY <1>1, InputsAssumption DEF Write, TypeOK
  <2> QED BY <1>1, <1>t, <2>1 DEF Write, ReaderInv, readervars, servevars
<1>2. CASE CloseStdin
  BY <1>2 DEF CloseStdin, ReaderInv, readervars, servevars
<1>3. CASE ReadCommand \/ ReadEof
  BY <1>3, <1>t DEF ReadCommand, ReadEof, ReaderAlive, ReaderInv, iovars, servevars
<1>4. CASE ReadBadLine
  <2> DEFINE ev == Event("error", 0, "bad_command")
  <2>1. ev \in Events /\ ev = Protocol!Complaint
    BY DEF Event, Events, EventKinds, Infos, Protocol!Complaint, Protocol!PEvent
  <2>2. Emit(ev) /\ UNCHANGED <<reader, pc, written, eof>> /\ nread' = nread + 1 /\ nread < Len(written)
        /\ reader = "reading"
    BY <1>4 DEF ReadBadLine, ReaderAlive, iovars, servevars
  <2>3. \A k \in 1..Len(events') : events'[k] = ev \/ (k \in 1..Len(events) /\ events'[k] = events[k])
    BY <1>t, <2>1, <2>2, LogGrows
  <2>4. Protocol!Complaint' = Protocol!Complaint
    BY DEF Protocol!Complaint, Protocol!PEvent
  <2> HIDE DEF ev
  <2>5. pc' = "user" => \A k \in 1..Len(events') : events'[k].event = "ready" \/ events'[k] = Protocol!Complaint
    BY <2>1, <2>2, <2>3 DEF ReaderInv
  <2> QED BY <1>t, <2>2, <2>4, <2>5 DEF ReaderInv
<1>5. CASE Target
  BY <1>5, <1>g DEF Target, SessionStep, SessionKilled, ExecuteReturned, SignalDone, servevars
<1>6. CASE Startup
  <2>1. CASE Synchronize \/ PollAgain
    BY <2>1 DEF Synchronize, PollAgain, ReaderInv, iovars, readervars, StartingPCs
  <2>2. CASE NoSession \/ ResolveUser \/ StartupCrash
    BY <2>2, <1>f DEF NoSession, ResolveUser, StartupCrash, StartingPCs
  <2>3. CASE Announce
    <3> DEFINE ev == Event("ready", 0, None)
    <3>1. ev \in Events /\ ev.event = "ready"
      BY DEF Event, Events, EventKinds, Infos
    <3>2. Emit(ev) /\ pc' = "user" /\ reader' = "reading" /\ UNCHANGED <<nread, written, eof>>
          /\ events = <<>>
      BY <2>3 DEF Announce, ReaderInv, StartingPCs, iovars
    <3>3. \A k \in 1..Len(events') : events'[k] = ev
      BY <1>t, <3>1, <3>2, LogGrows
    <3> HIDE DEF ev
    <3> QED BY <3>1, <3>2, <3>3 DEF ReaderInv, StartingPCs
  <2> QED BY <1>6, <2>1, <2>2, <2>3 DEF Startup
<1>7. CASE Commanding
  BY <1>7, <1>f
  DEF Commanding, TakeCommand, TakeNonObject, SetBreakpointCmd, GoCmd, ContSuspended, ContOver,
      ContTimesOut, LocalsCmd, UnknownCmd, StopCmdDelete, StopCmdAbort, StopCmdFinish, StopCmdAbortFails,
      CommandFails, Answer, Finish, StartingPCs
<1>8. CASE Finishing
  BY <1>8, <1>f
  DEF Finishing, Detach, DetachFails, WaitTarget, Drain, DrainFails, Report, CloseConnections, StartingPCs
<1>9. CASE Exited \/ UNCHANGED vars
  BY <1>9, <1>g DEF Exited, vars, iovars, readervars
<1> QED BY <1>1, <1>2, <1>3, <1>4, <1>5, <1>6, <1>7, <1>8, <1>9 DEF Next, Reader, Serve

\* One step per action of the loop.
LEMMA HandStep == TypeOK /\ HandInv /\ [Next]_vars => HandInv'
<1> SUFFICES ASSUME TypeOK, HandInv, [Next]_vars PROVE HandInv' OBVIOUS
<1>t. /\ events \in Seq(Events) /\ pc \in PCs /\ cur \in Commands \cup {NoCmd}
      /\ fin \in {None, "aborted"} /\ cmds \in Seq(Commands)
  BY DEF TypeOK
<1>n. NoCmd.kind = None /\ None \notin GoKinds \cup {"stop"} /\ "stop" \notin GoKinds
  BY DEF NoCmd, None, GoKinds, StepFlags
<1>f. ASSUME UNCHANGED <<pc, cur, fin>>, HasFailed => HasFailed' PROVE HandInv'
  BY <1>f DEF HandInv
<1>u. UNCHANGED events => (HasFailed => HasFailed')
  BY DEF HasFailed, Protocol!Failure, Protocol!PEvent
<1>e. \A e \in EventKinds, l \in Nat, i \in Infos : Emit(Event(e, l, i)) => (HasFailed => HasFailed')
  BY <1>t, LogGrows, EventsTyped
<1>k. /\ {"ready", "bp_set", "suspended", "locals", "error", "terminated"} \subseteq EventKinds
      /\ {None, "bad_command", "failed"} \subseteq Infos
  BY DEF EventKinds, Infos
<1>1. CASE (\E c \in Inputs : Write(c)) \/ CloseStdin
  BY <1>1, <1>f, <1>u DEF Write, CloseStdin, servevars
<1>2. CASE ReadCommand \/ ReadEof
  BY <1>2, <1>f, <1>u DEF ReadCommand, ReadEof, servevars
<1>3. CASE ReadBadLine
  BY <1>3, <1>f, <1>e, <1>k DEF ReadBadLine, servevars
<1>4. CASE Target
  BY <1>4, <1>f, <1>u DEF Target, SessionStep, SessionKilled, ExecuteReturned, SignalDone, servevars
<1>5. CASE Startup
  BY <1>5
  DEF Startup, Synchronize, PollAgain, NoSession, Announce, ResolveUser, StartupCrash, HandInv, StartingPCs,
      FinishPCs
<1>6. CASE Commanding
  <2>1. CASE TakeCommand
    <3>1. cur' \in Commands /\ pc' = "exec" /\ UNCHANGED fin /\ pc = "idle"
      BY <1>t, <2>1 DEF TakeCommand
    <3>2. cur' # NoCmd
      BY <3>1 DEF Commands, Kinds, GoKinds, StepFlags, NoCmd, None
    <3> QED BY <3>1, <3>2 DEF HandInv, StartingPCs, FinishPCs
  <2>2. CASE SetBreakpointCmd \/ ContSuspended \/ LocalsCmd \/ UnknownCmd
    <3>1. cur' = NoCmd /\ pc' = "idle" /\ UNCHANGED fin /\ pc \in {"exec", "cont"}
      BY <2>2 DEF SetBreakpointCmd, ContSuspended, LocalsCmd, UnknownCmd, Answer
    <3> QED BY <3>1 DEF HandInv, StartingPCs, FinishPCs
  <2>3. CASE GoCmd
    BY <2>3, <1>n DEF GoCmd, HandInv, StartingPCs, FinishPCs
  <2>4. CASE ContOver
    <3>1. pc = "cont" /\ pc' = "detach" /\ fin' = None /\ UNCHANGED cur
      BY <2>4 DEF ContOver, Finish
    <3> QED BY <3>1, <1>n DEF HandInv, StartingPCs, FinishPCs, None
  <2>5. CASE ContTimesOut
    <3>1. \/ pc = "cont" /\ pc' = "detach" /\ fin' = None /\ UNCHANGED cur
          \/ pc = "cont" /\ pc' = "idle" /\ cur' = NoCmd /\ UNCHANGED fin
      BY <2>5 DEF ContTimesOut, Finish, Answer
    <3> QED BY <3>1, <1>n DEF HandInv, StartingPCs, FinishPCs, None
  <2>6. CASE StopCmdDelete \/ StopCmdAbort
    BY <2>6, <1>n DEF StopCmdDelete, StopCmdAbort, HandInv, StartingPCs, FinishPCs
  <2>7. CASE StopCmdFinish \/ StopCmdAbortFails
    <3>1. pc \in {"abort", "aborting"} /\ pc' = "detach" /\ fin' = "aborted" /\ UNCHANGED cur
      BY <2>7 DEF StopCmdFinish, StopCmdAbortFails, Finish
    <3> QED BY <3>1, <1>n DEF HandInv, StartingPCs, FinishPCs, None
  <2>8. CASE CommandFails
    <3>1. /\ cur' = NoCmd /\ pc \in {"exec", "cont"} /\ Emit(Event("error", 0, "failed"))
          /\ (pc' = "detach" /\ fin' = None) \/ (pc' = "idle" /\ UNCHANGED fin)
      BY <2>8 DEF CommandFails, Finish
    <3>2. /\ Event("error", 0, "failed") = Protocol!Failure
          /\ Event("error", 0, "failed") \in Events
      BY DEF Event, Protocol!Failure, Protocol!PEvent, Events, EventKinds, Infos
    <3>3. HasFailed'
      BY <1>t, <3>1, <3>2, LogGrows
    <3> QED BY <3>1, <3>3 DEF HandInv, StartingPCs, FinishPCs
  <2>9. CASE TakeNonObject
    BY <2>9 DEF TakeNonObject, HandInv, StartingPCs, FinishPCs
  <2> QED BY <1>6, <2>1, <2>2, <2>3, <2>4, <2>5, <2>6, <2>7, <2>8, <2>9 DEF Commanding
<1>7. CASE Finishing
  <2>1. CASE Report \/ CloseConnections
    BY <2>1 DEF Report, CloseConnections, HandInv, StartingPCs, FinishPCs
  <2>2. CASE Detach \/ DetachFails \/ WaitTarget \/ Drain \/ DrainFails
    <3>1. pc \in FinishPCs /\ pc' \in FinishPCs /\ UNCHANGED <<cur, fin, events>>
      BY <2>2 DEF Detach, DetachFails, WaitTarget, Drain, DrainFails, FinishPCs
    <3> QED BY <3>1, <1>u DEF HandInv, StartingPCs, FinishPCs
  <2> QED BY <1>7, <2>1, <2>2 DEF Finishing
<1>8. CASE Exited \/ UNCHANGED vars
  BY <1>8, <1>f, <1>u DEF Exited, vars
<1> QED BY <1>1, <1>2, <1>3, <1>4, <1>5, <1>6, <1>7, <1>8 DEF Next, Reader, Serve

\* The invariant holds throughout.
LEMMA ImplCorrect == Spec => []ImplInv
<1>1. Init => ImplInv
  <2> SUFFICES ASSUME Init PROVE ImplInv OBVIOUS
  <2>1. ReaderInv
    BY DEF Init, ReaderInv
  <2>2. HandInv
    BY DEF Init, HandInv, FinishPCs
  <2> QED BY TypeInit, <2>1, <2>2 DEF ImplInv
<1>2. ImplInv /\ [Next]_vars => ImplInv'
  BY TypeStep, ReaderStep, HandStep DEF ImplInv
<1> QED BY <1>1, <1>2, PTL DEF Spec

----
(* The requests without an answer, as they move from place to place. *)

LEMMA PartsTyped ==
  ASSUME TypeOK
  PROVE  /\ InHand \in Seq(Commands) /\ cmds \in Seq(Commands)
         /\ InPipe \in Seq(Commands) /\ AtEof \in Seq(Commands)
         /\ Waiting \in SUBSET (1..Len(written)) /\ written \in Seq(Commands) /\ nread \in Nat
         /\ IsFiniteSet(Unread) /\ IsFiniteSet(Unread \ Waiting)
<1>1. written \in Seq(Commands) /\ nread \in Nat /\ cmds \in Seq(Commands) /\ cur \in Commands \cup {NoCmd}
  BY DEF TypeOK
<1>2. Waiting \in SUBSET (1..Len(written)) /\ Len(written) \in Nat
  <2>1. Len(written) \in Nat
    BY <1>1
  <2>2. \A i \in Unread : i \in 1..Len(written)
    BY <1>1, <2>1 DEF Unread
  <2> QED BY <2>1, <2>2 DEF Waiting
<1>3. InPipe \in Seq(Commands)
  BY <1>1, <1>2, InOrderIs DEF InPipe
<1>4. StopCmd \in Commands
  BY DEF StopCmd, Commands, Kinds
<1>5. InHand \in Seq(Commands) /\ AtEof \in Seq(Commands)
  BY <1>1, <1>4 DEF InHand, AtEof
<1>6. IsFiniteSet(Unread)
  BY <1>1, <1>2, FS_Interval DEF Unread
<1>7. IsFiniteSet(Unread \ Waiting)
  BY <1>6, FS_Subset
<1> QED BY <1>1, <1>2, <1>3, <1>5, <1>6, <1>7

\* Steps that leave the requests where they are.
LEMMA PendingFrame ==
  ASSUME UNCHANGED <<cur, cmds, written, nread, eof, reader>>
  PROVE  PendingMap' = PendingMap /\ NoiseMap' = NoiseMap
BY DEF PendingMap, NoiseMap, InHand, InPipe, AtEof, Waiting, Unread, InOrder, Place, Rank, WellFormed

\* A command taken from the queue is the first of it.
LEMMA TakeKeeps ==
  ASSUME NEW S, NEW q \in Seq(S), q # <<>>, NEW r \in Seq(S)
  PROVE  (<<Head(q)>> \o Tail(q)) \o r = (<<>> \o q) \o r
<1>1. <<Head(q)>> \o Tail(q) = q
  <2> DEFINE t == <<Head(q)>> \o Tail(q)
  <2>1. /\ Head(q) \in S /\ Tail(q) \in Seq(S) /\ Len(Tail(q)) = Len(q) - 1 /\ Head(q) = q[1]
        /\ \A i \in 1..(Len(q) - 1) : Tail(q)[i] = q[i + 1]
    BY HeadTailProperties
  <2>2. /\ t \in Seq(S) /\ Len(t) = Len(q) /\ Len(q) \in Nat
        /\ t[1] = q[1] /\ \A i \in 2..Len(q) : t[i] = Tail(q)[i - 1]
    BY <2>1
  <2>3. \A i \in 1..Len(q) : t[i] = q[i]
    <3> TAKE i \in 1..Len(q)
    <3> HIDE DEF t
    <3>1. CASE i = 1
      BY <3>1, <2>2
    <3>2. CASE i # 1
      <4>1. i \in 2..Len(q) /\ i - 1 \in 1..(Len(q) - 1) /\ (i - 1) + 1 = i
        BY <3>2, <2>2
      <4> QED BY <4>1, <2>1, <2>2
    <3> QED BY <3>1, <3>2
  <2> QED BY <2>2, <2>3, SeqEqual
<1>2. <<>> \o q = q
  BY ConcatEmptySeq
<1> QED BY <1>1, <1>2

\* A line read moves from the pipe to the queue.
Moves(h, q, c, u, e) == (h \o Append(q, c)) \o (u \o e) = (h \o q) \o ((<<c>> \o u) \o e)

LEMMA ReadKeeps ==
  ASSUME NEW S, NEW h \in Seq(S), NEW q \in Seq(S), NEW c \in S, NEW u \in Seq(S), NEW e \in Seq(S)
  PROVE  Moves(h, q, c, u, e)
<1>1. <<c>> \in Seq(S) /\ u \o e \in Seq(S) /\ h \o q \in Seq(S) /\ q \o <<c>> \in Seq(S)
  BY ConcatProperties
<1>2. Append(q, c) = q \o <<c>>
  BY AppendIsConcat
<1>3. h \o (q \o <<c>>) = (h \o q) \o <<c>>
  BY <1>1, ConcatAssociative
<1>4. ((h \o q) \o <<c>>) \o (u \o e) = (h \o q) \o (<<c>> \o (u \o e))
  BY <1>1, ConcatAssociative
<1>5. <<c>> \o (u \o e) = (<<c>> \o u) \o e
  <2> DEFINE d == <<c>>
  <2>1. d \in Seq(S)
    BY <1>1
  <2> HIDE DEF d
  <2>2. (d \o u) \o e = d \o (u \o e)
    BY <2>1, ConcatAssociative
  <2> QED BY <2>2 DEF d
<1> QED BY <1>2, <1>3, <1>4, <1>5 DEF Moves

\* A request made stands last.
LEMMA LastIn ==
  ASSUME NEW S, NEW a \in Seq(S), NEW u \in Seq(S), NEW c \in S
  PROVE  a \o (Append(u, c) \o <<>>) = Append(a \o (u \o <<>>), c)
         /\ a \o (u \o <<c>>) = Append(a \o (u \o <<>>), c)
<1>1. <<c>> \in Seq(S) /\ a \o u \in Seq(S) /\ u \o <<c>> \in Seq(S) /\ Append(u, c) \in Seq(S)
  BY ConcatProperties, AppendProperties
<1>2. u \o <<>> = u /\ Append(u, c) \o <<>> = Append(u, c)
  BY <1>1, ConcatEmptySeq
<1>3. Append(u, c) = u \o <<c>> /\ Append(a \o u, c) = (a \o u) \o <<c>>
  BY <1>1, AppendIsConcat
<1>4. (a \o u) \o <<c>> = a \o (u \o <<c>>)
  BY <1>1, ConcatAssociative
<1> QED BY <1>2, <1>3, <1>4

\* The command in hand is the first request without an answer.
LEMMA FirstOut ==
  ASSUME NEW S, NEW c \in S, NEW q \in Seq(S), NEW r \in Seq(S), NEW p, p = (<<c>> \o q) \o r
  PROVE  p # <<>> /\ Head(p) = c /\ Tail(p) = (<<>> \o q) \o r
<1> DEFINE w == q \o r
<1>1. p = <<c>> \o w /\ w \in Seq(S) /\ <<c>> \in Seq(S)
  BY ConcatAssociative, ConcatProperties
<1>2. <<>> \o q = q
  BY ConcatEmptySeq
<1> HIDE DEF w
<1>3. /\ p \in Seq(S) /\ Len(p) = Len(w) + 1 /\ p[1] = c /\ Len(w) \in Nat
      /\ \A i \in 1..Len(w) : p[i + 1] = w[i]
  BY <1>1
<1>4. p # <<>> /\ Head(p) = c
  BY <1>3
<1>5. /\ Tail(p) \in Seq(S) /\ Len(Tail(p)) = Len(w)
      /\ \A i \in 1..Len(Tail(p)) : Tail(p)[i] = p[i + 1]
  BY <1>3, <1>4, HeadTailProperties
<1>6. Tail(p) = w
  BY <1>1, <1>3, <1>5, SeqEqual
<1> QED BY <1>2, <1>4, <1>6 DEF w

----
(* Every step is a step of the protocol, or one the protocol does not see. *)

\* What the IDE does: one more request, one more bad line, or the end of file.
LEMMA WriteImplements ==
  ASSUME TypeOK, ReaderInv, NEW c \in Inputs, Write(c)
  PROVE  Protocol!Request \/ Protocol!BadLine
<1> DEFINE m == Len(written) + 1
<1>t. /\ InHand \in Seq(Commands) /\ cmds \in Seq(Commands) /\ InPipe \in Seq(Commands)
      /\ Waiting \in SUBSET (1..Len(written)) /\ written \in Seq(Commands) /\ nread \in Nat
      /\ IsFiniteSet(Unread) /\ IsFiniteSet(Unread \ Waiting)
  BY PartsTyped
<1>1. /\ written' = Append(written, c) /\ ~eof /\ ~eof' /\ c \in Commands
      /\ UNCHANGED <<nread, reader, cmds, cur, pc, events, eof>>
  BY InputsAssumption DEF Write, readervars, servevars
<1>2. /\ Len(written) \in Nat /\ Len(written') = m /\ written'[m] = c
      /\ \A i \in 1..Len(written) : written'[i] = written[i]
  BY <1>t, <1>1
<1>3. Unread' = Unread \cup {m} /\ m \notin Unread /\ Unread \in SUBSET (1..Len(written))
  <2>1. nread <= Len(written)
    BY DEF ReaderInv
  <2>2. ((nread + 1)..m) = ((nread + 1)..Len(written)) \cup {m}
    BY <1>t, <1>2, <2>1
  <2>3. Unread' = (nread + 1)..m /\ Unread = (nread + 1)..Len(written)
    BY <1>1, <1>2 DEF Unread
  <2>4. \A i \in (nread + 1)..Len(written) : i \in 1..Len(written) /\ i # m
    BY <1>t, <1>2
  <2> QED BY <2>2, <2>3, <2>4
<1>4. Waiting' = IF WellFormed(c) THEN Waiting \cup {m} ELSE Waiting
  BY <1>2, <1>3 DEF Waiting, WellFormed
<1>5. PhaseMap' = PhaseMap /\ InHand' = InHand /\ AtEof = <<>> /\ AtEof' = <<>> /\ (InHand \o cmds) \in Seq(Commands)
  BY <1>t, <1>1, ConcatProperties DEF PhaseMap, InHand, AtEof
<1>6. CASE WellFormed(c)
  <2>1. InPipe' = Append(InPipe, c)
    <3>0. InPipe' = InOrder(written', Waiting') /\ Waiting' = Waiting \cup {m}
      BY <1>4, <1>6 DEF InPipe, InOrder, Place, Rank
    <3>1. InPipe' = InOrder(Append(written, c), Waiting \cup {m})
      BY <1>1, <3>0
    <3> QED BY <1>t, <1>1, <3>1, InOrderAppends DEF InPipe
  <2>2. PendingMap' = Append(PendingMap, c)
    BY <1>t, <1>1, <1>5, <2>1, LastIn DEF PendingMap
  <2>3. Unread' \ Waiting' = Unread \ Waiting
    BY <1>3, <1>4, <1>6, <1>t
  <2>4. NoiseMap' = NoiseMap
    BY <2>3 DEF NoiseMap
  <2> QED BY <1>1, <1>5, <1>6, <2>2, <2>4 DEF Protocol!Request
<1>7. CASE ~WellFormed(c)
  <2>1. InPipe' = InPipe
    <3>0. InPipe' = InOrder(written', Waiting') /\ Waiting' = Waiting
      BY <1>4, <1>7 DEF InPipe, InOrder, Place, Rank
    <3>1. InPipe' = InOrder(Append(written, c), Waiting)
      BY <1>1, <3>0
    <3>2. \A i \in Waiting : Append(written, c)[i] = written[i]
      BY <1>t, <1>1, <1>2
    <3> QED BY <1>t, <3>1, <3>2, InOrderSame DEF InPipe
  <2>2. PendingMap' = PendingMap
    BY <1>1, <1>5, <2>1 DEF PendingMap
  <2>3. Unread' \ Waiting' = (Unread \ Waiting) \cup {m} /\ m \notin Unread \ Waiting
    BY <1>3, <1>4, <1>7, <1>t
  <2>4. NoiseMap' = NoiseMap + 1
    BY <1>t, <2>3, FS_AddElement DEF NoiseMap
  <2> QED BY <1>1, <1>5, <2>2, <2>4 DEF Protocol!BadLine
<1> QED BY <1>6, <1>7

LEMMA CloseImplements ==
  ASSUME TypeOK, ReaderInv, CloseStdin
  PROVE  Protocol!Request
<1>1. /\ ~eof /\ eof' /\ reader # "ended" /\ UNCHANGED <<written, nread, reader, cmds, cur, pc, events>>
  BY DEF CloseStdin, ReaderInv, readervars, servevars
<1>2. /\ InHand' = InHand /\ InPipe' = InPipe /\ AtEof = <<>> /\ AtEof' = <<StopCmd>>
      /\ PhaseMap' = PhaseMap /\ NoiseMap' = NoiseMap
  BY <1>1
  DEF PhaseMap, InHand, AtEof, InPipe, InOrder, Place, Rank, Waiting, Unread, WellFormed, NoiseMap
<1>3. /\ InHand \o cmds \in Seq(Commands) /\ InPipe \in Seq(Commands) /\ StopCmd \in Commands
  BY PartsTyped, ConcatProperties DEF StopCmd, Commands, Kinds
<1>4. PendingMap' = Append(PendingMap, StopCmd)
  BY <1>1, <1>2, <1>3, LastIn DEF PendingMap
<1> QED BY <1>1, <1>2, <1>4 DEF Protocol!Request

\* What the reader thread takes from the pipe.
LEMMA UnreadNext ==
  ASSUME TypeOK, nread < Len(written), nread' = nread + 1, UNCHANGED written
  PROVE  /\ nread + 1 \in 1..Len(written) /\ Unread = Unread' \cup {nread + 1}
         /\ Unread' \in SUBSET ((nread + 2)..Len(written))
<1>1. nread \in Nat /\ Len(written) \in Nat
  BY DEF TypeOK
<1>2. Unread' = (nread + 2)..Len(written) /\ Unread = (nread + 1)..Len(written)
  BY <1>1 DEF Unread
<1> QED BY <1>1, <1>2

LEMMA ReadImplements ==
  ASSUME TypeOK, ReaderInv, ReadCommand
  PROVE  UNCHANGED <<PhaseMap, PendingMap, NoiseMap, events>>
<1> DEFINE m == nread + 1
           c == written[m]
<1>t. /\ InHand \in Seq(Commands) /\ cmds \in Seq(Commands) /\ InPipe \in Seq(Commands)
      /\ AtEof \in Seq(Commands) /\ written \in Seq(Commands) /\ nread \in Nat
  BY PartsTyped
<1>1. /\ nread < Len(written) /\ nread' = m /\ cmds' = Append(cmds, c) /\ WellFormed(c)
      /\ UNCHANGED <<written, eof, reader, cur, pc, events>>
  BY DEF ReadCommand, WellFormed, iovars, servevars
<1>2. /\ m \in 1..Len(written) /\ Unread = Unread' \cup {m}
      /\ Unread' \in SUBSET ((m + 1)..Len(written)) /\ m \notin Unread'
  BY <1>t, <1>1, UnreadNext
<1>3. Waiting = Waiting' \cup {m} /\ Waiting' \in SUBSET ((m + 1)..Len(written))
  BY <1>1, <1>2 DEF Waiting, WellFormed
<1>4. InPipe = <<c>> \o InPipe' /\ InPipe' \in Seq(Commands) /\ c \in Commands
  <2>1. InOrder(written, Waiting' \cup {m}) = <<written[m]>> \o InOrder(written, Waiting')
    BY <1>t, <1>2, <1>3, InOrderStarts
  <2>2. InPipe' = InOrder(written, Waiting')
    BY <1>1 DEF InPipe, InOrder, Place, Rank
  <2>3. Waiting' \in SUBSET (1..Len(written))
    BY <1>t, <1>3
  <2>4. InOrder(written, Waiting') \in Seq(Commands)
    BY <1>t, <2>3, InOrderIs
  <2>5. c \in Commands
    BY <1>t, <1>2, ElementOfSeq
  <2>6. InPipe = InOrder(written, Waiting' \cup {m})
    BY <1>3 DEF InPipe
  <2> QED BY <2>1, <2>2, <2>4, <2>5, <2>6
<1>5. InHand' = InHand /\ AtEof' = AtEof /\ PhaseMap' = PhaseMap
  BY <1>1 DEF InHand, AtEof, PhaseMap
<1> HIDE DEF c
<1>6. PendingMap' = PendingMap
  <2>1. Moves(InHand, cmds, c, InPipe', AtEof)
    BY <1>t, <1>4, ReadKeeps
  <2> QED BY <1>1, <1>4, <1>5, <2>1 DEF PendingMap, Moves
<1>7. Unread' \ Waiting' = Unread \ Waiting
  BY <1>2, <1>3
<1>8. NoiseMap' = NoiseMap
  BY <1>7 DEF NoiseMap
<1> QED BY <1>1, <1>5, <1>6, <1>8

LEMMA ReadBadImplements ==
  ASSUME TypeOK, ReaderInv, ReadBadLine
  PROVE  Protocol!Complain
<1> DEFINE m == nread + 1
<1>t. /\ written \in Seq(Commands) /\ nread \in Nat /\ IsFiniteSet(Unread \ Waiting) /\ pc \in PCs
  BY PartsTyped DEF TypeOK
<1>1. /\ nread < Len(written) /\ nread' = m /\ ~WellFormed(written[m]) /\ reader = "reading" /\ pc # "exit"
      /\ Emit(Event("error", 0, "bad_command"))
      /\ UNCHANGED <<written, eof, reader, cmds, cur, pc>>
  BY DEF ReadBadLine, ReaderAlive, WellFormed, iovars, servevars
<1>2. /\ m \in 1..Len(written) /\ Unread = Unread' \cup {m}
      /\ Unread' \in SUBSET ((m + 1)..Len(written)) /\ m \notin Unread'
  BY <1>t, <1>1, UnreadNext
<1>3. Waiting = Waiting'
  BY <1>1, <1>2 DEF Waiting, WellFormed
<1>4. PendingMap' = PendingMap
  BY <1>1, <1>3 DEF PendingMap, InHand, AtEof, InPipe, InOrder, Place, Rank
<1>5. Unread \ Waiting = (Unread' \ Waiting') \cup {m} /\ m \notin (Unread' \ Waiting') /\ m \in Unread \ Waiting
  BY <1>1, <1>2, <1>3 DEF Waiting
<1>6. NoiseMap' = NoiseMap - 1 /\ NoiseMap > 0 /\ NoiseMap \in Nat
  <2>1. Unread' \ Waiting' = (Unread \ Waiting) \ {m}
    BY <1>5
  <2>2. Cardinality(Unread \ Waiting) \in Nat /\ Cardinality(Unread \ Waiting) # 0
    BY <1>t, <1>5, FS_CardinalityType, FS_EmptySet
  <2>3. Cardinality((Unread \ Waiting) \ {m}) = Cardinality(Unread \ Waiting) - 1
    BY <1>t, <1>5, FS_RemoveElement
  <2>4. NoiseMap = Cardinality(Unread \ Waiting) /\ NoiseMap' = Cardinality(Unread' \ Waiting')
    BY DEF NoiseMap
  <2>5. NoiseMap' = Cardinality(Unread \ Waiting) - 1
    BY <2>1, <2>3, <2>4
  <2> QED BY <2>2, <2>4, <2>5
<1>7. PhaseMap # "starting" /\ PhaseMap' = PhaseMap
  BY <1>1 DEF PhaseMap, ReaderInv
<1>8. Protocol!PEmit(Protocol!Complaint)
  BY <1>1 DEF Protocol!PEmit, Protocol!Complaint, Protocol!PEvent, Emit, Event
<1> QED BY <1>4, <1>6, <1>7, <1>8 DEF Protocol!Complain

LEMMA ReadEofImplements ==
  ASSUME TypeOK, ReaderInv, ReadEof
  PROVE  UNCHANGED <<PhaseMap, PendingMap, NoiseMap, events>>
<1>t. /\ InHand \in Seq(Commands) /\ cmds \in Seq(Commands) /\ nread \in Nat
  BY PartsTyped
<1>1. /\ eof /\ reader = "reading" /\ reader' = "ended" /\ cmds' = Append(cmds, StopCmd)
      /\ nread = Len(written)
      /\ UNCHANGED <<written, nread, eof, cur, pc, events>>
  BY DEF ReadEof, ReaderAlive, iovars, servevars
<1>2. Unread = {} /\ Unread' = {} /\ Waiting = {} /\ Waiting' = {}
  BY <1>t, <1>1 DEF Unread, Waiting
<1>3. InPipe = <<>> /\ InPipe' = <<>>
  BY <1>2, FS_EmptySet DEF InPipe, InOrder
<1>4. /\ InHand' = InHand /\ AtEof = <<StopCmd>> /\ AtEof' = <<>> /\ PhaseMap' = PhaseMap
      /\ NoiseMap' = NoiseMap
  BY <1>1, <1>2 DEF InHand, AtEof, PhaseMap, NoiseMap
<1>5. StopCmd \in Commands /\ <<>> \in Seq(Commands)
  BY DEF StopCmd, Commands, Kinds
<1>6. Moves(InHand, cmds, StopCmd, <<>>, <<>>)
  BY <1>t, <1>5, ReadKeeps
<1>7. <<StopCmd>> \o <<>> = <<StopCmd>> /\ <<>> \o <<StopCmd>> = <<StopCmd>>
  BY <1>5
<1>8. PendingMap' = PendingMap
  BY <1>1, <1>3, <1>4, <1>6, <1>7 DEF PendingMap, Moves
<1> QED BY <1>1, <1>4, <1>8

\* A command taken is in hand instead of in the queue.
LEMMA TakeImplements ==
  ASSUME TypeOK, HandInv, TakeCommand
  PROVE  UNCHANGED <<PhaseMap, PendingMap, NoiseMap, events>>
<1>t. /\ cmds \in Seq(Commands) /\ InPipe \in Seq(Commands) /\ AtEof \in Seq(Commands)
  BY PartsTyped
<1>1. /\ pc = "idle" /\ pc' = "exec" /\ cmds # <<>> /\ cur' = Head(cmds) /\ cmds' = Tail(cmds) /\ cur = NoCmd
      /\ UNCHANGED <<written, nread, eof, reader, events>>
  BY DEF TakeCommand, HandInv, iovars, readervars
<1>2. Head(cmds) # NoCmd
  <2>1. Head(cmds) \in Commands
    BY <1>t, <1>1
  <2> QED BY <2>1 DEF Commands, Kinds, GoKinds, StepFlags, NoCmd, None
<1>3. /\ InHand = <<>> /\ InHand' = <<Head(cmds)>> /\ InPipe' = InPipe /\ AtEof' = AtEof
      /\ PhaseMap' = PhaseMap /\ NoiseMap' = NoiseMap
  BY <1>1, <1>2
  DEF InHand, InPipe, AtEof, PhaseMap, NoiseMap, StartingPCs, InOrder, Place, Rank, Waiting, Unread, WellFormed
<1>4. InPipe \o AtEof \in Seq(Commands)
  BY <1>t, ConcatProperties
<1>5. (<<Head(cmds)>> \o Tail(cmds)) \o (InPipe \o AtEof) = (<<>> \o cmds) \o (InPipe \o AtEof)
  BY <1>t, <1>1, <1>4, TakeKeeps
<1>6. PendingMap' = PendingMap
  BY <1>1, <1>3, <1>5 DEF PendingMap
<1> QED BY <1>1, <1>3, <1>6

\* A line that is no object is taken and ends the loop.
LEMMA ChokeImplements ==
  ASSUME TypeOK, HandInv, TakeNonObject
  PROVE  Protocol!Choke
<1>t. /\ cmds \in Seq(Commands) /\ InPipe \in Seq(Commands) /\ AtEof \in Seq(Commands)
  BY PartsTyped
<1>1. /\ pc = "idle" /\ pc' = "exit" /\ cmds # <<>> /\ Head(cmds).kind = "value" /\ cmds' = Tail(cmds)
      /\ cur = NoCmd /\ UNCHANGED <<written, nread, eof, reader, cur, events>>
  BY DEF TakeNonObject, HandInv, iovars, readervars
<1>2. /\ InHand = <<>> /\ InHand' = <<>> /\ InPipe' = InPipe /\ AtEof' = AtEof /\ NoiseMap' = NoiseMap
      /\ PhaseMap = "serving" /\ PhaseMap' = "over"
  BY <1>1
  DEF InHand, InPipe, AtEof, PhaseMap, NoiseMap, StartingPCs, InOrder, Place, Rank, Waiting, Unread, WellFormed
<1>3. /\ InPipe \o AtEof \in Seq(Commands) /\ Head(cmds) \in Commands /\ Tail(cmds) \in Seq(Commands)
  BY <1>t, <1>1, ConcatProperties
<1>4. PendingMap = (<<Head(cmds)>> \o Tail(cmds)) \o (InPipe \o AtEof)
  BY <1>t, <1>1, <1>2, <1>3, TakeKeeps DEF PendingMap
<1>5. /\ PendingMap # <<>> /\ Head(PendingMap) = Head(cmds)
      /\ Tail(PendingMap) = (<<>> \o Tail(cmds)) \o (InPipe \o AtEof)
  BY <1>3, <1>4, FirstOut
<1>6. PendingMap' = Tail(PendingMap)
  BY <1>1, <1>2, <1>5 DEF PendingMap
<1> QED BY <1>1, <1>2, <1>5, <1>6 DEF Protocol!Choke

\* An event that answers the command in hand.
LEMMA PendingOut ==
  ASSUME TypeOK, cur # NoCmd, cur' = NoCmd, UNCHANGED <<iovars, readervars, cmds>>
  PROVE  /\ PendingMap # <<>> /\ Head(PendingMap) = cur /\ PendingMap' = Tail(PendingMap)
         /\ NoiseMap' = NoiseMap
<1>t. /\ cmds \in Seq(Commands) /\ InPipe \in Seq(Commands) /\ AtEof \in Seq(Commands)
      /\ cur \in Commands
  BY PartsTyped DEF TypeOK
<1>1. /\ InHand = <<cur>> /\ InHand' = <<>> /\ InPipe' = InPipe /\ AtEof' = AtEof
      /\ NoiseMap' = NoiseMap /\ cmds' = cmds
  BY DEF InHand, InPipe, AtEof, NoiseMap, InOrder, Place, Rank, Waiting, Unread, WellFormed,
         iovars, readervars
<1>2. InPipe \o AtEof \in Seq(Commands)
  BY <1>t, ConcatProperties
<1>3. PendingMap = (<<cur>> \o cmds) \o (InPipe \o AtEof)
  BY <1>1 DEF PendingMap
<1>4. /\ PendingMap # <<>> /\ Head(PendingMap) = cur
      /\ Tail(PendingMap) = (<<>> \o cmds) \o (InPipe \o AtEof)
  BY <1>t, <1>2, <1>3, FirstOut
<1>5. PendingMap' = (<<>> \o cmds) \o (InPipe \o AtEof)
  BY <1>1 DEF PendingMap
<1> QED BY <1>1, <1>4, <1>5

LEMMA AnswerImplements ==
  ASSUME TypeOK, HandInv, pc \in {"exec", "cont"}, NEW ev \in Events, Emit(ev), cur' = NoCmd,
         pc' \in {"idle", "detach"}, UNCHANGED <<iovars, readervars, cmds>>,
         Protocol!IsAnswer(ev, cur)
  PROVE  Protocol!Reply
<1>1. cur # NoCmd
  BY DEF HandInv, NoCmd, None, GoKinds, StepFlags
<1>2. /\ PendingMap # <<>> /\ Head(PendingMap) = cur /\ PendingMap' = Tail(PendingMap)
      /\ NoiseMap' = NoiseMap
  BY <1>1, PendingOut
<1>3. PhaseMap = "serving" /\ PhaseMap' = "serving"
  BY DEF PhaseMap, StartingPCs
<1>4. events \in Seq(Events)
  BY DEF TypeOK
<1>5. /\ Len(events') = Len(events) + 1 /\ SubSeq(events', 1, Len(events)) = events
      /\ events'[Len(events')] = ev
  BY <1>4, LogGrows
<1>6. Protocol!IsAnswer(events'[Len(events')], Head(PendingMap))
  BY <1>2, <1>5
<1> QED BY <1>2, <1>3, <1>5, <1>6 DEF Protocol!Reply

\* Steps of the loop between two answers, and of the target.
LEMMA InsideFrame ==
  ASSUME UNCHANGED <<iovars, readervars, cmds, cur, events>>, PhaseMap' = PhaseMap
  PROVE  UNCHANGED <<PhaseMap, PendingMap, NoiseMap, events>>
BY PendingFrame DEF iovars, readervars

LEMMA CommandImplements ==
  ASSUME TypeOK, HandInv, Commanding
  PROVE  Protocol!Reply \/ Protocol!Choke \/ UNCHANGED <<PhaseMap, PendingMap, NoiseMap, events>>
<1>t. /\ cur \in Commands \cup {NoCmd} /\ cur.line \in Nat /\ last \in Nat /\ tline \in Nat
  BY LinesAssumption DEF TypeOK, TargetTypeOK, Commands, NoCmd
<1>k. /\ {"bp_set", "suspended", "locals", "error"} \subseteq EventKinds
      /\ {None, "ok", "rejected", "breakpoint", "line", "timeout", "bad_command", "failed"} \subseteq Infos
  BY DEF EventKinds, Infos
<1>e. \A e \in EventKinds, l \in Nat, i \in Infos :
        Event(e, l, i) \in Events /\ Event(e, l, i).event = e /\ Event(e, l, i).line = l
  BY DEF Event, Events
<1>1. CASE TakeCommand
  BY <1>1, TakeImplements
<1>2. CASE SetBreakpointCmd
  <2> DEFINE i == IF cur.line \in Lines THEN "ok" ELSE "rejected"
             ev == Event("bp_set", cur.line, i)
  <2>1. /\ Emit(ev) /\ cur' = NoCmd /\ pc' = "idle" /\ pc = "exec" /\ cur.kind = "set_breakpoint"
        /\ UNCHANGED <<iovars, readervars, cmds>>
    BY <1>2 DEF SetBreakpointCmd, Answer
  <2>2. ev \in Events /\ ev.event = "bp_set" /\ ev.line = cur.line
    BY <1>t, <1>k, <1>e
  <2>3. Protocol!IsAnswer(ev, cur)
    BY <2>1, <2>2 DEF Protocol!IsAnswer
  <2> HIDE DEF ev
  <2> QED BY <2>1, <2>2, <2>3, AnswerImplements
<1>3. CASE ContSuspended
  <2> DEFINE i == IF tline \in armed THEN "breakpoint" ELSE "line"
             ev == Event("suspended", tline, i)
  <2>1. /\ Emit(ev) /\ cur' = NoCmd /\ pc' = "idle" /\ pc = "cont" /\ cur.kind \in GoKinds
        /\ UNCHANGED <<iovars, readervars, cmds>>
    BY <1>3 DEF ContSuspended, Answer, HandInv
  <2>2. ev \in Events /\ ev.event = "suspended"
    BY <1>t, <1>k, <1>e
  <2>3. Protocol!IsAnswer(ev, cur)
    BY <2>1, <2>2 DEF Protocol!IsAnswer
  <2> HIDE DEF ev
  <2> QED BY <2>1, <2>2, <2>3, AnswerImplements
<1>4. CASE ContTimesOut
  <2> DEFINE ev == Event("suspended", 0, "timeout")
  <2>1. /\ pc = "cont" /\ cur.kind \in GoKinds /\ UNCHANGED <<iovars, readervars, cmds>>
        /\ \/ pc' = "detach" /\ UNCHANGED <<cur, events>>
           \/ Emit(ev) /\ cur' = NoCmd /\ pc' = "idle"
    BY <1>4 DEF ContTimesOut, Answer, Finish, HandInv
  <2>2. ev \in Events /\ ev.event = "suspended"
    BY <1>k, <1>e
  <2>3. Protocol!IsAnswer(ev, cur)
    BY <2>1, <2>2 DEF Protocol!IsAnswer
  <2> HIDE DEF ev
  <2>4. CASE pc' = "detach" /\ UNCHANGED <<cur, events>>
    <3>1. PhaseMap' = PhaseMap
      BY <2>1, <2>4 DEF PhaseMap, StartingPCs
    <3> QED BY <2>1, <2>4, <3>1, InsideFrame
  <2>5. CASE Emit(ev) /\ cur' = NoCmd /\ pc' = "idle"
    BY <2>1, <2>2, <2>3, <2>5, AnswerImplements
  <2> QED BY <2>1, <2>4, <2>5
<1>5. CASE LocalsCmd
  <2> DEFINE ev == Event("locals", last, None)
  <2>1. /\ Emit(ev) /\ cur' = NoCmd /\ pc' = "idle" /\ pc = "exec" /\ cur.kind = "locals"
        /\ UNCHANGED <<iovars, readervars, cmds>>
    BY <1>5 DEF LocalsCmd, Answer
  <2>2. ev \in Events /\ ev.event = "locals"
    BY <1>t, <1>k, <1>e
  <2>3. Protocol!IsAnswer(ev, cur)
    BY <2>1, <2>2 DEF Protocol!IsAnswer
  <2> HIDE DEF ev
  <2> QED BY <2>1, <2>2, <2>3, AnswerImplements
<1>6. CASE UnknownCmd
  <2> DEFINE ev == Event("error", 0, "bad_command")
  <2>1. /\ Emit(ev) /\ cur' = NoCmd /\ pc' = "idle" /\ pc = "exec" /\ cur.kind = "unknown"
        /\ UNCHANGED <<iovars, readervars, cmds>>
    BY <1>6 DEF UnknownCmd, Answer
  <2>2. ev \in Events /\ ev = Protocol!Complaint
    BY <1>k, <1>e DEF Event, Protocol!Complaint, Protocol!PEvent
  <2>3. Protocol!IsAnswer(ev, cur)
    BY <2>1, <2>2 DEF Protocol!IsAnswer
  <2> HIDE DEF ev
  <2> QED BY <2>1, <2>2, <2>3, AnswerImplements
<1>7. CASE CommandFails
  <2> DEFINE ev == Event("error", 0, "failed")
  <2>1. /\ Emit(ev) /\ cur' = NoCmd /\ pc' \in {"idle", "detach"} /\ pc \in {"exec", "cont"}
        /\ UNCHANGED <<iovars, readervars, cmds>>
    BY <1>7 DEF CommandFails, Finish
  <2>2. ev \in Events /\ ev = Protocol!Failure
    BY <1>k, <1>e DEF Event, Protocol!Failure, Protocol!PEvent
  <2>3. cur.kind \notin {"unknown", "value"}
    BY <1>7 DEF CommandFails, HandInv, GoKinds, StepFlags
  <2>4. Protocol!IsAnswer(ev, cur)
    BY <2>2, <2>3 DEF Protocol!IsAnswer
  <2> HIDE DEF ev
  <2> QED BY <2>1, <2>2, <2>4, AnswerImplements
<1>8. CASE GoCmd \/ ContOver \/ StopCmdDelete \/ StopCmdAbort \/ StopCmdFinish \/ StopCmdAbortFails
  <2>1. /\ UNCHANGED <<iovars, readervars, cmds, cur, events>>
        /\ pc \in {"exec", "cont", "abort", "aborting"} /\ pc' \in {"cont", "abort", "aborting", "detach"}
    BY <1>8 DEF GoCmd, ContOver, StopCmdDelete, StopCmdAbort, StopCmdFinish, StopCmdAbortFails, Finish
  <2>2. PhaseMap' = PhaseMap
    BY <2>1 DEF PhaseMap, StartingPCs
  <2> QED BY <2>1, <2>2, InsideFrame
<1>9. CASE TakeNonObject
  BY <1>9, ChokeImplements
<1> QED BY <1>1, <1>2, <1>3, <1>4, <1>5, <1>6, <1>7, <1>8, <1>9 DEF Commanding

\* The beginning of the session.
LEMMA StartupImplements ==
  ASSUME TypeOK, ReaderInv, HandInv, Startup
  PROVE  Protocol!Ready \/ Protocol!Refuse \/ Protocol!Crash
           \/ UNCHANGED <<PhaseMap, PendingMap, NoiseMap, events>>
<1>1. CASE Synchronize \/ PollAgain \/ ResolveUser
  <2>1. /\ UNCHANGED <<iovars, readervars, cmds, cur, events>>
        /\ \/ pc \in StartingPCs /\ pc' \in StartingPCs
           \/ pc = "user" /\ pc' = "idle"
    BY <1>1 DEF Synchronize, PollAgain, ResolveUser, StartingPCs
  <2>2. PhaseMap' = PhaseMap
    BY <2>1 DEF PhaseMap, StartingPCs
  <2> QED BY <2>1, <2>2, InsideFrame
<1>2. CASE NoSession
  <2>1. /\ Emit(Event("terminated", 0, IF target_error = None THEN "no_session" ELSE target_error))
        /\ pc = "pollcheck" /\ pc' = "exit" /\ UNCHANGED <<iovars, readervars, cmds, cur>>
    BY <1>2 DEF NoSession
  <2>2. PhaseMap = "starting" /\ PhaseMap' = "over"
    BY <2>1 DEF PhaseMap, StartingPCs
  <2>3. PendingMap' = PendingMap /\ NoiseMap' = NoiseMap
    BY <2>1, PendingFrame DEF iovars, readervars
  <2> DEFINE e == IF target_error = None THEN "no_session" ELSE target_error
  <2>4. e \in {"raised", "no_session"}
    BY DEF TypeOK
  <2>5. Protocol!PEmit(Protocol!PEvent("terminated", 0, e))
    <3>1. Emit(Event("terminated", 0, e))
      BY <2>1
    <3> HIDE DEF e
    <3> QED BY <3>1 DEF Emit, Event, Protocol!PEmit, Protocol!PEvent
  <2> HIDE DEF e
  <2> QED BY <2>2, <2>3, <2>4, <2>5 DEF Protocol!Refuse
<1>3. CASE Announce
  <2>1. /\ Emit(Event("ready", 0, None)) /\ pc = "announce" /\ pc' = "user" /\ reader' = "reading"
        /\ reader = "off" /\ UNCHANGED <<iovars, nread, cmds, cur>>
    BY <1>3 DEF Announce, ReaderInv, StartingPCs
  <2>2. PhaseMap = "starting" /\ PhaseMap' = "serving"
    BY <2>1 DEF PhaseMap, StartingPCs
  <2>3. PendingMap' = PendingMap /\ NoiseMap' = NoiseMap
    <3>1. AtEof' = AtEof
      BY <2>1 DEF AtEof, iovars
    <3>2. InHand' = InHand /\ InPipe' = InPipe /\ NoiseMap' = NoiseMap
      BY <2>1 DEF iovars, NoiseMap, InHand, InPipe, InOrder, Place, Rank, Waiting, Unread, WellFormed
    <3> QED BY <2>1, <3>1, <3>2 DEF PendingMap
  <2>4. Protocol!PEmit(Protocol!PEvent("ready", 0, "none"))
    BY <2>1 DEF Emit, Event, None, Protocol!PEmit, Protocol!PEvent
  <2> QED BY <2>2, <2>3, <2>4 DEF Protocol!Ready
<1>4. CASE StartupCrash
  <2>1. pc \in {"poll", "user"} /\ pc' = "exit" /\ UNCHANGED <<iovars, readervars, cmds, cur, events>>
    BY <1>4 DEF StartupCrash
  <2>2. PhaseMap # "over" /\ PhaseMap' = "over"
    BY <2>1 DEF PhaseMap, StartingPCs
  <2>3. PendingMap' = PendingMap /\ NoiseMap' = NoiseMap
    BY <2>1, PendingFrame DEF iovars, readervars
  <2>4. \A k \in 1..Len(events) : events[k].event = "ready" \/ events[k] = Protocol!Complaint
    BY <2>1 DEF ReaderInv, StartingPCs
  <2> QED BY <2>1, <2>2, <2>3, <2>4 DEF Protocol!Crash
<1> QED BY <1>1, <1>2, <1>3, <1>4 DEF Startup

\* finish() is the answer to the command in hand, if there is one.
LEMMA FinishImplements ==
  ASSUME TypeOK, HandInv, Finishing
  PROVE  Protocol!End \/ UNCHANGED <<PhaseMap, PendingMap, NoiseMap, events>>
<1>1. CASE Detach \/ DetachFails \/ WaitTarget \/ Drain \/ DrainFails \/ CloseConnections
  <2>1. /\ UNCHANGED <<iovars, readervars, cmds, cur, events>>
        /\ \/ pc \in FinishPCs /\ pc' \in FinishPCs
           \/ pc = "close" /\ pc' = "exit"
    BY <1>1 DEF Detach, DetachFails, WaitTarget, Drain, DrainFails, CloseConnections, FinishPCs
  <2>2. PhaseMap' = PhaseMap
    BY <2>1 DEF PhaseMap, StartingPCs, FinishPCs
  <2> QED BY <2>1, <2>2, InsideFrame
<1>2. CASE Report
  <2> DEFINE e == CASE fin # None -> fin
                    [] fin = None /\ target_error # None -> target_error
                    [] OTHER -> IF out = "output" THEN out ELSE None
  <2>1. /\ Emit(Event("terminated", 0, e)) /\ pc = "report" /\ pc' = "close" /\ cur' = NoCmd
        /\ UNCHANGED <<iovars, readervars, cmds>>
    BY <1>2 DEF Report
  <2>2. /\ e \in {"none", "output", "raised", "aborted"} /\ (e = "aborted" <=> fin = "aborted")
        /\ fin \in {None, "aborted"}
    <3>1. fin \in {None, "aborted"} /\ target_error \in {None, "raised"} /\ out \in {None, "output", "late"}
      BY DEF TypeOK
    <3>2. CASE fin # None
      BY <3>1, <3>2 DEF None
    <3>3. CASE fin = None /\ target_error # None
      BY <3>1, <3>3 DEF None
    <3>4. CASE fin = None /\ target_error = None
      BY <3>1, <3>4 DEF None
    <3> QED BY <3>1, <3>2, <3>3, <3>4
  <2> HIDE DEF e
  <2>3. PhaseMap = "serving" /\ PhaseMap' = "over"
    BY <2>1 DEF PhaseMap, StartingPCs
  <2>4. Protocol!PEmit(Protocol!PEvent("terminated", 0, e))
    BY <2>1 DEF Emit, Event, Protocol!PEmit, Protocol!PEvent
  <2>5. CASE cur # NoCmd
    <3>1. /\ PendingMap # <<>> /\ Head(PendingMap) = cur /\ PendingMap' = Tail(PendingMap)
          /\ NoiseMap' = NoiseMap
      BY <2>1, <2>5, PendingOut
    <3>2. cur.kind \in IF e = "aborted" THEN {"stop"} ELSE GoKinds
      BY <2>1, <2>2, <2>5 DEF HandInv, FinishPCs
    <3> QED BY <2>2, <2>3, <2>4, <3>1, <3>2 DEF Protocol!End
  <2>6. CASE cur = NoCmd
    <3>1. PendingMap' = PendingMap /\ NoiseMap' = NoiseMap
      BY <2>1, <2>6, PendingFrame DEF iovars, readervars
    <3>2. e # "aborted" /\ HasFailed
      BY <2>1, <2>2, <2>6 DEF HandInv, FinishPCs, None
    <3>3. \E k \in 1..Len(events) : events[k] = Protocol!Failure
      BY <3>2 DEF HasFailed
    <3> QED BY <2>2, <2>3, <2>4, <3>1, <3>2, <3>3 DEF Protocol!End
  <2> QED BY <2>5, <2>6
<1> QED BY <1>1, <1>2 DEF Finishing

\* The debug server does what its protocol says, for every block, every input and
\* whatever fails: requests are answered once each and in order, between ready and
\* terminated (serve(), read_stdin and finish together).
THEOREM ProtocolImplemented == Spec => ImplementsProtocol
<1>1. Init => Protocol!PInit
  <2> SUFFICES ASSUME Init PROVE Protocol!PInit OBVIOUS
  <2>1. /\ written = <<>> /\ nread = 0 /\ eof = FALSE /\ cmds = <<>> /\ cur = NoCmd /\ pc = "poll"
        /\ events = <<>>
    BY DEF Init
  <2>2. Unread = {} /\ Waiting = {}
    BY <2>1 DEF Unread, Waiting
  <2>3. InPipe = <<>> /\ NoiseMap = 0
    BY <2>2, FS_EmptySet DEF InPipe, InOrder, NoiseMap
  <2>4. PendingMap = <<>>
    BY <2>1, <2>3 DEF PendingMap, InHand, AtEof
  <2> QED BY <2>1, <2>3, <2>4 DEF Protocol!PInit, PhaseMap, StartingPCs
<1>2. ImplInv /\ [Next]_vars => [Protocol!PNext]_(Protocol!pvars)
  <2> SUFFICES ASSUME ImplInv, [Next]_vars
               PROVE  Protocol!PNext \/ UNCHANGED <<PhaseMap, PendingMap, NoiseMap, events>>
    BY DEF Protocol!pvars
  <2>0. TypeOK /\ ReaderInv /\ HandInv
    BY DEF ImplInv
  <2> USE <2>0 DEF Protocol!PNext
  <2>1. CASE \E c \in Inputs : Write(c)
    BY <2>1, WriteImplements
  <2>2. CASE CloseStdin
    BY <2>2, CloseImplements
  <2>3. CASE Reader
    BY <2>3, ReadImplements, ReadBadImplements, ReadEofImplements DEF Reader
  <2>4. CASE Target
    <3>1. UNCHANGED <<iovars, readervars, cmds, cur, pc, events>>
      BY <2>4 DEF Target, SessionStep, SessionKilled, ExecuteReturned, SignalDone, servevars
    <3> QED BY <3>1, InsideFrame DEF PhaseMap
  <2>5. CASE Serve
    BY <2>5, CommandImplements, StartupImplements, FinishImplements DEF Serve
  <2>6. CASE Exited \/ UNCHANGED vars
    <3>1. UNCHANGED <<iovars, readervars, cmds, cur, pc, events>>
      BY <2>6 DEF Exited, vars, iovars, readervars
    <3> QED BY <3>1, InsideFrame DEF PhaseMap
  <2> QED BY <2>1, <2>2, <2>3, <2>4, <2>5, <2>6 DEF Next
<1> QED BY <1>1, <1>2, ImplCorrect, PTL DEF Spec, ImplementsProtocol, Protocol!PSpec
====
