---- MODULE JdwpDebug_proofs ----
(***************************************************************************)
(* Theorems about JdwpDebug, for every program, every set of breakpoints   *)
(* and every bound.                                                        *)
(***************************************************************************)
EXTENDS JdwpDebug, SequenceTheorems, FiniteSetTheorems, TLAPS

----
(* Type correctness. *)

EngineStates ==
  {"maps", "drain", "redo", "latch", "watch", "scan", "arm", "go", "loop", "set", "ended"}
TaskStates ==
  {"off", "new", "defer", "resolve", "latch", "watch", "enable", "scan", "arm", "done"}
RemStates == {"off", "new", "unarm", "done"}

EvRecords == [kind : {"prepare", "step", "death"}, bp : {NoBp}] \cup [kind : {"bp"}, bp : Bps]
Steps == [active : BOOLEAN, origin : Nat, hops : Nat]

VmTypeOK ==
  /\ vstate \in {"absent", "held", "running", "ended"}
  /\ susp \in Nat
  /\ vline \in {0} \cup Lines
  /\ prepared \subseteq Units
  /\ stepReq \in BOOLEAN
  /\ evq \in Seq(Seq(EvRecords))

EngineTypeOK ==
  /\ epc \in EngineStates
  /\ redo \in Seq(Bps)
  /\ evset \in Seq(EvRecords)
  /\ forUi \in BOOLEAN
  /\ classes \subseteq Units

RequestTypeOK ==
  /\ deferred \in Seq(Bps)
  /\ pending \subseteq Bps /\ armed \subseteq Bps
  /\ claimed \subseteq Units /\ watched \subseteq Units
  /\ unfiltered \subseteq Units /\ missed \subseteq Units /\ refused \subseteq Bps

TaskTypeOK ==
  /\ task \in [Bps -> TaskStates]
  /\ scan \in [Bps -> SUBSET Units]
  /\ rem \in [Bps -> RemStates]

UserTypeOK ==
  /\ ui \in {"running", "paused"} /\ shown \in {0} \cup Lines /\ actions \in Nat
  /\ removed \subseteq Bps /\ settled \subseteq Bps

FlagTypeOK ==
  /\ mapsReady \in BOOLEAN /\ vmSet \in BOOLEAN /\ attached \in BOOLEAN /\ stopped \in BOOLEAN
  /\ currentSet \in BOOLEAN /\ activeStep \in Steps
  /\ resumed \in BOOLEAN /\ released \in Nat /\ early \in BOOLEAN

TypeOK ==
  VmTypeOK /\ EngineTypeOK /\ RequestTypeOK /\ TaskTypeOK /\ UserTypeOK /\ FlagTypeOK

\* The sets of events the VM can send when a line is reached are sequences.
LEMMA BatchType ==
  ASSUME NEW all \in SUBSET EvRecords, IsFiniteSet(all),
         NEW s \in [1..Cardinality(all) -> all]
  PROVE  s \in Seq(EvRecords)
<1>1. Cardinality(all) \in Nat
  BY FS_CardinalityType
<1>2. s \in Seq(all)
  BY <1>1
<1> QED BY <1>2, SeqMonotonic

\* At one line there are finitely many breakpoints.
LEMMA ColocatedFinite ==
  ASSUME NEW S \in SUBSET Bps
  PROVE  IsFiniteSet({Ev("bp", b) : b \in S})
<1> DEFINE f == [b \in S |-> Ev("bp", b)]
           T == {Ev("bp", b) : b \in S}
<1>1. IsFiniteSet(S)
  BY BpsAssumption, FS_Subset
<1>2. f \in Surjection(S, T)
  BY DEF Surjection
<1> HIDE DEF f, T
<1>3. IsFiniteSet(T)
  BY <1>1, <1>2, FS_Surjection
<1> QED BY <1>3 DEF T

\* What Advance does: the next line is reached, and either nothing happens
\* there or a set of the step and the armed breakpoints of that line is queued
\* and the VM suspended.
LEMMA AdvanceStep ==
  ASSUME TypeOK, Advance
  PROVE  /\ vline' \in Flow[vline]
         /\ stepReq' \in BOOLEAN
         /\ \/ evq' = evq /\ susp' = susp
            \/ /\ susp' = susp + 1
               /\ \E s \in Seq(EvRecords) :
                    /\ evq' = Append(evq, s)
                    /\ \A i \in 1..Len(s) :
                         \/ s[i].kind = "step"
                         \/ s[i].kind = "bp" /\ BpLine[s[i].bp] = vline'
<1> DEFINE Events(l, stepHere) ==
             (IF stepHere THEN {Ev("step", NoBp)} ELSE {})
               \cup {Ev("bp", b) : b \in {c \in armed : BpLine[c] = l}}
<1>1. PICK l \in Flow[vline], stepHere \in {stepReq, FALSE} :
        /\ vline' = l
        /\ stepReq' = (stepReq /\ ~stepHere)
        /\ IF Events(l, stepHere) = {} THEN UNCHANGED <<evq, susp>>
           ELSE /\ \E s \in [1..Cardinality(Events(l, stepHere)) -> Events(l, stepHere)] :
                     evq' = Append(evq, s)
                /\ susp' = susp + 1
  BY DEF Advance
<1> DEFINE all == Events(l, stepHere)
<1>2. all \subseteq EvRecords
  BY DEF TypeOK, RequestTypeOK, Ev, EvRecords
<1>3. IsFiniteSet(all)
  <2>1. IsFiniteSet({Ev("bp", b) : b \in {c \in armed : BpLine[c] = l}})
    BY ColocatedFinite DEF TypeOK, RequestTypeOK
  <2>2. IsFiniteSet(IF stepHere THEN {Ev("step", NoBp)} ELSE {})
    BY FS_EmptySet, FS_Singleton
  <2> QED BY <2>1, <2>2, FS_Union
<1>4. \A e \in all : e.kind = "step" \/ (e.kind = "bp" /\ BpLine[e.bp] = l)
  BY DEF Ev
<1>5. ASSUME all # {}
      PROVE  \E s \in Seq(EvRecords) :
               /\ evq' = Append(evq, s)
               /\ \A i \in 1..Len(s) : s[i].kind = "step" \/ (s[i].kind = "bp" /\ BpLine[s[i].bp] = l)
  <2>1. PICK s \in [1..Cardinality(all) -> all] : evq' = Append(evq, s)
    BY <1>1, <1>5
  <2> HIDE DEF all
  <2>2. s \in Seq(EvRecords)
    BY <1>2, <1>3, BatchType
  <2>3. Len(s) = Cardinality(all)
    BY <1>3, FS_CardinalityType
  <2>4. \A i \in 1..Len(s) : s[i] \in all
    BY <2>3
  <2> QED BY <2>1, <2>2, <2>4, <1>4
<1>6. stepReq \in BOOLEAN
  BY DEF TypeOK, VmTypeOK
<1> QED BY <1>1, <1>5, <1>6

\* The initial state is well typed.
LEMMA TypeInit == Init => TypeOK
<1> SUFFICES ASSUME Init PROVE TypeOK OBVIOUS
<1>1. VmTypeOK /\ EngineTypeOK
  <2>1. <<>> \in Seq(Seq(EvRecords)) /\ <<>> \in Seq(EvRecords) /\ <<>> \in Seq(Bps)
    BY EmptySeq
  <2> QED BY <2>1 DEF Init, VmTypeOK, EngineTypeOK, EngineStates
<1>2. RequestTypeOK /\ UserTypeOK
  BY DEF Init, RequestTypeOK, UserTypeOK
<1>3. TaskTypeOK
  BY DEF Init, TaskTypeOK, TaskStates, RemStates
<1>4. FlagTypeOK
  <2>1. NoStep \in Steps
    BY DEF NoStep, Steps
  <2> QED BY <2>1 DEF Init, FlagTypeOK
<1> QED BY <1>1, <1>2, <1>3, <1>4 DEF TypeOK

\* Every step of every actor keeps the types.
LEMMA TypeStep == TypeOK /\ [Next]_vars => TypeOK'
<1> SUFFICES ASSUME TypeOK, [Next]_vars PROVE TypeOK' OBVIOUS
<1> USE DEF TypeOK, VmTypeOK, EngineTypeOK, RequestTypeOK, TaskTypeOK, UserTypeOK, FlagTypeOK,
            vmvars, engvars, reqvars, failvars, stepvars, flagvars, taskvars, uivars
<1>l. Lower(susp) \in Nat /\ Lower(released) \in Nat
  BY DEF Lower
<1>e. Len(evq) \in Nat
  BY LenProperties
<1>u. \A b \in Bps : BpUnit(b) \in Units
  BY BpsAssumption DEF BpUnit, Units
<1>a. /\ \A k : ArmPending(k) => /\ pending' \subseteq Bps /\ armed' \subseteq Bps
                               /\ refused' \subseteq Bps /\ missed' \subseteq Units
      /\ NothingScanned => RequestTypeOK'
  BY DEF ArmPending, NothingScanned
<1>q. \A s \in Seq(EvRecords) : Append(evq, s) \in Seq(Seq(EvRecords))
  BY AppendProperties
<1>r. ResumeTarget => /\ currentSet' \in BOOLEAN /\ early' \in BOOLEAN /\ susp' \in Nat
                      /\ resumed' \in BOOLEAN /\ released' \in Nat
  BY <1>l, <1>e DEF ResumeTarget, ResumeVm
<1>z. ResumeSet => susp' \in Nat /\ released' \in Nat
  BY <1>l, <1>e DEF ResumeSet, ResumeVm
<1>n. NoStep \in Steps
  BY DEF NoStep, Steps
<1>h. evset # <<>> => Head(evset) \in EvRecords /\ Tail(evset) \in Seq(EvRecords)
  BY HeadTailProperties
<1>1. CASE User
  <2>1. ASSUME NEW b \in Bps, Register(b) \/ Unregister(b) PROVE TypeOK'
    <3>1. CASE Register(b)
      BY <3>1 DEF Register, TaskStates
    <3>2. CASE Unregister(b)
      BY <3>2 DEF Unregister, RemStates
    <3> QED BY <2>1, <3>1, <3>2
  <2>2. CASE UserStep
    <3>1. (IF vline = 0 THEN 0 ELSE PellLine[vline]) \in Nat
      BY CodeAssumption
    <3>2. activeStep' \in Steps
      BY <2>2, <3>1 DEF UserStep, Steps
    <3> QED BY <2>2, <3>2, <1>r DEF UserStep, UserGoes
  <2>3. CASE UserResume
    <3>1. VmTypeOK' /\ EngineTypeOK' /\ RequestTypeOK' /\ TaskTypeOK'
      BY <2>3, <1>r DEF UserResume
    <3>2. UserTypeOK' /\ FlagTypeOK'
      BY <2>3, <1>n, <1>r DEF UserResume, UserGoes
    <3> QED BY <3>1, <3>2
  <2>4. CASE UserStop
    BY <2>4 DEF UserStop
  <2> QED BY <1>1, <2>1, <2>2, <2>3, <2>4 DEF User
<1>2. ASSUME NEW b \in Bps, AddTask(b) PROVE TypeOK'
  <2> USE DEF Goto, TaskStates
  <2>1. CASE CheckMaps(b) BY <2>1 DEF CheckMaps
  <2>2. CASE Defer(b) BY <2>2 DEF Defer
  <2>3. CASE AddPending(b) BY <2>3 DEF AddPending
  <2>4. CASE CheckLatch(b) BY <2>4 DEF CheckLatch
  <2>5. CASE ClaimFilter(b) BY <2>5, <1>u DEF ClaimFilter
  <2>6. CASE EnableFilter(b) BY <2>6, <1>u DEF EnableFilter
  <2>7. CASE ScanClasses(b) BY <2>7 DEF ScanClasses
  <2>8. CASE ArmFromTask(b) BY <2>8, <1>a DEF ArmFromTask
  <2>9. CASE ScanFails(b) BY <2>9, <1>a DEF ScanFails
  <2> QED BY <1>2, <2>1, <2>2, <2>3, <2>4, <2>5, <2>6, <2>7, <2>8, <2>9 DEF AddTask
<1>3. ASSUME NEW b \in Bps, RemoveTask(b) PROVE TypeOK'
  <2>1. CASE RemovePending(b) BY <2>1 DEF RemovePending, RemStates
  <2>2. CASE RemoveArmed(b) BY <2>2 DEF RemoveArmed, RemStates
  <2> QED BY <1>3, <2>1, <2>2 DEF RemoveTask
<1>4. CASE Engine
  <2> USE DEF Step, EngineStates
  <2>1. CASE MapsBuilt BY <2>1 DEF MapsBuilt
  <2>2. CASE TakeDeferred BY <2>2 DEF TakeDeferred
  <2>3. CASE AddDeferred
    <3>1. Head(redo) \in Bps /\ Tail(redo) \in Seq(Bps)
      BY <2>3, HeadTailProperties DEF AddDeferred
    <3> QED BY <2>3, <3>1 DEF AddDeferred
  <2>4. CASE Accept BY <2>4 DEF Accept
  <2>5. CASE OpenLatch BY <2>5 DEF OpenLatch
  <2>6. CASE WatchPending BY <2>6, <1>u DEF WatchPending
  <2>7. CASE EngineScan BY <2>7 DEF EngineScan
  <2>8. CASE EngineArm BY <2>8, <1>a DEF EngineArm
  <2>9. CASE SendGo BY <2>9 DEF SendGo
  <2>10. CASE StartupFails BY <2>10 DEF StartupFails
  <2>11. CASE TargetExits BY <2>11 DEF TargetExits
  <2>12. CASE TakeSet
    <3>1. Head(evq) \in Seq(EvRecords) /\ Tail(evq) \in Seq(Seq(EvRecords))
      BY <2>12, HeadTailProperties DEF TakeSet
    <3>2. VmTypeOK' /\ RequestTypeOK' /\ TaskTypeOK' /\ UserTypeOK' /\ FlagTypeOK'
      BY <2>12, <1>l DEF TakeSet
    <3>3. EngineTypeOK'
      BY <2>12, <3>1 DEF TakeSet
    <3> QED BY <3>2, <3>3
  <2>13. CASE OnPrepare BY <2>13, <1>a, <1>h DEF OnPrepare, Handling, Handled
  <2>14. CASE OnBreakpoint
    <3>1. BpLine[Head(evset).bp] \in Lines
      BY <2>14, <1>h, BpsAssumption DEF OnBreakpoint, Handling, EvRecords
    <3> QED BY <2>14, <1>h, <3>1, <1>n DEF OnBreakpoint, Handling, Handled
  <2>15. CASE OnStepAgain
    <3>1. \A n \in Nat : [activeStep EXCEPT !.hops = n] \in Steps
      BY DEF Steps
    <3>2. activeStep.hops + 1 \in Nat
      BY DEF Steps
    <3>3. activeStep' \in Steps
      BY <2>15, <3>1, <3>2 DEF OnStepAgain
    <3> QED BY <2>15, <1>h, <1>z, <3>3 DEF OnStepAgain, Handling, Handled
  <2>16. CASE OnStepDone BY <2>16, <1>h, <1>n DEF OnStepDone, Handling, Handled
  <2>17. CASE OnDeath BY <2>17, <1>h DEF OnDeath, Handling, Handled
  <2>18. CASE EndSet BY <2>18, <1>z DEF EndSet
  <2>19. CASE EndLoop BY <2>19 DEF EndLoop
  <2>20. CASE EngineScanFails BY <2>20, <1>a DEF EngineScanFails
  <2>21. CASE OnPrepareFails BY <2>21, <1>a, <1>h DEF OnPrepareFails, Handling, Handled
  <2> QED BY <1>4, <2>1, <2>2, <2>3, <2>4, <2>5, <2>6, <2>7, <2>8, <2>9, <2>10, <2>11, <2>12,
             <2>13, <2>14, <2>15, <2>16, <2>17, <2>18, <2>19, <2>20, <2>21 DEF Engine
<1>5. CASE Vm
  <2>e. /\ Ev("prepare", NoBp) \in EvRecords /\ Ev("step", NoBp) \in EvRecords
        /\ Ev("death", NoBp) \in EvRecords
        /\ \A b \in Bps : Ev("bp", b) \in EvRecords
    BY DEF Ev, EvRecords
  <2>f. Flow[vline] \subseteq Lines
    BY CodeAssumption
  <2>1. CASE Prepare
    <3>1. <<Ev("prepare", NoBp)>> \in Seq(EvRecords)
      BY <2>e
    <3>2. \A l \in Flow[vline] : UnitOf[l] \in Units
      BY <2>f DEF Units
    <3>3. VmTypeOK'
      <4>1. PICK l \in Flow[vline] :
              /\ prepared' = prepared \cup {UnitOf[l]}
              /\ \/ evq' = Append(evq, <<Ev("prepare", NoBp)>>) /\ susp' = susp + 1
                 \/ evq' = evq /\ susp' = susp
        BY <2>1 DEF Prepare
      <4>2. prepared' \subseteq Units
        BY <4>1, <3>2
      <4>3. evq' \in Seq(Seq(EvRecords))
        BY <4>1, <3>1, <1>q
      <4>4. susp' \in Nat
        BY <4>1
      <4> QED BY <2>1, <4>2, <4>3, <4>4 DEF Prepare
    <3>4. RequestTypeOK'
      BY <2>1, <3>2 DEF Prepare
    <3>5. EngineTypeOK' /\ TaskTypeOK' /\ UserTypeOK' /\ FlagTypeOK'
      BY <2>1 DEF Prepare
    <3> QED BY <3>3, <3>4, <3>5
  <2>2. CASE Advance
    <3>1. VmTypeOK'
      <4>1. evq' \in Seq(Seq(EvRecords))
        BY <2>2, <1>q, AdvanceStep
      <4>3. susp' \in Nat
        BY <2>2, AdvanceStep
      <4>2. vline' \in {0} \cup Lines /\ stepReq' \in BOOLEAN
        BY <2>2, <2>f, AdvanceStep
      <4> QED BY <2>2, <4>1, <4>2, <4>3 DEF Advance
    <3>2. EngineTypeOK' /\ RequestTypeOK' /\ TaskTypeOK' /\ UserTypeOK' /\ FlagTypeOK'
      BY <2>2 DEF Advance
    <3> QED BY <3>1, <3>2
  <2>3. CASE VmEnds
    <3>1. <<Ev("death", NoBp)>> \in Seq(EvRecords)
      BY <2>e
    <3> QED BY <2>3, <3>1, <1>q DEF VmEnds
  <2> QED BY <1>5, <2>1, <2>2, <2>3 DEF Vm
<1>6. CASE UNCHANGED vars
  BY <1>6 DEF vars
<1> QED BY <1>1, <1>2, <1>3, <1>4, <1>5, <1>6 DEF Next

\* The process, the engine, the tasks and the display only ever hold what
\* their fields are declared for.
THEOREM TypeCorrect == Spec => []TypeOK
<1>1. Init => TypeOK BY TypeInit
<1>2. TypeOK /\ [Next]_vars => TypeOK' BY TypeStep
<1> QED BY <1>1, <1>2, PTL DEF Spec

----
(* RemovalSticks. *)

\* Nothing is armed before the VM is known, and who arms works on a VM.
ArmingHasVm ==
  /\ ~vmSet => armed = {}
  /\ attached => vmSet
  /\ \A b \in Bps : task[b] \in {"watch", "enable", "scan", "arm"} => attached
  /\ epc \in {"latch", "watch", "scan", "arm", "go", "loop", "set"} => vmSet

\* A breakpoint that was through has no way back into pending, and once its
\* removal is over it is not armed.
Gone(b) ==
  /\ AddThrough(b)
  /\ b \notin pending
  /\ rem[b] \in {"unarm", "done"}
  /\ rem[b] = "done" => b \notin armed

RemovalInv == ArmingHasVm /\ \A b \in settled : Gone(b)

\* Startup and the pooled tasks keep the order VM, latch, arming.
LEMMA ArmingStep == TypeOK /\ ArmingHasVm /\ [Next]_vars => ArmingHasVm'
<1> SUFFICES ASSUME TypeOK, ArmingHasVm, [Next]_vars PROVE ArmingHasVm' OBVIOUS
<1> USE DEF ArmingHasVm, vmvars, engvars, reqvars, failvars, stepvars, flagvars, taskvars, uivars
<1>t. task \in [Bps -> TaskStates]
  BY DEF TypeOK, TaskTypeOK
<1>1. CASE User
  <2>1. ASSUME NEW b \in Bps, Register(b) \/ Unregister(b) PROVE ArmingHasVm'
    BY <2>1, <1>t DEF Register, Unregister
  <2>2. CASE UserStep \/ UserResume \/ UserStop
    BY <2>2 DEF UserStep, UserResume, UserStop
  <2> QED BY <1>1, <2>1, <2>2 DEF User
<1>2. ASSUME NEW b \in Bps, AddTask(b) PROVE ArmingHasVm'
  <2> USE <1>t DEF Goto
  <2>1. CASE CheckMaps(b) BY <2>1 DEF CheckMaps
  <2>2. CASE Defer(b) BY <2>2 DEF Defer
  <2>3. CASE AddPending(b) BY <2>3 DEF AddPending
  <2>4. CASE CheckLatch(b) BY <2>4 DEF CheckLatch
  <2>5. CASE ClaimFilter(b) BY <2>5 DEF ClaimFilter
  <2>6. CASE EnableFilter(b) BY <2>6 DEF EnableFilter
  <2>7. CASE ScanClasses(b) BY <2>7 DEF ScanClasses
  <2>8. CASE ArmFromTask(b) BY <2>8 DEF ArmFromTask
  <2>9. CASE ScanFails(b) BY <2>9 DEF ScanFails, NothingScanned
  <2> QED BY <1>2, <2>1, <2>2, <2>3, <2>4, <2>5, <2>6, <2>7, <2>8, <2>9 DEF AddTask
<1>3. ASSUME NEW b \in Bps, RemoveTask(b) PROVE ArmingHasVm'
  BY <1>3 DEF RemoveTask, RemovePending, RemoveArmed
<1>4. CASE Engine
  <2> USE DEF Step, Handled, Handling
  <2>1. CASE MapsBuilt \/ TakeDeferred \/ AddDeferred \/ Accept \/ OpenLatch \/ WatchPending
    BY <2>1 DEF MapsBuilt, TakeDeferred, AddDeferred, Accept, OpenLatch, WatchPending
  <2>2. CASE EngineScan \/ EngineArm \/ SendGo \/ StartupFails \/ TargetExits \/ TakeSet
    BY <2>2 DEF EngineScan, EngineArm, SendGo, StartupFails, TargetExits, TakeSet
  <2>3. CASE OnPrepare \/ OnBreakpoint \/ OnStepAgain \/ OnStepDone \/ OnDeath \/ EndSet \/ EndLoop
    BY <2>3 DEF OnPrepare, OnBreakpoint, OnStepAgain, OnStepDone, OnDeath, EndSet, EndLoop
  <2>4. CASE EngineScanFails \/ OnPrepareFails
    BY <2>4 DEF EngineScanFails, OnPrepareFails, NothingScanned
  <2> QED BY <1>4, <2>1, <2>2, <2>3, <2>4 DEF Engine
<1>5. CASE Vm
  BY <1>5 DEF Vm, Prepare, Advance, VmEnds
<1>6. CASE UNCHANGED vars
  BY <1>6 DEF vars
<1> QED BY <1>1, <1>2, <1>3, <1>4, <1>5, <1>6 DEF Next

\* A step that touches neither the lists, the requests nor the removals of
\* breakpoints, and no finished addition, leaves a removed breakpoint removed.
LEMMA GoneFrame ==
  ASSUME NEW b, Gone(b), UNCHANGED <<deferred, redo, pending, armed, rem>>,
         task[b] = "done" => task'[b] = "done"
  PROVE  Gone(b)'
BY DEF Gone, AddThrough

\* Nothing brings a removed breakpoint back.
LEMMA GoneStep ==
  ASSUME TypeOK, ArmingHasVm, [Next]_vars, NEW b \in settled, Gone(b)
  PROVE  Gone(b)'
<1> USE DEF vmvars, engvars, reqvars, failvars, stepvars, flagvars, taskvars, uivars
<1>t. /\ task \in [Bps -> TaskStates] /\ rem \in [Bps -> RemStates]
      /\ deferred \in Seq(Bps) /\ redo \in Seq(Bps) /\ b \in Bps
  BY DEF TypeOK, TaskTypeOK, RequestTypeOK, EngineTypeOK, UserTypeOK
<1>g. /\ task[b] = "done" /\ b \notin pending
      /\ rem[b] \in {"unarm", "done"} /\ (rem[b] = "done" => b \notin armed)
      /\ \A i \in 1..Len(deferred) : deferred[i] # b
      /\ \A i \in 1..Len(redo) : redo[i] # b
  BY DEF Gone, AddThrough
\* Arming takes from pending only.
<1>a. ASSUME NEW k, ArmPending(k), UNCHANGED <<deferred, redo, rem>>, task'[b] = "done"
      PROVE  Gone(b)'
  BY <1>a, <1>g DEF ArmPending, Gone, AddThrough
<1>1. CASE User
  <2>1. ASSUME NEW c \in Bps, Register(c) PROVE Gone(b)'
    BY <2>1, <1>t, <1>g, GoneFrame DEF Register
  <2>2. ASSUME NEW c \in Bps, Unregister(c) PROVE Gone(b)'
    BY <2>2, <1>t, <1>g DEF Unregister, Gone, AddThrough
  <2>3. CASE UserStep \/ UserResume \/ UserStop
    BY <2>3, GoneFrame DEF UserStep, UserResume, UserStop
  <2> QED BY <1>1, <2>1, <2>2, <2>3 DEF User
<1>2. ASSUME NEW c \in Bps, AddTask(c) PROVE Gone(b)'
  <2>1. CASE CheckMaps(c) BY <2>1, <1>t, <1>g, GoneFrame DEF CheckMaps, Goto
  <2>2. CASE Defer(c)
    <3>1. c # b /\ task'[b] = "done"
      BY <2>2, <1>t, <1>g DEF Defer, Goto
    <3>2. \A i \in 1..Len(deferred') : deferred'[i] # b
      BY <2>2, <3>1, <1>t, <1>g, AppendProperties DEF Defer
    <3> QED BY <2>2, <3>1, <3>2, <1>g DEF Defer, Gone, AddThrough
  <2>3. CASE AddPending(c)
    <3>1. c # b /\ task'[b] = "done"
      BY <2>3, <1>t, <1>g DEF AddPending, Goto
    <3> QED BY <2>3, <3>1, <1>g DEF AddPending, Gone, AddThrough
  <2>4. CASE CheckLatch(c) BY <2>4, <1>t, <1>g, GoneFrame DEF CheckLatch, Goto
  <2>5. CASE ClaimFilter(c) BY <2>5, <1>t, <1>g, GoneFrame DEF ClaimFilter, Goto
  <2>6. CASE EnableFilter(c) BY <2>6, <1>t, <1>g, GoneFrame DEF EnableFilter, Goto
  <2>7. CASE ScanClasses(c) BY <2>7, <1>t, <1>g, GoneFrame DEF ScanClasses, Goto
  <2>8. CASE ArmFromTask(c) BY <2>8, <1>t, <1>g, <1>a DEF ArmFromTask, Goto
  <2>9. CASE ScanFails(c) BY <2>9, <1>t, <1>g, GoneFrame DEF ScanFails, NothingScanned, Goto
  <2> QED BY <1>2, <2>1, <2>2, <2>3, <2>4, <2>5, <2>6, <2>7, <2>8, <2>9 DEF AddTask
<1>3. ASSUME NEW c \in Bps, RemoveTask(c) PROVE Gone(b)'
  <2>1. CASE RemovePending(c)
    BY <2>1, <1>t, <1>g DEF RemovePending, Gone, AddThrough
  <2>2. CASE RemoveArmed(c)
    BY <2>2, <1>t, <1>g DEF RemoveArmed, Gone, AddThrough
  <2> QED BY <1>3, <2>1, <2>2 DEF RemoveTask
<1>4. CASE Engine
  <2> USE DEF Step, Handled
  <2>1. CASE TakeDeferred
    <3>1. \A i \in 1..Len(deferred') : deferred'[i] # b
      BY <2>1 DEF TakeDeferred
    <3> QED BY <2>1, <3>1, <1>g DEF TakeDeferred, Gone, AddThrough
  <2>2. CASE AddDeferred
    <3>1. \A i \in 1..Len(Tail(redo)) : Tail(redo)[i] # b
      BY <2>2, <1>t, <1>g, HeadTailProperties DEF AddDeferred
    <3>2. Head(redo) # b
      BY <2>2, <1>t, <1>g DEF AddDeferred
    <3> QED BY <2>2, <3>1, <3>2, <1>g DEF AddDeferred, Gone, AddThrough
  <2>3. CASE MapsBuilt \/ Accept \/ OpenLatch \/ WatchPending \/ EngineScan \/ SendGo
    BY <2>3, GoneFrame DEF MapsBuilt, Accept, OpenLatch, WatchPending, EngineScan, SendGo
  <2>4. CASE StartupFails \/ TargetExits \/ TakeSet \/ OnBreakpoint \/ OnStepAgain \/ OnStepDone
    BY <2>4, GoneFrame DEF StartupFails, TargetExits, TakeSet, OnBreakpoint, OnStepAgain, OnStepDone
  <2>5. CASE OnDeath \/ EndSet \/ EndLoop
    BY <2>5, GoneFrame DEF OnDeath, EndSet, EndLoop
  <2>6. CASE EngineArm BY <2>6, <1>a, <1>g DEF EngineArm
  <2>7. CASE OnPrepare BY <2>7, <1>a, <1>g DEF OnPrepare
  <2>8. CASE EngineScanFails \/ OnPrepareFails
    BY <2>8, GoneFrame DEF EngineScanFails, OnPrepareFails, NothingScanned
  <2> QED BY <1>4, <2>1, <2>2, <2>3, <2>4, <2>5, <2>6, <2>7, <2>8 DEF Engine
<1>5. CASE Vm
  BY <1>5, GoneFrame DEF Vm, Prepare, Advance, VmEnds
<1>6. CASE UNCHANGED vars
  BY <1>6, GoneFrame DEF vars
<1> QED BY <1>1, <1>2, <1>3, <1>4, <1>5, <1>6 DEF Next

\* Only removeBreakpoint() settles a breakpoint, and leaves it gone.
LEMMA SettledStep ==
  ASSUME TypeOK, ArmingHasVm, [Next]_vars, NEW b \in settled' \ settled
  PROVE  Gone(b)'
<1> USE DEF vmvars, engvars, reqvars, failvars, stepvars, flagvars, taskvars, uivars
<1>1. PICK c \in Bps : RemovePending(c)
  <2>1. settled' # settled
    OBVIOUS
  <2>2. ~User
    BY <2>1 DEF User, Register, Unregister, UserStep, UserGoes, UserResume, UserStop
  <2>3. \A c \in Bps : ~AddTask(c) /\ ~RemoveArmed(c)
    BY <2>1 DEF AddTask, CheckMaps, Defer, AddPending, CheckLatch, ClaimFilter, EnableFilter,
                ScanClasses, ScanFails, ArmFromTask, RemoveArmed
  <2>4. ~Engine
    BY <2>1 DEF Engine, MapsBuilt, TakeDeferred, AddDeferred, Accept, OpenLatch, WatchPending,
                EngineScan, EngineScanFails, EngineArm, SendGo, StartupFails, TargetExits,
                TakeSet, OnPrepare, OnPrepareFails, OnBreakpoint, OnStepAgain, OnStepDone,
                OnDeath, EndSet, EndLoop
  <2>5. ~Vm /\ ~UNCHANGED vars
    BY <2>1 DEF Vm, Prepare, Advance, VmEnds, vars
  <2> QED BY <2>2, <2>3, <2>4, <2>5 DEF Next, RemoveTask
<1>2. b = c /\ AddThrough(c)
  BY <1>1 DEF RemovePending
<1>3. rem \in [Bps -> RemStates]
  BY DEF TypeOK, TaskTypeOK
<1> QED BY <1>1, <1>2, <1>3 DEF RemovePending, Gone, AddThrough, ArmingHasVm

\* A breakpoint that was through when it was removed is neither pending nor
\* armed once its removal is over, whatever runs meanwhile (removeBreakpoint).
THEOREM RemovalSticksHolds == Spec => []RemovalSticks
<1>1. Init => RemovalInv
  BY DEF Init, RemovalInv, ArmingHasVm
<1>2. TypeOK /\ RemovalInv /\ [Next]_vars => RemovalInv'
  <2> SUFFICES ASSUME TypeOK, RemovalInv, [Next]_vars PROVE RemovalInv' OBVIOUS
  <2>1. ArmingHasVm'
    BY ArmingStep DEF RemovalInv
  <2>2. ASSUME NEW b \in settled' PROVE Gone(b)'
    BY GoneStep, SettledStep DEF RemovalInv
  <2> QED BY <2>1, <2>2 DEF RemovalInv
<1>3. RemovalInv => RemovalSticks
  BY DEF RemovalInv, RemovalSticks, Gone
<1> QED BY <1>1, <1>2, <1>3, TypeCorrect, PTL DEF Spec

----
(* NothingLeftPending. *)

Early == {"maps", "drain", "redo", "latch", "watch"}

\* The latch opens before the filters are set; a claimed filter is enabled, its
\* task is about to enable it, or its request has failed.
Filters ==
  /\ ~attached => epc \in {"maps", "drain", "redo", "latch", "ended"}
  /\ \A u \in claimed : \/ u \in watched \cup unfiltered
                        \/ \E c \in Bps : task[c] = "enable" /\ BpUnit(c) = u

\* A pending breakpoint is watched for, or its task or the engine will do it.
WillBeWatched(b) ==
  BpUnit(b) \in claimed \/ task[b] \in {"latch", "watch"} \/ epc \in Early

\* The unit of a pending breakpoint is prepared: somebody is going to arm it,
\* unless one of the failures has come between.
EventComing ==
  \/ PrepareComing
  \/ epc = "set" /\ \E j \in 1..Len(evset) : evset[j].kind = "prepare"
TaskWillArm(u) ==
  \E c \in Bps : \/ task[c] \in {"latch", "watch", "enable", "scan"}
                 \/ task[c] = "arm" /\ u \in scan[c]
EngineWillArm(u) == epc \in Early \cup {"scan"} \/ (epc = "arm" /\ u \in classes)
WillBeArmed(b) ==
  b \notin refused /\ BpUnit(b) \in prepared \ missed =>
    EventComing \/ TaskWillArm(BpUnit(b)) \/ EngineWillArm(BpUnit(b))

PendingInv ==
  /\ Filters
  /\ epc # "ended" => \A b \in pending : WillBeWatched(b) /\ WillBeArmed(b)

\* A claimed filter stays claimed, and is enabled by who claimed it.
LEMMA FiltersStep == TypeOK /\ Filters /\ [Next]_vars => Filters'
<1> SUFFICES ASSUME TypeOK, Filters, [Next]_vars PROVE Filters' OBVIOUS
<1> USE DEF vmvars, engvars, reqvars, failvars, stepvars, flagvars, taskvars, uivars
<1>t. task \in [Bps -> TaskStates]
  BY DEF TypeOK, TaskTypeOK
\* Steps that leave the filters alone, and the tasks that enable them.
<1>f. ASSUME UNCHANGED <<claimed, watched, unfiltered, attached, epc>>,
             \A c \in Bps : task[c] = "enable" => task'[c] = "enable"
      PROVE  Filters'
  BY <1>f DEF Filters
<1>g. ASSUME UNCHANGED <<claimed, watched, unfiltered, task>>,
             ~attached' => epc' \in {"maps", "drain", "redo", "latch", "ended"}
      PROVE  Filters'
  BY <1>g DEF Filters
<1>1. CASE User
  <2>1. ASSUME NEW b \in Bps, Register(b) \/ Unregister(b) PROVE Filters'
    BY <2>1, <1>t, <1>f DEF Register, Unregister
  <2>2. CASE UserStep \/ UserResume \/ UserStop
    BY <2>2, <1>f DEF UserStep, UserResume, UserStop
  <2> QED BY <1>1, <2>1, <2>2 DEF User
<1>2. ASSUME NEW b \in Bps, AddTask(b) PROVE Filters'
  <2> USE <1>t DEF Goto
  <2>1. CASE CheckMaps(b) \/ Defer(b) \/ AddPending(b) \/ CheckLatch(b)
    BY <2>1, <1>f DEF CheckMaps, Defer, AddPending, CheckLatch
  <2>2. CASE ClaimFilter(b)
    <3>1. \A c \in Bps : task[c] = "enable" => task'[c] = "enable"
      BY <2>2 DEF ClaimFilter
    <3>2. BpUnit(b) \in claimed \/ task'[b] = "enable"
      BY <2>2 DEF ClaimFilter
    <3>3. claimed' = claimed \cup {BpUnit(b)} /\ UNCHANGED <<watched, unfiltered, attached, epc>>
      BY <2>2 DEF ClaimFilter
    <3> QED BY <3>1, <3>2, <3>3 DEF Filters
  <2>3. CASE EnableFilter(b)
    <3>1. \A c \in Bps : c # b => task'[c] = task[c]
      BY <2>3 DEF EnableFilter
    <3>2. /\ (watched \cup unfiltered)' = watched \cup unfiltered \cup {BpUnit(b)}
          /\ UNCHANGED <<claimed, attached, epc>>
      BY <2>3 DEF EnableFilter
    <3> QED BY <3>1, <3>2 DEF Filters
  <2>4. CASE ScanClasses(b) \/ ScanFails(b) \/ ArmFromTask(b)
    BY <2>4, <1>f DEF ScanClasses, ScanFails, NothingScanned, ArmFromTask
  <2> QED BY <1>2, <2>1, <2>2, <2>3, <2>4 DEF AddTask
<1>3. ASSUME NEW b \in Bps, RemoveTask(b) PROVE Filters'
  BY <1>3, <1>f DEF RemoveTask, RemovePending, RemoveArmed
<1>4. CASE Engine
  <2> USE DEF Step, Handled, Handling
  <2>1. CASE WatchPending
    <3> DEFINE units == {BpUnit(b) : b \in pending}
    <3>1. /\ claimed' = claimed \cup units
          /\ (watched \cup unfiltered)' = watched \cup unfiltered \cup (units \ claimed)
      BY <2>1 DEF WatchPending
    <3>2. UNCHANGED <<task, attached>> /\ epc = "watch"
      BY <2>1 DEF WatchPending
    <3> QED BY <3>1, <3>2 DEF Filters
  <2>2. CASE MapsBuilt \/ TakeDeferred \/ AddDeferred \/ Accept \/ OpenLatch
    BY <2>2, <1>g DEF MapsBuilt, TakeDeferred, AddDeferred, Accept, OpenLatch, Filters
  <2>3. CASE EngineScan \/ EngineArm \/ SendGo \/ StartupFails \/ TakeSet
    BY <2>3, <1>g DEF EngineScan, EngineArm, SendGo, StartupFails, TakeSet, Filters
  <2>4. CASE OnPrepare \/ OnBreakpoint \/ OnStepAgain \/ OnStepDone \/ OnDeath \/ TargetExits
    BY <2>4, <1>f DEF OnPrepare, OnBreakpoint, OnStepAgain, OnStepDone, OnDeath, TargetExits
  <2>5. CASE EndSet \/ EndLoop
    BY <2>5, <1>g DEF EndSet, EndLoop, Filters
  <2>6. CASE EngineScanFails \/ OnPrepareFails
    BY <2>6, <1>g DEF EngineScanFails, OnPrepareFails, NothingScanned, Filters
  <2> QED BY <1>4, <2>1, <2>2, <2>3, <2>4, <2>5, <2>6 DEF Engine
<1>5. CASE Vm
  BY <1>5, <1>f DEF Vm, Prepare, Advance, VmEnds
<1>6. CASE UNCHANGED vars
  BY <1>6, <1>f DEF vars
<1> QED BY <1>1, <1>2, <1>3, <1>4, <1>5, <1>6 DEF Next

\* Whoever makes a breakpoint pending goes on to watch for its unit.
LEMMA WatchedStep ==
  ASSUME TypeOK, Filters, [Next]_vars, NEW b \in pending', epc' # "ended",
         b \in pending => WillBeWatched(b)
  PROVE  WillBeWatched(b)'
<1> USE DEF vmvars, engvars, reqvars, failvars, stepvars, flagvars, taskvars, uivars
<1>t. task \in [Bps -> TaskStates] /\ b \in Bps /\ BpUnit(b)' = BpUnit(b)
  <2>1. pending' \subseteq Bps
    BY TypeStep DEF TypeOK, RequestTypeOK
  <2> QED BY <2>1 DEF TypeOK, TaskTypeOK, BpUnit
<1>f. ASSUME b \in pending, claimed \subseteq claimed',
             task[b] \in {"latch", "watch"} => task'[b] = task[b],
             epc \in Early => epc' \in Early
      PROVE  WillBeWatched(b)'
  BY <1>f, <1>t DEF WillBeWatched
<1>1. CASE User
  <2>1. ASSUME NEW c \in Bps, Register(c) \/ Unregister(c) PROVE WillBeWatched(b)'
    BY <2>1, <1>t, <1>f DEF Register, Unregister
  <2>2. CASE UserStep \/ UserResume \/ UserStop
    BY <2>2, <1>f DEF UserStep, UserResume, UserStop
  <2> QED BY <1>1, <2>1, <2>2 DEF User
<1>2. ASSUME NEW c \in Bps, AddTask(c) PROVE WillBeWatched(b)'
  <2> USE <1>t DEF Goto
  <2>1. CASE CheckMaps(c) \/ Defer(c) \/ EnableFilter(c) \/ ScanClasses(c) \/ ScanFails(c)
    BY <2>1, <1>f DEF CheckMaps, Defer, EnableFilter, ScanClasses, ScanFails, NothingScanned
  <2>2. CASE AddPending(c)
    <3>1. CASE b = c
      BY <2>2, <3>1 DEF AddPending, WillBeWatched
    <3>2. CASE b # c
      BY <2>2, <3>2, <1>f DEF AddPending
    <3> QED BY <3>1, <3>2
  <2>3. CASE CheckLatch(c)
    <3>1. CASE b = c /\ attached
      BY <2>3, <3>1 DEF CheckLatch, WillBeWatched
    <3>2. CASE b = c /\ ~attached
      BY <2>3, <3>2 DEF CheckLatch, WillBeWatched, Filters, Early
    <3>3. CASE b # c
      BY <2>3, <3>3, <1>f DEF CheckLatch
    <3> QED BY <3>1, <3>2, <3>3
  <2>4. CASE ClaimFilter(c)
    <3>1. CASE b = c
      BY <2>4, <3>1 DEF ClaimFilter, WillBeWatched
    <3>2. CASE b # c
      BY <2>4, <3>2, <1>f DEF ClaimFilter
    <3> QED BY <3>1, <3>2
  <2>5. CASE ArmFromTask(c)
    BY <2>5, <1>f DEF ArmFromTask, ArmPending
  <2> QED BY <1>2, <2>1, <2>2, <2>3, <2>4, <2>5 DEF AddTask
<1>3. ASSUME NEW c \in Bps, RemoveTask(c) PROVE WillBeWatched(b)'
  BY <1>3, <1>f DEF RemoveTask, RemovePending, RemoveArmed
<1>4. CASE Engine
  <2> USE DEF Step, Handled, Handling
  <2>1. CASE WatchPending
    <3>1. b \in pending /\ claimed' = claimed \cup {BpUnit(c) : c \in pending}
      BY <2>1 DEF WatchPending
    <3> QED BY <3>1, <1>t DEF WillBeWatched
  <2>2. CASE AddDeferred
    BY <2>2 DEF AddDeferred, WillBeWatched, Early
  <2>3. CASE MapsBuilt \/ TakeDeferred \/ Accept \/ OpenLatch
    BY <2>3, <1>f DEF MapsBuilt, TakeDeferred, Accept, OpenLatch, Early
  <2>4. CASE EngineScan \/ EngineArm \/ SendGo \/ StartupFails \/ TakeSet
    BY <2>4, <1>f DEF EngineScan, EngineArm, ArmPending, SendGo, StartupFails, TakeSet, Early
  <2>5. CASE OnPrepare \/ OnBreakpoint \/ OnStepAgain \/ OnStepDone \/ OnDeath \/ TargetExits
    BY <2>5, <1>f DEF OnPrepare, ArmPending, OnBreakpoint, OnStepAgain, OnStepDone, OnDeath,
                      TargetExits
  <2>6. CASE EndSet \/ EndLoop
    BY <2>6, <1>f DEF EndSet, EndLoop, Early
  <2>7. CASE EngineScanFails \/ OnPrepareFails
    BY <2>7, <1>f DEF EngineScanFails, OnPrepareFails, NothingScanned, Early
  <2> QED BY <1>4, <2>1, <2>2, <2>3, <2>4, <2>5, <2>6, <2>7 DEF Engine
<1>5. CASE Vm
  BY <1>5, <1>f DEF Vm, Prepare, Advance, VmEnds
<1>6. CASE UNCHANGED vars
  BY <1>6, <1>f DEF vars
<1> QED BY <1>1, <1>2, <1>3, <1>4, <1>5, <1>6 DEF Next

\* A queued ClassPrepare event stays queued when another set follows it.
LEMMA PrepareStays ==
  ASSUME TypeOK, PrepareComing, NEW s \in Seq(EvRecords), evq' = Append(evq, s)
  PROVE  PrepareComing'
<1>1. evq \in Seq(Seq(EvRecords))
  BY DEF TypeOK, VmTypeOK
<1>2. /\ Len(Append(evq, s)) = Len(evq) + 1
      /\ \A i \in 1..Len(evq) : Append(evq, s)[i] = evq[i]
  BY <1>1, AppendProperties
<1>3. Len(evq) \in Nat
  BY <1>1, LenProperties
<1> QED BY <1>2, <1>3 DEF PrepareComing

\* A ClassPrepare event of the set in hand is still there when another event
\* of the set has been handled.
LEMMA PrepareInHand ==
  ASSUME TypeOK, evset # <<>>, Head(evset).kind # "prepare",
         NEW j \in 1..Len(evset), evset[j].kind = "prepare"
  PROVE  \E i \in 1..Len(Tail(evset)) : Tail(evset)[i].kind = "prepare"
<1>1. evset \in Seq(EvRecords)
  BY DEF TypeOK, EngineTypeOK
<1>2. j # 1
  BY <1>1
<1>3. j - 1 \in 1..Len(Tail(evset)) /\ Tail(evset)[j - 1] = evset[j]
  BY <1>1, <1>2, HeadTailProperties
<1> QED BY <1>3

\* A ClassPrepare event goes from the queue into the engine's hand.
LEMMA PrepareTaken ==
  ASSUME TypeOK, PrepareComing, evq # <<>>
  PROVE  \/ \E j \in 1..Len(Head(evq)) : Head(evq)[j].kind = "prepare"
         \/ \E i \in 1..Len(Tail(evq)) : \E j \in 1..Len(Tail(evq)[i]) :
              Tail(evq)[i][j].kind = "prepare"
<1>1. evq \in Seq(Seq(EvRecords))
  BY DEF TypeOK, VmTypeOK
<1>2. PICK i \in 1..Len(evq) : \E j \in 1..Len(evq[i]) : evq[i][j].kind = "prepare"
  BY DEF PrepareComing
<1>3. CASE i = 1
  BY <1>1, <1>2, <1>3
<1>4. CASE i # 1
  <2>1. i - 1 \in 1..Len(Tail(evq)) /\ Tail(evq)[i - 1] = evq[i]
    BY <1>1, <1>4, HeadTailProperties
  <2> QED BY <2>1, <1>2
<1> QED BY <1>3, <1>4

\* A unit prepared while a breakpoint of it is pending sends an event, or the
\* engine or a task has yet to read the classes.
LEMMA PrepareArms ==
  ASSUME TypeOK, Filters, Prepare, NEW b \in pending, epc # "ended",
         WillBeWatched(b), WillBeArmed(b)
  PROVE  WillBeArmed(b)'
<1> USE DEF vmvars, engvars, reqvars, failvars, stepvars, flagvars, taskvars, uivars
<1>1. PICK l \in Flow[vline] :
        /\ prepared' = prepared \cup {UnitOf[l]}
        /\ IF UnitOf[l] \in watched THEN evq' = Append(evq, <<Ev("prepare", NoBp)>>)
           ELSE evq' = evq
        /\ missed' = missed \cup ({UnitOf[l]} \cap unfiltered)
  BY DEF Prepare
<1>2. UNCHANGED <<engvars, taskvars, claimed, refused>> /\ BpUnit(b)' = BpUnit(b)
  BY DEF Prepare, BpUnit
<1>e. <<Ev("prepare", NoBp)>> \in Seq(EvRecords)
  BY DEF Ev, EvRecords
<1>3. PrepareComing => PrepareComing'
  <2>1. CASE UnitOf[l] \in watched
    BY <2>1, <1>1, <1>e, PrepareStays
  <2>2. CASE UnitOf[l] \notin watched
    BY <2>2, <1>1 DEF PrepareComing
  <2> QED BY <2>1, <2>2
<1>4. EventComing => EventComing'
  BY <1>2, <1>3 DEF EventComing
<1>5. TaskWillArm(BpUnit(b)) => TaskWillArm(BpUnit(b))'
  BY <1>2 DEF TaskWillArm
<1>6. EngineWillArm(BpUnit(b)) => EngineWillArm(BpUnit(b))'
  BY <1>2 DEF EngineWillArm
<1>7. CASE BpUnit(b) \in prepared
  BY <1>7, <1>1, <1>2, <1>4, <1>5, <1>6 DEF WillBeArmed
<1>8. CASE BpUnit(b) \notin prepared' BY <1>8 DEF WillBeArmed, BpUnit
<1>9. CASE BpUnit(b) = UnitOf[l]
  <2>1. CASE BpUnit(b) \in watched
    <3>1. evq' = Append(evq, <<Ev("prepare", NoBp)>>)
      BY <2>1, <1>9, <1>1
    <3>2. /\ Len(evq') = Len(evq) + 1 /\ Len(evq) \in Nat
          /\ evq'[Len(evq) + 1] = <<Ev("prepare", NoBp)>>
      BY <3>1, <1>e, AppendProperties, LenProperties DEF TypeOK, VmTypeOK
    <3>3. PrepareComing'
      <4> DEFINE n == Len(evq) + 1
      <4>1. n \in 1..Len(evq') /\ 1 \in 1..Len(evq'[n]) /\ evq'[n][1].kind = "prepare"
        BY <3>2 DEF Ev
      <4> HIDE DEF n
      <4> QED BY <4>1 DEF PrepareComing
    <3> QED BY <3>3 DEF WillBeArmed, EventComing
  <2>2. CASE BpUnit(b) \in claimed /\ BpUnit(b) \notin watched
    <3>1. CASE BpUnit(b) \in unfiltered
      BY <3>1, <1>1, <1>2, <1>9 DEF WillBeArmed
    <3>2. CASE BpUnit(b) \notin unfiltered
      <4>1. TaskWillArm(BpUnit(b))
        BY <2>2, <3>2 DEF Filters, TaskWillArm
      <4> QED BY <4>1, <1>5 DEF WillBeArmed
    <3> QED BY <3>1, <3>2
  <2>3. CASE task[b] \in {"latch", "watch"}
    <3>1. TaskWillArm(BpUnit(b))
      BY <2>3 DEF TaskWillArm, TypeOK, RequestTypeOK
    <3> QED BY <3>1, <1>5 DEF WillBeArmed
  <2>4. CASE epc \in Early
    BY <2>4, <1>2 DEF WillBeArmed, EngineWillArm
  <2> QED BY <2>1, <2>2, <2>3, <2>4 DEF WillBeWatched
<1> QED BY <1>1, <1>7, <1>8, <1>9, <1>2

\* A breakpoint left pending of a prepared unit is always on somebody's list.
LEMMA ArmedStep ==
  ASSUME TypeOK, Filters, [Next]_vars, NEW b \in pending', epc' # "ended",
         b \in pending => WillBeWatched(b) /\ WillBeArmed(b)
  PROVE  WillBeArmed(b)'
<1> USE DEF vmvars, engvars, reqvars, failvars, stepvars, flagvars, taskvars, uivars
<1>t. task \in [Bps -> TaskStates] /\ scan \in [Bps -> SUBSET Units]
      /\ b \in Bps /\ BpUnit(b)' = BpUnit(b)
  <2>1. pending' \subseteq Bps
    BY TypeStep DEF TypeOK, RequestTypeOK
  <2> QED BY <2>1 DEF TypeOK, TaskTypeOK, BpUnit
<1> DEFINE u == BpUnit(b)
<1>b. UNCHANGED u
  BY <1>t
<1> HIDE DEF u
<1>i. b \in pending /\ b \notin refused /\ u \in prepared \ missed =>
        EventComing \/ TaskWillArm(u) \/ EngineWillArm(u)
  BY DEF WillBeArmed, u
<1>o. (b \notin refused' /\ u \in (prepared \ missed)' =>
        EventComing' \/ TaskWillArm(u)' \/ EngineWillArm(u)') => WillBeArmed(b)'
  BY <1>t DEF WillBeArmed, u
\* Arming leaves it pending unless its unit was known: then it is refused.
<1>a. ASSUME NEW k, ArmPending(k)
      PROVE  /\ b \in pending /\ b \notin refused' => b \notin refused /\ u \notin k
             /\ u \notin k => (u \in missed' <=> u \in missed)
  BY <1>a DEF ArmPending, u
\* So is every one of a prepared unit when nothing could be scanned.
<1>x. ASSUME NothingScanned
      PROVE  /\ b \in pending /\ UNCHANGED missed
             /\ b \notin refused' => b \notin refused /\ u \notin prepared
  BY <1>x DEF NothingScanned, u
\* The task of a breakpoint c goes on with it, or hands it to nobody.
<1>k. ASSUME NEW c \in Bps, \A d \in Bps : d # c => task'[d] = task[d] /\ scan'[d] = scan[d],
             task[c] \in {"latch", "watch", "enable", "scan"} =>
               task'[c] \in {"latch", "watch", "enable", "scan"},
             task[c] = "arm" => u \notin scan[c]
      PROVE  TaskWillArm(u) => TaskWillArm(u)'
  BY <1>k, <1>b DEF TaskWillArm
<1>v. ASSUME UNCHANGED <<evq, evset, epc>> PROVE EventComing => EventComing'
  BY <1>v DEF EventComing, PrepareComing
<1>n. ASSUME UNCHANGED <<classes, epc>> PROVE EngineWillArm(u) => EngineWillArm(u)'
  BY <1>n, <1>b DEF EngineWillArm
<1>s. ASSUME UNCHANGED <<task, scan>> PROVE TaskWillArm(u) => TaskWillArm(u)'
  BY <1>s, <1>b DEF TaskWillArm
<1>1. CASE User
  <2>1. ASSUME NEW c \in Bps, Register(c) PROVE WillBeArmed(b)'
    <3>1. TaskWillArm(u) => TaskWillArm(u)'
      BY <2>1, <1>t, <1>k DEF Register
    <3> QED BY <2>1, <3>1, <1>i, <1>o, <1>v, <1>n, <1>b DEF Register
  <2>2. ASSUME NEW c \in Bps, Unregister(c) PROVE WillBeArmed(b)'
    BY <2>2, <1>i, <1>o, <1>v, <1>n, <1>s, <1>b DEF Unregister
  <2>3. CASE UserStep \/ UserResume \/ UserStop
    BY <2>3, <1>i, <1>o, <1>v, <1>n, <1>s, <1>b DEF UserStep, UserResume, UserStop
  <2> QED BY <1>1, <2>1, <2>2, <2>3 DEF User
<1>2. ASSUME NEW c \in Bps, AddTask(c) PROVE WillBeArmed(b)'
  <2>1. UNCHANGED <<vmvars, engvars>>
    BY <1>2 DEF AddTask, CheckMaps, Defer, AddPending, CheckLatch, ClaimFilter, EnableFilter,
                ScanClasses, ScanFails, ArmFromTask
  <2>e. (EventComing => EventComing') /\ (EngineWillArm(u) => EngineWillArm(u)')
    BY <2>1, <1>v, <1>n
  <2>2. CASE AddPending(c)
    <3>1. CASE b = c
      <4>1. TaskWillArm(u)'
        BY <2>2, <3>1, <1>t DEF AddPending, Goto, TaskWillArm
      <4> QED BY <4>1, <1>o
    <3>2. CASE b # c
      <4>1. TaskWillArm(u) => TaskWillArm(u)'
        BY <2>2, <1>t, <1>k DEF AddPending, Goto
      <4>2. b \in pending /\ UNCHANGED <<refused, missed>>
        BY <2>2, <3>2 DEF AddPending
      <4> QED BY <4>1, <4>2, <2>1, <2>e, <1>i, <1>o, <1>b
    <3> QED BY <3>1, <3>2
  <2>3. CASE CheckMaps(c) \/ Defer(c) \/ ClaimFilter(c) \/ EnableFilter(c)
    <3>1. TaskWillArm(u) => TaskWillArm(u)'
      BY <2>3, <1>t, <1>k DEF CheckMaps, Defer, ClaimFilter, EnableFilter, Goto
    <3>2. b \in pending /\ UNCHANGED <<refused, missed>>
      BY <2>3 DEF CheckMaps, Defer, ClaimFilter, EnableFilter
    <3> QED BY <3>1, <3>2, <2>1, <2>e, <1>i, <1>o, <1>b
  <2>4. CASE CheckLatch(c)
    <3>1. CASE attached
      <4>1. TaskWillArm(u) => TaskWillArm(u)'
        BY <2>4, <3>1, <1>t, <1>k DEF CheckLatch, Goto
      <4>2. b \in pending /\ UNCHANGED <<refused, missed>>
        BY <2>4 DEF CheckLatch
      <4> QED BY <4>1, <4>2, <2>1, <2>e, <1>i, <1>o, <1>b
    <3>2. CASE ~attached
      <4>1. EngineWillArm(u)'
        BY <3>2, <2>1 DEF Filters, EngineWillArm, Early
      <4> QED BY <4>1, <1>o
    <3> QED BY <3>1, <3>2
  <2>5. CASE ScanClasses(c)
    <3>1. CASE u \in prepared
      <4>1. task'[c] = "arm" /\ scan'[c] = prepared
        BY <2>5, <1>t DEF ScanClasses, Goto
      <4>2. TaskWillArm(u)'
        BY <4>1, <3>1, <1>b DEF TaskWillArm
      <4> QED BY <4>2, <1>o
    <3>2. CASE u \notin prepared
      BY <3>2, <2>1, <1>o, <1>b
    <3> QED BY <3>1, <3>2
  <2>6. CASE ArmFromTask(c)
    <3>1. b \in pending /\ ArmPending(scan[c])
      BY <2>6 DEF ArmFromTask, ArmPending
    <3>2. CASE u \notin scan[c]
      <4>1. TaskWillArm(u) => TaskWillArm(u)'
        BY <2>6, <3>2, <1>t, <1>k DEF ArmFromTask, Goto
      <4> QED BY <3>1, <3>2, <4>1, <2>1, <2>e, <1>a, <1>i, <1>o, <1>b
    <3>3. CASE u \in scan[c]
      <4>1. b \in refused'
        BY <3>1, <3>3, <1>a
      <4> QED BY <4>1, <1>o
    <3> QED BY <3>2, <3>3
  <2>7. CASE ScanFails(c)
    <3>1. NothingScanned /\ UNCHANGED prepared
      BY <2>7 DEF ScanFails
    <3> QED BY <3>1, <1>x, <1>o, <1>b
  <2> QED BY <1>2, <2>2, <2>3, <2>4, <2>5, <2>6, <2>7 DEF AddTask
<1>3. ASSUME NEW c \in Bps, RemoveTask(c) PROVE WillBeArmed(b)'
  BY <1>3, <1>i, <1>o, <1>v, <1>n, <1>s, <1>b DEF RemoveTask, RemovePending, RemoveArmed
<1>4. CASE Engine
  <2> USE DEF Step, Handled, Handling
  <2>1. CASE MapsBuilt \/ TakeDeferred \/ AddDeferred \/ Accept \/ OpenLatch \/ WatchPending
    <3>1. EngineWillArm(u)'
      BY <2>1 DEF MapsBuilt, TakeDeferred, AddDeferred, Accept, OpenLatch, WatchPending,
                  EngineWillArm, Early
    <3> QED BY <3>1, <1>o
  <2>2. CASE EngineScan
    BY <2>2, <1>o, <1>b DEF EngineScan, EngineWillArm
  <2>3. CASE EngineArm
    <3>1. b \in pending /\ ArmPending(classes) /\ UNCHANGED <<evq, prepared, task, scan>>
          /\ epc = "arm"
      BY <2>3 DEF EngineArm, ArmPending
    <3>2. u \notin classes => ~EngineWillArm(u)
      BY <3>1 DEF EngineWillArm, Early
    <3>3. EventComing => EventComing'
      BY <3>1 DEF EventComing, PrepareComing
    <3>4. CASE b \in refused'
      BY <3>4, <1>o
    <3>5. CASE b \notin refused'
      <4>1. b \notin refused /\ u \notin classes /\ (u \in missed' <=> u \in missed)
        BY <3>5, <3>1, <1>a
      <4> QED BY <4>1, <3>1, <3>2, <3>3, <1>i, <1>o, <1>s, <1>b
    <3> QED BY <3>4, <3>5
  <2>4. CASE SendGo
    <3>1. b \in pending /\ UNCHANGED <<evq, prepared, task, scan, refused, missed>> /\ epc = "go"
      BY <2>4 DEF SendGo
    <3>2. ~EngineWillArm(u)
      BY <3>1 DEF EngineWillArm, Early
    <3>3. EventComing => EventComing'
      BY <3>1 DEF EventComing, PrepareComing
    <3> QED BY <3>1, <3>2, <3>3, <1>i, <1>o, <1>s, <1>b
  <2>5. CASE TargetExits
    BY <2>5, <1>i, <1>o, <1>v, <1>n, <1>s, <1>b DEF TargetExits
  <2>6. CASE TakeSet
    <3>1. b \in pending /\ UNCHANGED <<prepared, task, scan, refused, missed>> /\ epc = "loop"
          /\ evset' = Head(evq) /\ evq' = Tail(evq) /\ epc' = "set" /\ evq # <<>>
      BY <2>6 DEF TakeSet
    <3>2. ~EngineWillArm(u)
      BY <3>1 DEF EngineWillArm, Early
    <3>3. EventComing => EventComing'
      BY <3>1, PrepareTaken DEF EventComing, PrepareComing
    <3> QED BY <3>1, <3>2, <3>3, <1>i, <1>o, <1>s, <1>b
  <2>7. CASE OnPrepare
    <3>1. ArmPending(prepared) /\ UNCHANGED prepared /\ b \in pending
      BY <2>7 DEF OnPrepare, ArmPending
    <3>2. b \notin refused' => u \notin prepared
      BY <3>1, <1>a
    <3> QED BY <3>1, <3>2, <1>o, <1>b
  <2>8. CASE OnBreakpoint \/ OnStepAgain \/ OnStepDone \/ OnDeath
    <3>1. /\ b \in pending
          /\ UNCHANGED <<evq, prepared, task, scan, epc, classes, refused, missed>>
          /\ epc = "set" /\ evset # <<>> /\ Head(evset).kind # "prepare"
          /\ evset' = Tail(evset)
      BY <2>8 DEF OnBreakpoint, OnStepAgain, OnStepDone, OnDeath
    <3>2. EventComing => EventComing'
      BY <3>1, PrepareInHand DEF EventComing, PrepareComing
    <3> QED BY <3>1, <3>2, <1>i, <1>o, <1>n, <1>s, <1>b
  <2>9. CASE EndSet
    <3>1. /\ b \in pending /\ epc = "set" /\ evset = <<>>
          /\ UNCHANGED <<evq, prepared, task, scan, refused, missed>>
      BY <2>9 DEF EndSet
    <3>2. ~EngineWillArm(u)
      BY <3>1 DEF EngineWillArm, Early
    <3>3. EventComing => EventComing'
      BY <3>1 DEF EventComing, PrepareComing
    <3> QED BY <3>1, <3>2, <3>3, <1>i, <1>o, <1>s, <1>b
  <2>10. CASE StartupFails \/ EndLoop
    BY <2>10 DEF StartupFails, EndLoop
  <2>11. CASE EngineScanFails \/ OnPrepareFails
    <3>1. NothingScanned /\ UNCHANGED prepared
      BY <2>11 DEF EngineScanFails, OnPrepareFails
    <3> QED BY <3>1, <1>x, <1>o, <1>b
  <2> QED BY <1>4, <2>1, <2>2, <2>3, <2>4, <2>5, <2>6, <2>7, <2>8, <2>9, <2>10, <2>11 DEF Engine
<1>5. CASE Vm
  <2>1. CASE Prepare
    <3>1. b \in pending /\ epc # "ended"
      BY <2>1 DEF Prepare
    <3> QED BY <2>1, <3>1, PrepareArms
  <2>2. CASE Advance \/ VmEnds
    <3>1. b \in pending /\ UNCHANGED <<prepared, engvars, taskvars, refused, missed>>
      BY <2>2 DEF Advance, VmEnds
    <3>2. evq' = evq \/ \E s \in Seq(EvRecords) : evq' = Append(evq, s)
      <4>1. <<Ev("death", NoBp)>> \in Seq(EvRecords)
        BY DEF Ev, EvRecords
      <4> QED BY <2>2, <4>1, AdvanceStep DEF VmEnds
    <3>3. PrepareComing => PrepareComing'
      BY <3>2, PrepareStays DEF PrepareComing
    <3>4. EventComing => EventComing'
      BY <3>1, <3>3 DEF EventComing
    <3> QED BY <3>1, <3>4, <1>i, <1>o, <1>n, <1>s, <1>b
  <2> QED BY <1>5, <2>1, <2>2 DEF Vm
<1>6. CASE UNCHANGED vars
  BY <1>6, <1>i, <1>o, <1>v, <1>n, <1>s, <1>b DEF vars
<1> QED BY <1>1, <1>2, <1>3, <1>4, <1>5, <1>6 DEF Next

\* Once a unit has been prepared and its event handled, no breakpoint of it is
\* left pending, unless a task is still about to arm it, it was tried and
\* refused, or the unit came unnoticed because its ClassPrepare request had
\* failed (addBreakpoint against startup, ClassPrepare events, other tasks).
THEOREM NothingLeftPendingHolds == Spec => []NothingLeftPending
<1>1. Init => PendingInv
  BY DEF Init, PendingInv, Filters
<1>2. TypeOK /\ PendingInv /\ [Next]_vars => PendingInv'
  <2> SUFFICES ASSUME TypeOK, PendingInv, [Next]_vars PROVE PendingInv' OBVIOUS
  <2>1. Filters'
    BY FiltersStep DEF PendingInv
  <2>2. epc' # "ended" => epc # "ended"
    BY DEF Next, User, Register, Unregister, UserStep, UserResume, UserStop, AddTask, CheckMaps,
           Defer, AddPending, CheckLatch, ClaimFilter, EnableFilter, ScanClasses, ScanFails,
           ArmFromTask, RemoveTask, RemovePending, RemoveArmed, Engine, MapsBuilt, TakeDeferred, AddDeferred,
           Accept, OpenLatch, WatchPending, EngineScan, EngineScanFails, EngineArm, SendGo,
           StartupFails, TargetExits, TakeSet, OnPrepare, OnPrepareFails, OnBreakpoint,
           OnStepAgain, OnStepDone, OnDeath, EndSet, EndLoop, Handling, Step, Vm, Prepare, Advance, VmEnds, engvars, vars
  <2>3. ASSUME NEW b \in pending', epc' # "ended" PROVE WillBeWatched(b)' /\ WillBeArmed(b)'
    BY <2>2, <2>3, WatchedStep, ArmedStep DEF PendingInv
  <2> QED BY <2>1, <2>3 DEF PendingInv
<1>3. PendingInv => NothingLeftPending
  BY DEF PendingInv, NothingLeftPending, WillBeArmed, EventComing, TaskWillArm, EngineWillArm,
         Arming, Early
<1> QED BY <1>1, <1>2, <1>3, TypeCorrect, PTL DEF Spec

----
(* PausedUnlessEarly. *)

LiveBatch(s) ==
  \A i \in 1..Len(s) :
    s[i].kind # "death" /\ (s[i].kind = "bp" => BpLine[s[i].bp] = vline)
DeathBatch(s) == s # <<>> /\ Head(s).kind = "death" /\ vstate = "ended"
Suspending(s) == (LiveBatch(s) /\ susp = 1) \/ DeathBatch(s)

\* One event set at a time holds the VM: the last one of the queue, unless it
\* has been released by the second resume of another; or the one in hand,
\* unless it has been resumed; or the one shown, unless it had been.
NothingHeldYet ==
  epc \notin {"loop", "set"} =>
    /\ evq = <<>> /\ susp = 0 /\ released = 0
    /\ ui = "running" /\ vstate \notin {"running", "ended"}
QueueHolds ==
  released < Len(evq) => released + 1 = Len(evq) /\ Suspending(evq[Len(evq)])
HandHolds == epc = "set" /\ ~resumed => evq = <<>> /\ Suspending(evset)
UserHolds ==
  ui = "paused" /\ ~early =>
    /\ susp = 1 /\ currentSet /\ vline = shown /\ evq = <<>>
    /\ epc = "set" => forUi /\ ~resumed /\ ~activeStep.active

OneHolder ==
  /\ susp \in {0, 1} /\ released <= Len(evq)
  /\ NothingHeldYet /\ QueueHolds /\ HandHolds /\ UserHolds

PauseInv == ~stopped => OneHolder

\* A session that has stopped stays so.
LEMMA StoppedStays == TypeOK /\ [Next]_vars /\ ~stopped' => ~stopped
<1> SUFFICES ASSUME TypeOK, [Next]_vars, ~stopped' PROVE ~stopped OBVIOUS
<1> USE DEF flagvars
<1>b. stopped \in BOOLEAN
  BY DEF TypeOK, FlagTypeOK
<1>1. CASE User
  BY <1>1, <1>b DEF User, Register, Unregister, UserStep, UserResume, UserStop
<1>2. ASSUME NEW b \in Bps, AddTask(b) \/ RemoveTask(b) PROVE ~stopped
  BY <1>2, <1>b DEF AddTask, CheckMaps, Defer, AddPending, CheckLatch, ClaimFilter, EnableFilter,
        ScanClasses, ScanFails, ArmFromTask, RemoveTask, RemovePending, RemoveArmed
<1>3. CASE Engine
  BY <1>3, <1>b DEF Engine, MapsBuilt, TakeDeferred, AddDeferred, Accept, OpenLatch, WatchPending,
        EngineScan, EngineScanFails, EngineArm, SendGo, StartupFails, TargetExits, TakeSet,
        OnPrepare, OnPrepareFails, OnBreakpoint, OnStepAgain, OnStepDone, OnDeath, EndSet, EndLoop
<1>4. CASE Vm \/ UNCHANGED vars
  BY <1>4, <1>b DEF Vm, Prepare, Advance, VmEnds, vars
<1> QED BY <1>1, <1>2, <1>3, <1>4 DEF Next

\* Steps of the tasks and of startup do not touch what holds the VM.
LEMMA HolderFrame ==
  ASSUME OneHolder,
         UNCHANGED <<vstate, susp, vline, evq, evset, forUi, stepvars, ui, shown>>,
         epc' = epc \/ {epc, epc'} \cap {"loop", "set"} = {}
  PROVE  OneHolder'
BY DEF OneHolder, NothingHeldYet, QueueHolds, HandHolds, UserHolds, Suspending, LiveBatch,
       DeathBatch, stepvars

\* Only the VM adds event sets, when nothing holds it, and one at a time.
LEMMA HolderVm ==
  ASSUME TypeOK, OneHolder, Vm
  PROVE  OneHolder'
<1> USE DEF vmvars, engvars, reqvars, failvars, stepvars, flagvars, taskvars, uivars
<1>t. /\ evq \in Seq(Seq(EvRecords)) /\ Len(evq) \in Nat /\ released \in Nat
      /\ resumed \in BOOLEAN /\ early \in BOOLEAN
  BY LenProperties DEF TypeOK, VmTypeOK, FlagTypeOK
<1>1. susp = 0 /\ vstate = "running" /\ \A s : ~Suspending(s)
  BY DEF Vm, Prepare, Advance, VmEnds, VmRuns, Suspending, DeathBatch
<1>2. /\ epc \in {"loop", "set"} /\ released = Len(evq)
      /\ epc = "set" => resumed
      /\ ui = "paused" => early
  BY <1>1, <1>t DEF OneHolder, NothingHeldYet, QueueHolds, HandHolds, UserHolds
<1>3. UNCHANGED <<epc, evset, forUi, stepvars, ui, shown>>
  BY DEF Vm, Prepare, Advance, VmEnds
<1>4. NothingHeldYet' /\ HandHolds' /\ UserHolds'
  BY <1>2, <1>3 DEF NothingHeldYet, HandHolds, UserHolds
<1>n. ASSUME evq' = evq, susp' = 0 PROVE OneHolder'
  BY <1>n, <1>2, <1>3, <1>4, <1>t DEF OneHolder, QueueHolds
<1>q. ASSUME NEW s \in Seq(EvRecords), evq' = Append(evq, s), Suspending(s)', susp' \in {0, 1}
      PROVE  OneHolder'
  <2>1. Len(evq') = released' + 1 /\ evq'[Len(evq')] = s
    BY <1>q, <1>t, <1>2, <1>3, AppendProperties
  <2>2. Suspending(evq[Len(evq)])'
    BY <2>1, <1>q DEF Suspending, LiveBatch, DeathBatch
  <2> QED BY <2>1, <2>2, <1>q, <1>4, <1>t, <1>3 DEF OneHolder, QueueHolds
<1>e. <<Ev("prepare", NoBp)>> \in Seq(EvRecords) /\ <<Ev("death", NoBp)>> \in Seq(EvRecords)
  BY DEF Ev, EvRecords
<1>5. CASE Prepare
  <2>1. CASE evq' = evq /\ susp' = susp
    BY <2>1, <1>1, <1>n
  <2>2. CASE evq' = Append(evq, <<Ev("prepare", NoBp)>>) /\ susp' = susp + 1
    <3>1. Suspending(<<Ev("prepare", NoBp)>>)' /\ susp' = 1
      BY <2>2, <1>1 DEF Suspending, LiveBatch, Ev
    <3> QED BY <2>2, <3>1, <1>e, <1>q
  <2> QED BY <1>5, <2>1, <2>2 DEF Prepare
<1>6. CASE Advance
  <2>1. CASE evq' = evq /\ susp' = susp
    BY <2>1, <1>1, <1>n
  <2>2. ASSUME susp' = susp + 1, NEW s \in Seq(EvRecords), evq' = Append(evq, s),
               \A i \in 1..Len(s) : s[i].kind = "step" \/ (s[i].kind = "bp" /\ BpLine[s[i].bp] = vline')
        PROVE  OneHolder'
    <3>1. Suspending(s)' /\ susp' = 1
      BY <2>2, <1>1 DEF Suspending, LiveBatch
    <3> QED BY <2>2, <3>1, <1>q
  <2> QED BY <1>6, <2>1, <2>2, AdvanceStep
<1>7. CASE VmEnds
  <2>1. evq' = Append(evq, <<Ev("death", NoBp)>>) /\ susp' = 0 /\ vstate' = "ended"
    BY <1>7, <1>1 DEF VmEnds
  <2>2. Suspending(<<Ev("death", NoBp)>>)'
    BY <2>1 DEF Suspending, DeathBatch, Ev
  <2> QED BY <2>1, <2>2, <1>e, <1>q
<1> QED BY <1>5, <1>6, <1>7 DEF Vm

\* The engine takes a set, handles its events one after another, and resumes
\* it at the end unless it went to the user; a hop has resumed it before.
LEMMA HolderLoop ==
  ASSUME TypeOK, OneHolder, ~stopped', ~stopped,
         \/ TakeSet \/ OnPrepare \/ OnPrepareFails \/ OnBreakpoint
         \/ OnStepAgain \/ OnStepDone \/ OnDeath \/ EndSet
  PROVE  OneHolder'
<1> USE DEF vmvars, engvars, reqvars, failvars, stepvars, flagvars, taskvars, uivars, Handled,
            Handling
<1>t. /\ evset \in Seq(EvRecords) /\ evq \in Seq(Seq(EvRecords)) /\ Len(evq) \in Nat
      /\ forUi \in BOOLEAN /\ ui \in {"running", "paused"} /\ released \in Nat
      /\ resumed \in BOOLEAN /\ early \in BOOLEAN
  BY LenProperties DEF TypeOK, EngineTypeOK, VmTypeOK, UserTypeOK, FlagTypeOK
\* An event of a set that holds the VM: it is live, and so is the rest of it.
<1>h. ASSUME evset # <<>>, epc = "set", Head(evset).kind # "death", ~resumed,
             UNCHANGED <<vline, vstate, susp>>, evset' = Tail(evset)
      PROVE  /\ evq = <<>> /\ susp = 1 /\ Suspending(evset)'
             /\ Head(evset).kind = "bp" => BpLine[Head(evset).bp] = vline
  <2>1. LiveBatch(evset) /\ evq = <<>> /\ susp = 1
    BY <1>h, <1>t DEF OneHolder, HandHolds, Suspending, DeathBatch
  <2>2. Head(evset) = evset[1] /\ 1 \in 1..Len(evset)
    BY <1>h, <1>t
  <2>3. LiveBatch(evset)'
    BY <2>1, <1>h, <1>t, HeadTailProperties DEF LiveBatch
  <2> QED BY <2>1, <2>2, <2>3, <1>h DEF LiveBatch, Suspending
\* The queue holds what it held while neither it nor the VM moves.
<1>q. ASSUME UNCHANGED <<vline, vstate, susp, evq, released>>
      PROVE  QueueHolds' /\ susp' \in {0, 1} /\ released' <= Len(evq')
  BY <1>q DEF OneHolder, QueueHolds, Suspending, LiveBatch, DeathBatch
\* Something surfaces: the user has the VM, if the set still held it.
<1>s. ASSUME evset # <<>>, epc = "set", Head(evset).kind # "death", evset' = Tail(evset),
             UNCHANGED <<vline, vstate, susp, evq, released, resumed, epc>>,
             forUi' = TRUE, ui' = "paused", ~resumed => shown' = vline, currentSet' = TRUE,
             activeStep' = NoStep, early' = resumed
      PROVE  OneHolder'
  <2>1. NothingHeldYet'
    BY <1>s DEF NothingHeldYet
  <2>2. HandHolds'
    BY <1>s, <1>h DEF HandHolds
  <2>3. UserHolds'
    BY <1>s, <1>h DEF UserHolds, NoStep
  <2> QED BY <2>1, <2>2, <2>3, <1>s, <1>q DEF OneHolder
<1>1. CASE TakeSet
  <2>1. /\ evset' = Head(evq) /\ evq' = Tail(evq) /\ epc' = "set" /\ evq # <<>> /\ epc = "loop"
        /\ resumed' = (released > 0) /\ released' = Lower(released)
        /\ UNCHANGED <<vstate, susp, vline, ui, early>>
    BY <1>1 DEF TakeSet, Step
  <2>2. NothingHeldYet' /\ UserHolds'
    BY <2>1, <1>t DEF OneHolder, NothingHeldYet, UserHolds
  <2>3. Len(evq') = Len(evq) - 1 /\ \A i \in 1..Len(evq') : evq'[i] = evq[i + 1]
    BY <2>1, <1>t, HeadTailProperties
  <2>4. Len(evq) > 0
    BY <2>1, <1>t
  <2>5. CASE released = 0
    <3>q. released + 1 = Len(evq) /\ Suspending(evq[Len(evq)])
      <4>1. released < Len(evq)
        BY <2>4, <2>5
      <4> QED BY <4>1 DEF OneHolder, QueueHolds
    <3>l. Len(evq) = 1
      BY <3>q, <2>5
    <3>1. Len(evq) = 1 /\ Suspending(evq[1])
      BY <3>q, <3>l
    <3>2. evq' = <<>> /\ Head(evq) = evq[1] /\ released' = 0
      BY <3>1, <2>1, <2>5, <1>t DEF Lower
    <3>3. Suspending(evset)'
      BY <3>1, <3>2, <2>1 DEF Suspending, LiveBatch, DeathBatch
    <3>4. susp' \in {0, 1}
      BY <2>1 DEF OneHolder
    <3> QED BY <3>2, <3>3, <3>4, <2>2 DEF OneHolder, QueueHolds, HandHolds
  <2>6. CASE released > 0
    <3>e. released # 0
      BY <2>6
    <3>1. released' = released - 1 /\ resumed'
      BY <3>e, <2>6, <2>1 DEF Lower
    <3>2. released' < Len(evq') => released' + 1 = Len(evq') /\ Suspending(evq[Len(evq)])
      BY <3>1, <2>3, <1>t DEF OneHolder, QueueHolds
    <3>3. released' + 1 = Len(evq') => evq'[Len(evq')] = evq[Len(evq)]
      BY <3>1, <2>6, <2>3, <1>t
    <3>4. QueueHolds'
      BY <3>2, <3>3, <2>1 DEF QueueHolds, Suspending, LiveBatch, DeathBatch
    <3>5. susp' \in {0, 1} /\ released' <= Len(evq')
      BY <3>1, <2>1, <2>3, <1>t DEF OneHolder
    <3> QED BY <3>1, <3>4, <3>5, <2>2 DEF OneHolder, HandHolds
  <2> QED BY <1>t, <2>5, <2>6
<1>2. CASE OnPrepare \/ OnPrepareFails
  <2>1. /\ evset # <<>> /\ epc = "set" /\ Head(evset).kind # "death"
        /\ evset' = Tail(evset) /\ UNCHANGED <<vmvars, epc, forUi, ui, shown, stepvars>>
    BY <1>2 DEF OnPrepare, OnPrepareFails
  <2>2. HandHolds'
    BY <2>1, <1>h DEF HandHolds
  <2>3. NothingHeldYet' /\ UserHolds'
    BY <2>1 DEF OneHolder, NothingHeldYet, UserHolds
  <2> QED BY <2>1, <2>2, <2>3, <1>q DEF OneHolder
<1>3. CASE OnBreakpoint
  <2>1. /\ evset # <<>> /\ epc = "set" /\ Head(evset).kind = "bp"
        /\ evset' = Tail(evset) /\ UNCHANGED <<vmvars, epc, resumed, released>> /\ forUi' = TRUE
        /\ ui' = "paused" /\ shown' = BpLine[Head(evset).bp] /\ currentSet' = TRUE
        /\ activeStep' = NoStep /\ early' = resumed
    BY <1>3 DEF OnBreakpoint
  <2>2. ~resumed => shown' = vline
    BY <2>1, <1>h
  <2> QED BY <2>1, <2>2, <1>s
<1>4. CASE OnStepAgain
  <2>1. /\ epc = "set" /\ activeStep.active /\ susp' = Lower(susp) /\ resumed'
        /\ released' = (IF resumed THEN Len(evq) ELSE released)
        /\ UNCHANGED <<vline, vstate, evq, epc, ui, early>>
    BY <1>4 DEF OnStepAgain, StaysOnLine, ResumeSet, ResumeVm
  <2>2. released' = Len(evq')
    BY <2>1, <1>t DEF OneHolder, HandHolds
  <2>3. susp' \in {0, 1}
    BY <2>1 DEF OneHolder, Lower
  <2>4. NothingHeldYet' /\ HandHolds' /\ UserHolds'
    BY <2>1 DEF OneHolder, NothingHeldYet, HandHolds, UserHolds
  <2> QED BY <2>1, <2>2, <2>3, <2>4, <1>t DEF OneHolder, QueueHolds
<1>5. CASE OnStepDone
  <2>1. /\ evset # <<>> /\ epc = "set" /\ Head(evset).kind # "death" /\ evset' = Tail(evset)
        /\ UNCHANGED <<vstate, susp, vline, evq, epc, resumed, released>> /\ forUi' = TRUE
        /\ ui' = "paused" /\ shown' = vline /\ currentSet' = TRUE
        /\ activeStep' = NoStep /\ early' = resumed
    BY <1>5 DEF OnStepDone
  <2> QED BY <2>1, <1>s
<1>6. CASE OnDeath
  BY <1>6 DEF OnDeath
<1>7. CASE EndSet
  <2>1. /\ evset = <<>> /\ epc = "set" /\ epc' = "loop"
        /\ UNCHANGED <<vstate, vline, evq, evset, forUi, ui, shown, currentSet, resumed, early>>
    BY <1>7 DEF EndSet, Step
  <2>2. NothingHeldYet' /\ HandHolds'
    BY <2>1 DEF NothingHeldYet, HandHolds
  <2>3. CASE forUi
    <3>1. UNCHANGED <<susp, released>>
      BY <1>7, <2>3 DEF EndSet
    <3>2. UserHolds'
      BY <2>1, <3>1 DEF OneHolder, UserHolds
    <3> QED BY <2>1, <2>2, <3>1, <3>2, <1>q DEF OneHolder
  <2>4. CASE ~forUi
    <3>1. /\ susp' = Lower(susp)
          /\ released' = (IF resumed THEN Len(evq) ELSE released)
      BY <1>7, <2>4 DEF EndSet, ResumeSet, ResumeVm
    <3>2. released' = Len(evq')
      BY <2>1, <3>1, <1>t DEF OneHolder, HandHolds
    <3>3. susp' \in {0, 1}
      BY <3>1 DEF OneHolder, Lower
    <3>4. UserHolds'
      BY <2>1, <2>4 DEF OneHolder, UserHolds
    <3> QED BY <2>1, <2>2, <3>2, <3>3, <3>4, <1>t DEF OneHolder, QueueHolds
  <2> QED BY <1>t, <2>3, <2>4
<1> QED BY <1>1, <1>2, <1>3, <1>4, <1>5, <1>6, <1>7

\* The user lets go: of the set shown, or of what was queued since it was resumed.
LEMMA HolderUser ==
  ASSUME TypeOK, OneHolder, UserStep \/ UserResume
  PROVE  OneHolder'
<1> USE DEF vmvars, engvars, reqvars, failvars, stepvars, flagvars, taskvars, uivars
<1>t. /\ Len(evq) \in Nat /\ released \in Nat /\ early \in BOOLEAN /\ resumed \in BOOLEAN
      /\ currentSet \in BOOLEAN
  BY LenProperties DEF TypeOK, VmTypeOK, FlagTypeOK
<1>1. /\ ui = "paused" /\ ui' = "running" /\ ResumeTarget
      /\ UNCHANGED <<epc, evq, evset, forUi, vstate, vline>>
  BY DEF UserStep, UserResume, UserGoes
<1>2. NothingHeldYet' /\ UserHolds' /\ epc \in {"loop", "set"}
  BY <1>1 DEF OneHolder, NothingHeldYet, UserHolds
<1>3. CASE currentSet
  <2>1. /\ susp' = Lower(susp) /\ resumed' = (resumed \/ epc = "set")
        /\ released' = IF early THEN Len(evq) ELSE released
    BY <1>1, <1>3 DEF ResumeTarget, ResumeVm
  <2>2. released' = Len(evq')
    BY <2>1, <1>1, <1>t DEF OneHolder, UserHolds
  <2>3. susp' \in {0, 1}
    BY <2>1 DEF OneHolder, Lower
  <2>4. HandHolds'
    BY <2>1, <1>1 DEF HandHolds
  <2> QED BY <2>2, <2>3, <2>4, <1>1, <1>2, <1>t DEF OneHolder, QueueHolds
<1>4. CASE ~currentSet
  <2>1. UNCHANGED <<susp, resumed, released>>
    BY <1>1, <1>4 DEF ResumeTarget
  <2>2. HandHolds' /\ QueueHolds'
    BY <2>1, <1>1 DEF OneHolder, HandHolds, QueueHolds, Suspending, LiveBatch, DeathBatch
  <2>3. susp' \in {0, 1} /\ released' <= Len(evq')
    BY <2>1, <1>1 DEF OneHolder
  <2> QED BY <2>2, <2>3, <1>2 DEF OneHolder
<1> QED BY <1>3, <1>4, <1>t

\* Every step keeps the VM in one hand.
LEMMA HolderStep ==
  ASSUME TypeOK, OneHolder, [Next]_vars, ~stopped, ~stopped'
  PROVE  OneHolder'
<1> USE DEF vmvars, engvars, reqvars, failvars, flagvars, taskvars, uivars
<1>1. CASE User
  <2>1. ASSUME NEW b \in Bps, Register(b) \/ Unregister(b) PROVE OneHolder'
    BY <2>1, HolderFrame DEF Register, Unregister
  <2>2. CASE UserStep \/ UserResume
    BY <2>2, HolderUser
  <2>3. CASE UserStop
    BY <2>3 DEF UserStop
  <2> QED BY <1>1, <2>1, <2>2, <2>3 DEF User
<1>2. ASSUME NEW b \in Bps, AddTask(b) \/ RemoveTask(b) PROVE OneHolder'
  BY <1>2, HolderFrame DEF AddTask, CheckMaps, Defer, AddPending, CheckLatch, ClaimFilter,
        EnableFilter, ScanClasses, ScanFails, ArmFromTask, RemoveTask, RemovePending, RemoveArmed
<1>3. CASE Engine
  <2> USE DEF Step
  <2>1. CASE MapsBuilt \/ TakeDeferred \/ AddDeferred \/ OpenLatch \/ WatchPending
    BY <2>1, HolderFrame DEF MapsBuilt, TakeDeferred, AddDeferred, OpenLatch, WatchPending
  <2>2. CASE EngineScan \/ EngineScanFails \/ EngineArm
    BY <2>2, HolderFrame DEF EngineScan, EngineScanFails, EngineArm
  <2>3. CASE Accept
    <3>1. /\ epc = "redo" /\ epc' = "latch" /\ vstate' = "held"
          /\ UNCHANGED <<susp, evq, ui, stepvars>>
      BY <2>3 DEF Accept
    <3> QED BY <3>1 DEF OneHolder, NothingHeldYet, QueueHolds, HandHolds, UserHolds, stepvars
  <2>4. CASE SendGo
    <3>1. evq = <<>> /\ susp = 0 /\ ui = "running" /\ released = 0
      BY <2>4 DEF SendGo, OneHolder, NothingHeldYet
    <3>2. evq' = <<>> /\ susp' = 0 /\ ui' = "running" /\ epc' = "loop" /\ released' = 0
      BY <2>4, <3>1 DEF SendGo, stepvars
    <3> QED BY <3>2 DEF OneHolder, NothingHeldYet, QueueHolds, HandHolds, UserHolds
  <2>5. CASE StartupFails \/ TargetExits \/ EndLoop
    BY <2>5 DEF StartupFails, TargetExits, EndLoop
  <2>6. CASE \/ TakeSet \/ OnPrepare \/ OnPrepareFails \/ OnBreakpoint
             \/ OnStepAgain \/ OnStepDone \/ OnDeath \/ EndSet
    BY <2>6, HolderLoop
  <2> QED BY <1>3, <2>1, <2>2, <2>3, <2>4, <2>5, <2>6 DEF Engine
<1>4. CASE Vm
  BY <1>4, HolderVm
<1>5. CASE UNCHANGED vars
  BY <1>5, HolderFrame DEF vars
<1> QED BY <1>1, <1>2, <1>3, <1>4, <1>5 DEF Next

\* A session shown as paused at a line is a VM suspended there, unless the very
\* set shown had been resumed when it surfaced, however often others have been
\* before (suspendForUi, resumeTarget; OnStepAgain followed by EndSet).
THEOREM PausedUnlessEarlyHolds == Spec => []PausedUnlessEarly
<1>1. Init => PauseInv
  BY DEF Init, PauseInv, OneHolder, NothingHeldYet, QueueHolds, HandHolds, UserHolds
<1>2. TypeOK /\ PauseInv /\ [Next]_vars => PauseInv'
  BY StoppedStays, HolderStep DEF PauseInv
<1>3. PauseInv => PausedUnlessEarly
  BY DEF PauseInv, OneHolder, UserHolds, PausedUnlessEarly
<1> QED BY <1>1, <1>2, <1>3, TypeCorrect, PTL DEF Spec
====
