--------------------------- MODULE Deploy_proofs ---------------------------
(* What the proof system checks about Deploy, for every project, every      *)
(* number of edits and every number of faults.                              *)
EXTENDS Deploy, TLAPS, WellFoundedInduction

---------------------------------------------------------------------------
(* The order of the files.                                                  *)

LEMMA RankOfModule ==
  ASSUME NEW m \in Modules
  PROVE  Rank(m) \in DOMAIN Order /\ Rank(m) \in Nat \ {0} /\ Order[Rank(m)] = m
<1>1. m # Runtime
  BY NamesAssumption
<1>2. PICK i \in DOMAIN Order : Order[i] = m
  BY DEF Modules
<1>3. Rank(m) = CHOOSE j \in DOMAIN Order : Order[j] = m
  BY <1>1 DEF Rank
<1>4. Rank(m) \in DOMAIN Order /\ Order[Rank(m)] = m
  BY <1>2, <1>3
<1>5. QED
  BY <1>4, OrderAssumption

LEMMA RankOfPackage ==
  ASSUME NEW p \in Packages
  PROVE  Rank(p) \in Nat /\ (Rank(p) = 0 <=> p = Runtime)
BY RankOfModule DEF Packages, Rank

LEMMA RankIsInjective ==
  ASSUME NEW p \in Packages, NEW q \in Packages, Rank(p) = Rank(q)
  PROVE  p = q
BY RankOfModule, RankOfPackage DEF Packages

\* The next file is one of those left, and the first of them.
LEMMA FirstIsFirst ==
  ASSUME NEW files, files \subseteq Packages, files # {}
  PROVE  First(files) \in files /\ \A q \in files \ {First(files)} : Rank(First(files)) < Rank(q)
<1> DEFINE ranks == {Rank(q) : q \in files}
<1>1. ranks \subseteq Nat /\ ranks # {}
  BY RankOfPackage
<1>2. PICK r \in ranks : \A y \in ranks : <<y, r>> \notin OpToRel(<, Nat)
  BY <1>1, WFMin, NatLessThanWellFounded
<1>3. PICK p \in files : Rank(p) = r
  OBVIOUS
<1>4. \A q \in files : Rank(p) <= Rank(q)
  <2> SUFFICES ASSUME NEW q \in files PROVE Rank(p) <= Rank(q)
    OBVIOUS
  <2>1. Rank(q) \in Nat /\ r \in Nat /\ ~(Rank(q) < r)
    BY <1>1, <1>2 DEF OpToRel
  <2>2. QED
    BY <1>3, <2>1
<1>5. First(files) \in files /\ \A q \in files : Rank(First(files)) <= Rank(q)
  BY <1>4 DEF First
<1>6. QED
  BY <1>5, RankIsInjective, RankOfPackage

\* A module installed before another one of the run comes before it in the project.
LEMMA AfterFromRank ==
  ASSUME NEW m \in Modules, NEW n \in Modules, Rank(m) < Rank(n)
  PROVE  After(m, n)
BY RankOfModule DEF After

---------------------------------------------------------------------------
(* Nothing is installed before everything is built.                         *)

Installing == {"install", "body"}
Built(m) == m \in built \/ \E v \in Versions : Text[m][v].stub

\* What is asked for is still to build, built, or a failure; past the build it is built.
BuildInv ==
  /\ ver \in [Modules -> Versions] /\ built \subseteq asked
  /\ asked \subseteq scope /\ scope \subseteq Modules
  /\ pc = "build" => rest \subseteq asked
  /\ (pc = "build" /\ ~failures) => \A m \in asked : m \in rest \/ Built(m)
  /\ pc \in {"runtime", "connect"} \cup Installing => \A m \in asked : Built(m)

\* What is deployed is in the directory it is deployed from.
LEMMA TargetsFit ==
  ASSUME NEW target \in Targets
  PROVE  target[1] \subseteq target[2] /\ target[2] \subseteq Modules
BY DirectoryAssumption DEF Targets

LEMMA BuildInit == Init => BuildInv
BY VersionAssumption DEF Init, BuildInv, Installing, Versions

LEMMA BuildStep == BuildInv /\ [Next]_vars => BuildInv'
<1> SUFFICES ASSUME BuildInv, [Next]_vars PROVE BuildInv'
  OBVIOUS
<1> USE DEF BuildInv, Built, Installing
<1>1. CASE UNCHANGED vars
  BY <1>1 DEF vars, sources, db, run
<1>2. CASE BuildFails
  BY <1>2 DEF BuildFails, Return, sources, run
<1>3. CASE SkipStub
  <2>1. Current(First(rest)).stub /\ rest' = rest \ {First(rest)}
        /\ UNCHANGED <<ver, pc, asked, scope, built, failures>>
    BY <1>3 DEF SkipStub, sources, run
  <2>2. ASSUME NEW m \in asked, m = First(rest) PROVE Built(m)'
    BY <2>1, <2>2 DEF Current
  <2>3. QED
    BY <2>1, <2>2
<1>4. CASE BuildFile
  <2>1. First(rest) \in asked
    BY <1>4, FirstIsFirst DEF BuildFile, Packages
  <2>2. QED
    BY <1>4, <2>1 DEF BuildFile, sources, run
<1>5. CASE EndBuild
  BY <1>5 DEF EndBuild, Return, sources, run
<1>6. CASE GenerateRuntime
  BY <1>6 DEF GenerateRuntime, sources, run
<1>7. CASE Connect \/ ConnectFails
  BY <1>7 DEF Connect, ConnectFails, Return, sources, run
<1>8. CASE InstallSpec \/ InstallBody \/ StatementFails
  <2>1. pc \in Installing /\ UNCHANGED <<ver, asked, scope, built>> /\ pc' \in {"idle"} \cup Installing
    BY <1>8 DEF InstallSpec, InstallBody, StatementFails, FileFails, Return, sources, run
  <2>2. QED
    BY <2>1
<1>9. CASE Finish \/ Killed
  BY <1>9 DEF Finish, Killed, Return, sources, run
<1>10. ASSUME NEW m \in Modules, NEW v \in Versions, Edit(m, v) PROVE BuildInv'
  BY <1>10 DEF Edit, run
<1>11. ASSUME NEW k \in BOOLEAN, NEW target \in Targets, Start(target, k) PROVE BuildInv'
  BY <1>11, TargetsFit DEF Start, sources
<1>12. QED
  BY <1>1, <1>2, <1>3, <1>4, <1>5, <1>6, <1>7, <1>8, <1>9, <1>10, <1>11 DEF Next, Step, Fault

\* The database changes only in a run that built every module asked for.
THEOREM InstallsBuilt == Spec => BuildsFirst
<1>1. BuildInv /\ [Next]_vars
      => [db' # db => \A m \in asked : m \in built \/ \E v \in Versions : Text[m][v].stub]_vars
  <2> SUFFICES ASSUME BuildInv, Next, db' # db
               PROVE  \A m \in asked : Built(m)
    BY DEF Built
  <2>1. InstallSpec \/ InstallBody
    BY DEF Next, Step, Fault, BuildFails, SkipStub, BuildFile, EndBuild, GenerateRuntime, Connect,
           Finish, ConnectFails, StatementFails, Killed, Edit, Start
  <2>2. pc \in Installing
    BY <2>1 DEF InstallSpec, InstallBody, Installing
  <2>3. QED
    BY <2>2 DEF BuildInv
<1>2. QED
  BY <1>1, BuildInit, BuildStep, PTL DEF Spec, BuildsFirst

---------------------------------------------------------------------------
(* A run that returns 0 leaves what it installed working.                   *)

Holds(m) == spec[m] = out[m] /\ body[m] = out[m] /\ (UsesLater(m) \/ Works(m))

\* What is no longer to install is in place, and comes before what is.
InstallInv ==
  /\ BuildInv
  /\ DOMAIN out = Packages /\ DOMAIN spec = Packages /\ DOMAIN body = Packages
  /\ \A m \in built : out[m] # None
  /\ exit = 0 => pc = "idle" /\ \A m \in built : Holds(m)
  /\ pc \in Installing =>
       /\ rest \subseteq built \cup {Runtime}
       /\ \A m \in built \ rest, p \in rest : Rank(m) < Rank(p)
       /\ ~failures => \A m \in built \ rest : Holds(m)
  /\ pc = "body" => /\ rest # {}
                    /\ spec[First(rest)] = out[First(rest)]
                    /\ SpecCompiles(First(rest), spec)

\* Replacing the spec of a later package leaves a package alone, or is one it uses.
LEMMA SpecReplaced ==
  ASSUME NEW m \in Modules, NEW p \in Packages, NEW t,
         m \in built, p \in built \cup {Runtime}, Rank(m) < Rank(p), Holds(m), out[m] # None,
         spec' = [spec EXCEPT ![p] = t], UNCHANGED <<body, out, built>>
  PROVE  Holds(m)'
<1>1. p \in Modules /\ p \in built
  BY RankOfModule, RankOfPackage, NamesAssumption DEF Packages
<1>2. After(m, p) /\ m # p
  BY <1>1, AfterFromRank, RankOfModule
<1>3. spec'[m] = spec[m]
  BY <1>2
<1>4. UsesLater(m)' <=> UsesLater(m)
  BY DEF UsesLater
<1>5. CASE UsesLater(m)
  BY <1>3, <1>4, <1>5 DEF Holds
<1>6. CASE ~UsesLater(m)
  <2>1. \A n \in Needs(out[m]) : n[1] # p
    BY <1>1, <1>2, <1>6 DEF UsesLater
  <2>2. \A n \in Needs(out[m]) : spec'[n[1]] = spec[n[1]]
    BY <2>1
  <2>3. spec[m] = out[m] /\ body[m] = out[m] /\ Works(m)
    BY <1>6 DEF Holds
  <2>4. Met(out[m].specNeeds, spec') /\ Met(out[m].bodyNeeds, spec')
    BY <2>2, <2>3 DEF Works, WorksIn, BodyCompiles, SpecCompiles, Met, Needs
  <2>5. Works(m)'
    BY <1>3, <2>3, <2>4 DEF Works, WorksIn, BodyCompiles, SpecCompiles
  <2>6. QED
    BY <1>3, <2>3, <2>5 DEF Holds
<1>7. QED
  BY <1>5, <1>6

\* What was installed stays so while nothing of it changes.
LEMMA HoldsStays ==
  ASSUME NEW m, Holds(m), body'[m] = body[m], UNCHANGED <<spec, out, built>>
  PROVE  Holds(m)'
BY DEF Holds, UsesLater, Works, WorksIn, BodyCompiles, SpecCompiles, Met

LEMMA RestShrinks ==
  ASSUME InstallInv, pc \in Installing, rest # {}
  PROVE  /\ First(rest) \in rest /\ First(rest) \in Packages
         /\ \A m \in built \ (rest \ {First(rest)}), p \in rest \ {First(rest)} : Rank(m) < Rank(p)
<1>1. rest \subseteq Packages
  BY DEF InstallInv, BuildInv, Packages
<1>2. QED
  BY <1>1, FirstIsFirst DEF InstallInv

LEMMA InstallInit == Init => InstallInv
BY BuildInit, NamesAssumption DEF Init, InstallInv, Installing

\* Steps that install nothing.
LEMMA QuietStep ==
  ASSUME InstallInv, BuildInv', pc' \notin Installing \/ (pc \in Installing /\ UNCHANGED <<pc, rest, failures>>),
         UNCHANGED <<spec, body, out, built>>,
         exit' = 0 => pc' = "idle" /\ (exit = 0 \/ \A m \in built : Holds(m))
  PROVE  InstallInv'
<1>1. \A m : Holds(m) => Holds(m)'
  <2> SUFFICES ASSUME NEW m, Holds(m) PROVE Holds(m)'
    OBVIOUS
  <2>1. QED
    BY HoldsStays
<1>2. ASSUME pc \in Installing, UNCHANGED <<pc, rest, failures>> PROVE InstallInv'
  <2>1. pc = "body" => SpecCompiles(First(rest), spec)'
    BY <1>2 DEF InstallInv, SpecCompiles, Met
  <2>2. QED
    BY <1>1, <1>2, <2>1 DEF InstallInv
<1>3. ASSUME pc' \notin Installing PROVE InstallInv'
  BY <1>1, <1>3 DEF InstallInv, Installing
<1>4. QED
  BY <1>2, <1>3

\* A failing file: on to the next one, or back to the prompt.
LEMMA FailingFile ==
  ASSUME InstallInv, BuildInv', pc \in Installing, rest # {}, FileFails,
         UNCHANGED <<out, built>>, DOMAIN spec' = Packages, DOMAIN body' = Packages
  PROVE  InstallInv'
<1>1. failures' /\ exit' # 0
  BY DEF FileFails, Return, InstallInv, Installing
<1>2. pc' \in Installing => pc' = "install" /\ rest' = rest \ {First(rest)}
  BY DEF FileFails, Return, Installing
<1>3. \A m \in built : out'[m] # None
  BY DEF InstallInv
<1>4. pc' # "body"
  BY <1>2 DEF Installing
<1>5. ASSUME pc' \in Installing
      PROVE  /\ rest' \subseteq built \cup {Runtime}
             /\ \A m \in built \ rest', p \in rest' : Rank(m) < Rank(p)
  <2>1. rest' = rest \ {First(rest)}
    BY <1>2, <1>5
  <2>2. QED
    BY <2>1, RestShrinks DEF InstallInv
<1>6. QED
  BY <1>1, <1>3, <1>4, <1>5 DEF InstallInv

LEMMA InstallStep == InstallInv /\ [Next]_vars => InstallInv'
<1> SUFFICES ASSUME InstallInv, [Next]_vars PROVE InstallInv'
  OBVIOUS
<1>0. BuildInv'
  BY BuildStep DEF InstallInv
<1>1. CASE UNCHANGED vars
  <2>1. UNCHANGED <<spec, body, out, built, pc, rest, failures, exit>>
    BY <1>1 DEF vars, db
  <2>2. QED
    BY <1>0, <2>1, QuietStep DEF InstallInv
<1>2. CASE BuildFails \/ SkipStub \/ EndBuild \/ ConnectFails \/ Killed
  <2>1. UNCHANGED <<spec, body, out, built>> /\ pc' \notin Installing /\ (exit' = 0 => pc' = "idle" /\ exit = 0)
    BY <1>2, NamesAssumption DEF BuildFails, SkipStub, EndBuild, ConnectFails, Killed, Return, db, InstallInv, Installing
  <2>2. QED
    BY <1>0, <2>1, QuietStep
<1>3. CASE BuildFile
  <2>1. First(rest) \in Modules
    BY <1>3, FirstIsFirst DEF BuildFile, InstallInv, BuildInv, Packages
  <2>2. Current(First(rest)) # None
    BY <2>1, NamesAssumption DEF InstallInv, BuildInv, Current
  <2>3. QED
    BY <1>0, <1>3, <2>1, <2>2 DEF BuildFile, InstallInv, Installing, db, Packages
<1>4. CASE GenerateRuntime
  <2>1. Runtime \notin built
    BY NamesAssumption DEF InstallInv, BuildInv
  <2>2. QED
    BY <1>0, <1>4, <2>1 DEF GenerateRuntime, InstallInv, Installing, db
<1>5. CASE Connect
  <2>1. pc' = "install" /\ rest' = ToInstall /\ UNCHANGED <<spec, body, out, built, failures, exit>> /\ exit # 0
    BY <1>5 DEF Connect, db, InstallInv
  <2>2. built \subseteq rest' /\ rest' \subseteq built \cup {Runtime}
    BY <2>1 DEF ToInstall
  <2>3. QED
    BY <1>0, <2>1, <2>2 DEF InstallInv, Installing
<1>6. CASE InstallSpec
  <2> DEFINE p == First(rest)
  <2>1. /\ pc \in Installing /\ rest # {} /\ pc = "install"
        /\ spec' = [spec EXCEPT ![p] = out[p]]
        /\ UNCHANGED <<body, out, built>>
    BY <1>6 DEF InstallSpec, Installing
  <2>2. p \in rest /\ p \in Packages /\ p \in built \cup {Runtime}
    BY <2>1, RestShrinks DEF InstallInv
  <2>3. CASE SpecCompiles(p, spec')
    <3>1. pc' = "body" /\ UNCHANGED <<rest, failures, exit>>
      BY <1>6, <2>3 DEF InstallSpec
    <3>2. ASSUME NEW m \in built \ rest, ~failures PROVE Holds(m)'
      <4>1. m \in Modules /\ Rank(m) < Rank(p) /\ Holds(m) /\ out[m] # None
        BY <2>1, <2>2, <3>2 DEF InstallInv, BuildInv
      <4>2. QED
        BY <2>1, <2>2, <4>1, SpecReplaced
    <3>3. spec'[p] = out[p]
      BY <2>1, <2>2 DEF InstallInv
    <3>4. SpecCompiles(p, spec)'
      BY <2>3, <3>1 DEF SpecCompiles, Met
    <3>5. QED
      BY <1>0, <2>1, <3>1, <3>2, <3>3, <3>4 DEF InstallInv, Installing
  <2>4. CASE ~SpecCompiles(p, spec')
    <3>1. FileFails
      BY <1>6, <2>4 DEF InstallSpec
    <3>2. QED
      BY <1>0, <2>1, <3>1, FailingFile DEF InstallInv
  <2>5. QED
    BY <2>3, <2>4
<1>7. CASE InstallBody
  <2> DEFINE p == First(rest)
  <2>1. /\ pc \in Installing /\ rest # {} /\ pc = "body"
        /\ body' = [body EXCEPT ![p] = out[p]]
        /\ UNCHANGED <<spec, out, built>>
    BY <1>7 DEF InstallBody, Installing, InstallInv
  <2>2. p \in rest /\ p \in Packages /\ p \in built \cup {Runtime}
    BY <2>1, RestShrinks DEF InstallInv
  <2>3. CASE BodyCompiles(p, spec, body')
    <3>1. pc' = "install" /\ rest' = rest \ {p} /\ UNCHANGED <<failures, exit>>
      BY <1>7, <2>3 DEF InstallBody
    <3>2. ASSUME NEW m \in built \ rest', ~failures PROVE Holds(m)'
      <4>1. CASE m = p
        <5>1. spec'[p] = out'[p] /\ body'[p] = out'[p] /\ out'[p] # None
          BY <2>1, <2>2, <3>2, <4>1 DEF InstallInv
        <5>2. BodyCompiles(p, spec', body')
          BY <2>1, <2>3 DEF BodyCompiles, SpecCompiles, Met
        <5>3. QED
          BY <4>1, <5>1, <5>2 DEF Holds, Works, WorksIn
      <4>2. CASE m # p
        <5>1. m \in built \ rest /\ Holds(m) /\ body'[m] = body[m]
          BY <2>1, <3>1, <3>2, <4>2 DEF InstallInv
        <5>2. QED
          BY <2>1, <5>1, HoldsStays
      <4>3. QED
        BY <4>1, <4>2
    <3>3. QED
      BY <1>0, <2>1, <3>1, <3>2, RestShrinks DEF InstallInv, Installing
  <2>4. CASE ~BodyCompiles(p, spec, body')
    <3>1. FileFails
      BY <1>7, <2>4 DEF InstallBody
    <3>2. QED
      BY <1>0, <2>1, <3>1, FailingFile DEF InstallInv
  <2>5. QED
    BY <2>3, <2>4
<1>8. CASE StatementFails
  BY <1>0, <1>8, FailingFile DEF StatementFails, Installing, InstallInv, db
<1>9. CASE Finish
  <2>1. /\ pc \in Installing /\ rest = {} /\ pc' = "idle" /\ (exit' = 0 => ~failures)
        /\ UNCHANGED <<spec, body, out, built>>
    BY <1>9 DEF Finish, Return, db, Installing
  <2>2. exit' = 0 => \A m \in built : Holds(m)
    BY <2>1 DEF InstallInv
  <2>3. QED
    BY <1>0, <2>1, <2>2, QuietStep DEF Installing
<1>10. ASSUME NEW m \in Modules, NEW v \in Versions, Edit(m, v) PROVE InstallInv'
  BY <1>0, <1>10, QuietStep DEF Edit, db, InstallInv
<1>11. ASSUME NEW k \in BOOLEAN, NEW target \in Targets, Start(target, k) PROVE InstallInv'
  BY <1>0, <1>11, NamesAssumption DEF Start, db, InstallInv, Installing
<1>12. QED
  BY <1>1, <1>2, <1>3, <1>4, <1>5, <1>6, <1>7, <1>8, <1>9, <1>10, <1>11 DEF Next, Step, Fault

\* A run that returns 0 has every module it built in the database as it built it, and working,
\* unless the module uses one that was installed after it.
THEOREM ZeroIsTrue == Spec => []ZeroWorks
<1>1. InstallInv => ZeroWorks
  BY DEF InstallInv, ZeroWorks, Holds
<1>2. QED
  BY <1>1, InstallInit, InstallStep, PTL DEF Spec

---------------------------------------------------------------------------
(* Deploying what the database holds already breaks nothing.                *)

\* The errors a module raises are errors it declares: _exception_name() makes the name in the
\* shared package from the module's own name and never looks for the declaration.
DeclaresItsErrors ==
  \A m \in Modules, v \in Versions : \A n \in Needs(Text[m][v]) :
    n[1] = Runtime => n[2] \in Text[m][v].errors

\* Only texts that parse reach the output directory and the database, and only a run that
\* needs the shared package installs it.
SafeInv ==
  /\ InstallInv
  /\ spec = [p \in Packages |-> spec[p]]
  /\ pc \in Installing => rest \subseteq ToInstall
  /\ \A m \in built : out[m].parses /\ ~out[m].stub
  /\ \A m \in Modules : spec[m] # None => spec[m].parses

LEMMA SafeInit == Init => SafeInv
BY InstallInit DEF Init, SafeInv, Installing, Packages

\* One text of one package is replaced by what is in the output directory.
LEMMA InstalledText ==
  ASSUME SafeInv, InstallSpec \/ InstallBody
  PROVE  /\ First(rest) \in rest /\ First(rest) \in Packages /\ First(rest) \in ToInstall
         /\ pc \in {"install", "body"} /\ UNCHANGED <<out, built, ver>>
         /\ \A q \in Packages : q # First(rest) => spec'[q] = spec[q] /\ body'[q] = body[q]
         /\ \A q \in Packages : /\ spec'[q] \in {spec[q], out[q]}
                                /\ body'[q] \in {body[q], out[q]}
         /\ spec' = [q \in Packages |-> spec'[q]]
         /\ pc' \in Installing => rest' \subseteq rest
<1>1. InstallInv /\ pc \in Installing /\ rest # {}
  BY DEF SafeInv, InstallInv, InstallSpec, InstallBody, Installing
<1>2. First(rest) \in rest /\ First(rest) \in Packages
  BY <1>1, RestShrinks
<1>3. First(rest) \in ToInstall
  BY <1>1, <1>2 DEF SafeInv
<1>4. pc' \in Installing => rest' \subseteq rest
  BY DEF InstallSpec, InstallBody, FileFails, Return, Installing
<1>5. DOMAIN spec = Packages /\ DOMAIN body = Packages /\ spec = [q \in Packages |-> spec[q]]
  BY DEF SafeInv, InstallInv
<1>6. CASE InstallSpec
  <2>1. spec' = [spec EXCEPT ![First(rest)] = out[First(rest)]] /\ UNCHANGED <<body, out, built, ver>>
    BY <1>6 DEF InstallSpec, sources
  <2>2. spec' = [q \in Packages |-> IF q = First(rest) THEN out[First(rest)] ELSE spec[q]]
    BY <2>1, <1>5
  <2>3. QED
    BY <1>1, <1>2, <1>3, <1>4, <2>1, <2>2 DEF Installing
<1>7. CASE InstallBody
  <2>1. body' = [body EXCEPT ![First(rest)] = out[First(rest)]] /\ UNCHANGED <<spec, out, built, ver>>
    BY <1>7 DEF InstallBody, sources
  <2>2. \A q \in Packages : body'[q] = IF q = First(rest) THEN out[First(rest)] ELSE body[q]
    BY <2>1, <1>5
  <2>3. QED
    BY <1>1, <1>2, <1>3, <1>4, <1>5, <2>1, <2>2 DEF Installing
<1>8. QED
  BY <1>6, <1>7

LEMMA SafeStep == SafeInv /\ [Next]_vars => SafeInv'
<1> SUFFICES ASSUME SafeInv, [Next]_vars PROVE SafeInv'
  OBVIOUS
<1>0. InstallInv'
  BY InstallStep DEF SafeInv
<1>1. UNCHANGED <<out, built>> => ToInstall' = ToInstall
  BY DEF ToInstall, HasErrors
<1>2. CASE UNCHANGED <<out, built, spec>> /\ (pc' \in Installing => pc \in Installing /\ rest' \subseteq rest)
  BY <1>0, <1>1, <1>2 DEF SafeInv
<1>3. CASE UNCHANGED vars \/ BuildFails \/ SkipStub \/ EndBuild \/ ConnectFails \/ Killed \/ StatementFails
             \/ Finish
  BY <1>2, <1>3
  DEF vars, db, BuildFails, SkipStub, EndBuild, ConnectFails, Killed, StatementFails, Finish, FileFails,
      Return, Installing
<1>4. CASE BuildFile
  <2>1. First(rest) \in Modules
    BY <1>4, FirstIsFirst DEF BuildFile, SafeInv, InstallInv, BuildInv, Packages
  <2>2. /\ out' = [out EXCEPT ![First(rest)] = Current(First(rest))] /\ built' = built \cup {First(rest)}
        /\ Current(First(rest)).parses /\ ~Current(First(rest)).stub
        /\ UNCHANGED <<spec, pc>> /\ pc = "build" /\ DOMAIN out = Packages /\ Packages = Modules \cup {Runtime}
    BY <1>4 DEF BuildFile, db, SafeInv, InstallInv, Packages
  <2>3. \A m \in built' : out'[m].parses /\ ~out'[m].stub
    BY <2>1, <2>2 DEF SafeInv
  <2>4. QED
    BY <1>0, <2>2, <2>3 DEF SafeInv, Installing
<1>5. CASE GenerateRuntime
  <2>1. \A m \in built : m # Runtime
    BY NamesAssumption DEF SafeInv, InstallInv, BuildInv
  <2>2. \A m \in built : out'[m] = out[m]
    BY <1>5, <2>1 DEF GenerateRuntime
  <2>3. QED
    BY <1>0, <1>5, <2>2 DEF GenerateRuntime, db, SafeInv, Installing
<1>6. CASE Connect
  BY <1>0, <1>1, <1>6 DEF Connect, db, SafeInv, Installing
<1>7. CASE InstallSpec \/ InstallBody
  <2>1. \A m \in Modules : spec'[m] # None => spec'[m].parses
    <3> SUFFICES ASSUME NEW m \in Modules, spec'[m] # None PROVE spec'[m].parses
      OBVIOUS
    <3>1. CASE spec'[m] = spec[m]
      BY <3>1 DEF SafeInv
    <3>2. CASE spec'[m] # spec[m]
      <4>1. m = First(rest) /\ spec'[m] = out[m]
        BY <1>7, <3>2, InstalledText DEF Packages
      <4>2. m \in built
        BY <1>7, <4>1, InstalledText, NamesAssumption DEF ToInstall
      <4>3. QED
        BY <4>1, <4>2 DEF SafeInv
    <3>3. QED
      BY <3>1, <3>2
  <2>2. QED
    BY <1>0, <1>1, <1>7, <2>1, InstalledText DEF SafeInv, Installing
<1>8. ASSUME NEW m \in Modules, NEW v \in Versions, Edit(m, v) PROVE SafeInv'
  BY <1>2, <1>8 DEF Edit, db
<1>9. ASSUME NEW k \in BOOLEAN, NEW target \in Targets, Start(target, k) PROVE SafeInv'
  BY <1>0, <1>9 DEF Start, db, SafeInv, Installing
<1>10. QED
  BY <1>3, <1>4, <1>5, <1>6, <1>7, <1>8, <1>9 DEF Next, Step, Fault

\* A deployed module parses, and the shared package offers the errors of every module that does
\* and is seen by the run.
LEMMA RuntimeOffers ==
  ASSUME DeclaresItsErrors, SafeInv, NEW m \in scope, spec[m] = Current(m),
         NEW n \in Needs(Current(m)), n[1] = Runtime
  PROVE  RuntimeText # None /\ n[2] \in RuntimeText.offers
<1>1. m \in Modules /\ scope \subseteq Modules /\ \A k \in Modules : ver[k] \in Versions
  BY DEF SafeInv, InstallInv, BuildInv
<1>2. n[2] \in Current(m).errors
  BY <1>1 DEF DeclaresItsErrors, Current
<1>3. Current(m).parses
  BY <1>1, NamesAssumption DEF SafeInv, Current
<1>4. RuntimeText.offers = ErrorsOf(scope)
  BY DEF RuntimeText, RuntimeFor, RuntimeScope
<1>5. RuntimeText # None
  <2>1. ErrorsOf(scope) \subseteq AllErrors
    BY <1>1 DEF AllErrors, Current, ErrorsOf
  <2>2. QED
    BY <2>1, NamesAssumption DEF RuntimeText, RuntimeScope
<1>6. QED
  BY <1>1, <1>2, <1>3, <1>4, <1>5 DEF ErrorsOf

\* The specs a deployed module needs go on offering what it needs.
LEMMA WorksOn ==
  ASSUME NEW m \in Modules, Works(m), spec'[m] = spec[m], body'[m] = body[m], spec[m] = body[m],
         \A n \in Needs(spec[m]) : \/ spec'[n[1]] = spec[n[1]]
                                   \/ spec'[n[1]] # None /\ n[2] \in spec'[n[1]].offers
  PROVE  Works(m)'
<1>1. /\ spec[m] # None /\ Met(spec[m].specNeeds, spec) /\ Met(spec[m].bodyNeeds, spec)
      /\ spec[m].offers \subseteq body[m].offers
  BY DEF Works, WorksIn, BodyCompiles, SpecCompiles
<1>2. Met(spec[m].specNeeds, spec') /\ Met(spec[m].bodyNeeds, spec')
  BY <1>1 DEF Met, Needs
<1>3. QED
  BY <1>1, <1>2 DEF Works, WorksIn, BodyCompiles, SpecCompiles

\* Deploying what the database holds already, a project, a directory or a file of it, breaks none of
\* its modules at any moment, whatever fails, but for those that raise errors and are not in the
\* directory of what is deployed: for every project whose modules declare the errors they raise.
THEOREM RedeploySafe == ASSUME DeclaresItsErrors PROVE Spec => RedeployIsSafe
<1>1. SafeInv /\ [Next]_vars
      => [(IF pc = "idle" THEN AsDeployed ELSE Spared /\ UpToDate) /\ ver' = ver => Spared']_vars
  <2> SUFFICES ASSUME SafeInv, Next, IF pc = "idle" THEN AsDeployed ELSE Spared /\ UpToDate, ver' = ver
               PROVE  Spared'
    OBVIOUS
  <2>1. \A m : Current(m)' = Current(m)
    BY DEF Current
  <2>2. CASE UNCHANGED <<spec, body>>
    <3>1. \A m : InPlace(m)' <=> InPlace(m)
      BY <2>1, <2>2 DEF InPlace, Works, WorksIn, BodyCompiles, SpecCompiles, Met
    <3>2. pc # "idle" => UNCHANGED run
      BY DEF Next, Step, Fault, BuildFails, SkipStub, BuildFile, EndBuild, GenerateRuntime, Connect, Finish,
             InstallSpec, InstallBody, ConnectFails, StatementFails, Killed, Edit, Start
    <3>3. \A m : pc # "idle" => (Exposed(m)' <=> Exposed(m))
      BY <2>1, <3>2 DEF Exposed, run
    <3>4. Deployable' = Deployable
      BY <2>1 DEF Deployable
    <3>5. QED
      BY <3>1, <3>3, <3>4 DEF Spared, AsDeployed
  <2>3. CASE InstallSpec \/ InstallBody
    <3> DEFINE p == First(rest)
    <3>1. /\ p \in Packages /\ p \in ToInstall /\ pc \in {"install", "body"} /\ Spared /\ UpToDate
          /\ \A q \in Packages : q # p => spec'[q] = spec[q] /\ body'[q] = body[q]
          /\ \A q \in Packages : /\ spec'[q] \in {spec[q], out[q]}
                                 /\ body'[q] \in {body[q], out[q]}
      BY <2>3, InstalledText
    <3> HIDE DEF p
    <3>2. UNCHANGED run
      BY <2>3 DEF InstallSpec, InstallBody
    <3>3. \A m \in built : /\ out[m] = Current(m) /\ ~Current(m).stub /\ m \in asked
                           /\ m \in Modules /\ ~Exposed(m)
      BY <3>1 DEF UpToDate, SafeInv, InstallInv, BuildInv, Exposed
    <3>4. ASSUME NEW m \in Deployable, ~Exposed(m)
          PROVE  /\ spec[m] = Current(m) /\ body[m] = Current(m) /\ Works(m)
                 /\ spec'[m] = Current(m) /\ body'[m] = Current(m)
      <4>1. spec[m] = Current(m) /\ body[m] = Current(m) /\ Works(m)
        BY <3>1, <3>4 DEF Spared, InPlace
      <4>2. m = p => out[m] = Current(m)
        BY <3>1, <3>4, NamesAssumption DEF ToInstall, UpToDate, Deployable
      <4>3. m \in Packages
        BY DEF Packages, Deployable
      <4>4. QED
        BY <3>1, <4>1, <4>2, <4>3
    <3>5. \A q \in Packages : \/ spec'[q] = spec[q]
                              \/ q = Runtime /\ HasErrors /\ spec'[q] = RuntimeText
      <4> SUFFICES ASSUME NEW q \in Packages, spec'[q] # spec[q]
                   PROVE  q = Runtime /\ HasErrors /\ spec'[q] = RuntimeText
        OBVIOUS
      <4>1. q = p /\ spec'[q] = out[p]
        BY <3>1
      <4>2. p \notin built
        <5> SUFFICES ASSUME p \in built PROVE FALSE
          OBVIOUS
        <5>1. p \in Deployable /\ ~Exposed(p) /\ out[p] = Current(p)
          BY <3>3 DEF Deployable
        <5>2. QED
          BY <3>4, <4>1, <5>1
      <4>3. p = Runtime /\ HasErrors
        BY <3>1, <4>2 DEF ToInstall
      <4>4. QED
        BY <3>1, <4>1, <4>3 DEF UpToDate
    \* The shared package is replaced only if something deployed uses it.
    <3>6. HasErrors => \E a \in asked : UsesRuntime(Current(a))
      BY <3>3 DEF HasErrors
    <3>7. ASSUME NEW m \in Deployable, ~Exposed(m) PROVE Works(m)'
      <4>1. /\ Works(m) /\ spec[m] = Current(m) /\ body[m] = Current(m)
            /\ spec'[m] = spec[m] /\ body'[m] = body[m] /\ m \in Modules
        BY <3>4, <3>7 DEF Deployable
      <4>2. ASSUME NEW n \in Needs(spec[m])
            PROVE  \/ spec'[n[1]] = spec[n[1]]
                   \/ spec'[n[1]] # None /\ n[2] \in spec'[n[1]].offers
        <5>1. n[1] \in Packages
          BY <4>1, <4>2, NeedsAssumption DEF Current, SafeInv, InstallInv, BuildInv
        <5>2. CASE n[1] = Runtime /\ HasErrors /\ spec'[n[1]] = RuntimeText
          <6>1. UsesRuntime(Current(m))
            BY <4>1, <4>2, <5>2 DEF UsesRuntime
          <6>2. m \in scope
            BY <3>6, <3>7, <5>2, <6>1 DEF Exposed
          <6>3. QED
            BY <4>1, <4>2, <5>2, <6>2, RuntimeOffers
        <5>3. QED
          BY <3>5, <5>1, <5>2
      <4>3. QED
        BY <4>1, <4>2, WorksOn
    <3>8. \A m : Exposed(m)' <=> Exposed(m)
      BY <2>1, <3>2 DEF Exposed, run
    <3>9. QED
      BY <2>1, <3>4, <3>7, <3>8 DEF Spared, InPlace, Deployable
  <2>4. QED
    BY <2>2, <2>3
    DEF Next, Step, Fault, BuildFails, SkipStub, BuildFile, EndBuild, GenerateRuntime, Connect, Finish,
        ConnectFails, StatementFails, Killed, Edit, Start, db
<1>2. QED
  BY <1>1, SafeInit, SafeStep, PTL DEF Spec, RedeployIsSafe
=============================================================================
