------------------------------- MODULE Deploy -------------------------------
(* `pell deploy` (cli.py, driver.py) run again and again over a project     *)
(* that is being edited: build every module asked for, generate the shared  *)
(* pell_runtime, install file after file.  CREATE OR REPLACE stores what it *)
(* is given whether it compiles or not.  A package is a spec and a body     *)
(* over some text; what the database makes of them is external.             *)
EXTENDS Naturals, Sequences, FiniteSets

CONSTANTS
  Order,       \* the modules of the project, in the order of their paths, which is that of their names
  Directory,   \* Directory[m]: the modules in the directory of m's file and below
  MaxVersion,  \* a module's source goes through the versions 1..MaxVersion, back and forth
  Text,        \* Text[m][v]: [parses, emits, stub, errors, offers, specNeeds, bodyNeeds]
  Runtime,     \* the name of the shared package
  None,
  MaxEdits, MaxFaults

Versions == 1..MaxVersion
Modules == {Order[i] : i \in DOMAIN Order}
Packages == Modules \cup {Runtime}

\* The text of the shared package for a set of errors.
RuntimeFor(errs) ==
  [parses |-> TRUE, emits |-> TRUE, stub |-> FALSE, errors |-> {},
   offers |-> errs, specNeeds |-> {}, bodyNeeds |-> {}]
AllErrors == UNION {Text[m][v].errors : m \in Modules, v \in Versions}

\* `None` is no text and no exit code; the shared package is not a module of the project.
ASSUME OrderAssumption == DOMAIN Order \subseteq Nat \ {0}
ASSUME DirectoryAssumption == \A m \in Modules : m \in Directory[m] /\ Directory[m] \subseteq Modules
ASSUME VersionAssumption == MaxVersion \in Nat \ {0}
ASSUME NamesAssumption ==
  /\ Runtime \notin Modules
  /\ None # 0 /\ \A m \in Modules, v \in Versions : Text[m][v] # None
  /\ \A errs \in SUBSET AllErrors : RuntimeFor(errs) # None

VARIABLES
  ver,         \* the version of each module's source
  out,         \* the .sql files of the output directory
  spec, body,  \* the text of each package's spec and body in the database
  pc,          \* where cmd_deploy is
  asked,       \* the modules of the run, and those of the project as the run sees it
  scope,
  keep,        \* --keep-going
  rest,        \* what is left to build, or to install
  built,       \* built_files
  failures,    \* failures, deploy_failures: have there been any
  exit,        \* what the last run returned
  edits, faults

sources == <<ver, edits>>
db == <<spec, body>>
run == <<asked, scope, keep>>
vars == <<sources, out, db, pc, run, rest, built, failures, exit, faults>>

Current(m) == Text[m][ver[m]]
Needs(t) == t.specNeeds \cup t.bodyNeeds
UsesRuntime(t) == \E n \in Needs(t) : n[1] = Runtime

\* What a module needs is in a package of the project; Oracle's own are always there.
ASSUME NeedsAssumption ==
  \A m \in Modules, v \in Versions : \A n \in Needs(Text[m][v]) : n[1] \in Packages

(***************************************************************************)
(* External: what compiles.  A need is a package and a name in its spec.    *)
(***************************************************************************)
Met(needs, s) == \A n \in needs : s[n[1]] # None /\ n[2] \in s[n[1]].offers
SpecCompiles(p, s) == Met(s[p].specNeeds, s)
BodyCompiles(p, s, b) == /\ s[p] # None /\ SpecCompiles(p, s)
                         /\ s[p].offers \subseteq b[p].offers
                         /\ Met(b[p].bodyNeeds, s)
WorksIn(p, s, b) == s[p] # None /\ b[p] # None /\ BodyCompiles(p, s, b)
Works(p) == WorksIn(p, spec, body)

Init ==
  /\ ver = [m \in Modules |-> 1]
  /\ out = [p \in Packages |-> None]
  /\ spec = [p \in Packages |-> None] /\ body = [p \in Packages |-> None]
  /\ pc = "idle" /\ asked = {} /\ scope = {} /\ keep = FALSE /\ rest = {}
  /\ built = {} /\ failures = FALSE /\ exit = None
  /\ edits = 0 /\ faults = 0

\* The project is edited, whatever a run is doing.
Edit(m, v) ==
  /\ edits < MaxEdits /\ edits' = edits + 1
  /\ v # ver[m] /\ ver' = [ver EXCEPT ![m] = v]
  /\ UNCHANGED <<out, db, pc, run, rest, built, failures, exit, faults>>

\* Mutant: the shared package after its users.
RuntimeLast(p) == IF p = Runtime THEN Len(Order) + 1 ELSE CHOOSE i \in DOMAIN Order : Order[i] = p
\* The order of the files: sorted by path, the shared package before all of them.
Rank(p) == IF p = Runtime THEN 0 ELSE CHOOSE i \in DOMAIN Order : Order[i] = p
First(files) == CHOOSE p \in files : \A q \in files : Rank(p) <= Rank(q)

\* pell deploy <directory>, or <one file>, which counts as a project of its directory.
Targets == {<<ms, ms>> : ms \in {Modules} \cup {Directory[m] : m \in Modules}}
           \cup {<<{m}, Directory[m]>> : m \in Modules}
Start(target, k) ==
  /\ pc = "idle"
  /\ pc' = "build" /\ asked' = target[1] /\ scope' = target[2] /\ keep' = k /\ rest' = target[1]
  /\ built' = {} /\ failures' = FALSE /\ exit' = None
  /\ UNCHANGED <<sources, out, db, faults>>

Return(code) == pc' = "idle" /\ exit' = code

(***************************************************************************)
(* Building.                                                                *)
(***************************************************************************)
BuildFails ==
  /\ pc = "build" /\ rest # {}
  /\ ~Current(First(rest)).parses \/ ~Current(First(rest)).emits
  /\ failures' = TRUE /\ rest' = rest \ {First(rest)}
  /\ IF keep THEN UNCHANGED <<pc, exit>> ELSE Return(1)
  /\ UNCHANGED <<sources, out, db, run, built, faults>>

SkipStub ==
  /\ pc = "build" /\ rest # {}
  /\ Current(First(rest)).parses /\ Current(First(rest)).emits /\ Current(First(rest)).stub
  /\ rest' = rest \ {First(rest)}
  /\ UNCHANGED <<sources, out, db, pc, run, built, failures, exit, faults>>

BuildFile ==
  /\ pc = "build" /\ rest # {}
  /\ Current(First(rest)).parses /\ Current(First(rest)).emits /\ ~Current(First(rest)).stub
  /\ out' = [out EXCEPT ![First(rest)] = Current(First(rest))]
  /\ built' = built \cup {First(rest)} /\ rest' = rest \ {First(rest)}
  /\ UNCHANGED <<sources, db, pc, run, failures, exit, faults>>

\* Does a file built in this run name the shared package?
HasErrors == \E m \in built : UsesRuntime(out[m])

\* Mutant: --keep-going keeps going.
EndBuildAnyway ==
  /\ pc = "build" /\ rest = {}
  /\ pc' = (IF HasErrors THEN "runtime" ELSE "connect")
  /\ UNCHANGED <<sources, out, db, run, rest, built, failures, exit, faults>>

\* "N build error(s); aborting before install".
EndBuild ==
  /\ pc = "build" /\ rest = {}
  /\ IF failures THEN Return(1) ELSE pc' = (IF HasErrors THEN "runtime" ELSE "connect") /\ UNCHANGED exit
  /\ UNCHANGED <<sources, out, db, run, rest, built, failures, faults>>

(***************************************************************************)
(* cmd_runtime: one package for the errors of every module that parses, in  *)
(* the directory given or in that of the file given, deployed or not.       *)
(***************************************************************************)
\* Mutant: only the modules being deployed.
AskedScope == asked
RuntimeScope == scope
ErrorsOf(ms) == UNION {Current(m).errors : m \in {n \in ms : Current(n).parses}}
RuntimeText == RuntimeFor(ErrorsOf(RuntimeScope))

GenerateRuntime ==
  /\ pc = "runtime"
  /\ out' = [out EXCEPT ![Runtime] = RuntimeText]
  /\ pc' = "connect"
  /\ UNCHANGED <<sources, db, run, rest, built, failures, exit, faults>>

(***************************************************************************)
(* Installing.                                                              *)
(***************************************************************************)
ToInstall == built \cup (IF HasErrors THEN {Runtime} ELSE {})

Connect ==
  /\ pc = "connect"
  /\ pc' = "install" /\ rest' = ToInstall
  /\ UNCHANGED <<sources, out, db, run, built, failures, exit, faults>>

ConnectFails ==
  /\ pc = "connect" /\ faults < MaxFaults /\ faults' = faults + 1
  /\ Return(1)
  /\ UNCHANGED <<sources, out, db, run, rest, built, failures>>

\* Mutant: --keep-going is for the build only.
FirstFailureStops == failures' = TRUE /\ Return(1) /\ UNCHANGED rest

\* A statement raised, or left a warning: the rest of its file is not run.
FileFails ==
  /\ failures' = TRUE
  /\ IF keep THEN pc' = "install" /\ rest' = rest \ {First(rest)} /\ UNCHANGED exit
             ELSE Return(1) /\ UNCHANGED rest

InstallSpec ==
  /\ pc = "install" /\ rest # {}
  /\ spec' = [spec EXCEPT ![First(rest)] = out[First(rest)]]
  /\ IF SpecCompiles(First(rest), spec')
     THEN pc' = "body" /\ UNCHANGED <<rest, failures, exit>>
     ELSE FileFails
  /\ UNCHANGED <<sources, out, body, run, built, faults>>

InstallBody ==
  /\ pc = "body"
  /\ body' = [body EXCEPT ![First(rest)] = out[First(rest)]]
  /\ IF BodyCompiles(First(rest), spec, body')
     THEN pc' = "install" /\ rest' = rest \ {First(rest)} /\ UNCHANGED <<failures, exit>>
     ELSE FileFails
  /\ UNCHANGED <<sources, out, spec, run, built, faults>>

StatementFails ==
  /\ pc \in {"install", "body"} /\ rest # {} /\ faults < MaxFaults /\ faults' = faults + 1
  /\ FileFails
  /\ UNCHANGED <<sources, out, db, run, built>>

Finish ==
  /\ pc = "install" /\ rest = {}
  /\ Return(IF failures THEN 1 ELSE 0)
  /\ UNCHANGED <<sources, out, db, run, rest, built, failures, faults>>

\* The process is killed.
Killed ==
  /\ pc # "idle" /\ faults < MaxFaults /\ faults' = faults + 1
  /\ pc' = "idle" /\ UNCHANGED exit
  /\ UNCHANGED <<sources, out, db, run, rest, built, failures>>

Step == \/ BuildFails \/ SkipStub \/ BuildFile \/ EndBuild \/ GenerateRuntime
        \/ Connect \/ InstallSpec \/ InstallBody \/ Finish
Fault == ConnectFails \/ StatementFails \/ Killed
Next == \/ Step \/ Fault
        \/ \E m \in Modules, v \in Versions : Edit(m, v)
        \/ \E target \in Targets, k \in BOOLEAN : Start(target, k)

Spec == Init /\ [][Next]_vars

\* A started run goes on, and the user runs the whole project with --keep-going for ever.
LiveSpec == Spec /\ WF_vars(Step) /\ SF_vars(Start(<<Modules, Modules>>, TRUE))

(***************************************************************************)
(* Properties.                                                              *)
(***************************************************************************)
\* "Build everything first to catch compile errors before connecting" (cli.py:276): the database
\* changes only in a run that built every module asked for.
BuildsFirst ==
  [][ db' # db => \A m \in asked : m \in built \/ \E v \in Versions : Text[m][v].stub ]_vars

\* A run that returns 0 leaves every module it built installed and working as built, unless the
\* module uses one that is installed after it, which the order of the files does not prevent.
After(m, n) == \E i, j \in DOMAIN Order : Order[i] = m /\ Order[j] = n /\ i < j
UsesLater(m) == \E n \in Needs(out[m]) : n[1] \in built /\ After(m, n[1])
ZeroWorks ==
  exit = 0 => \A m \in built : spec[m] = out[m] /\ body[m] = out[m] /\ (UsesLater(m) \/ Works(m))

\* Deploying what the database holds already, a project, a directory or a file of it, breaks
\* nothing, not even for a while or when it is cut short, but for the modules that are exposed: they
\* raise errors, and something that does is deployed from a directory that does not hold them
\* ("Aggregate from the whole PROJECT directory, even when deploying a single file" (cli.py:363) is
\* said of the directory given, or the one the file is in).
InPlace(m) == spec[m] = Current(m) /\ body[m] = Current(m) /\ Works(m)
Deployable == {m \in Modules : ~Current(m).stub}
AsDeployed == \A m \in Deployable : InPlace(m)
Exposed(m) == m \notin scope /\ UsesRuntime(Current(m)) /\ \E a \in asked : UsesRuntime(Current(a))
Spared == \A m \in Deployable : Exposed(m) \/ InPlace(m)
UpToDate == /\ \A m \in built : out[m] = Current(m)
            /\ (pc \in {"connect", "install", "body"} /\ HasErrors) => out[Runtime] = RuntimeText
RedeployIsSafe ==
  [][ (IF pc = "idle" THEN AsDeployed ELSE Spared /\ UpToDate) /\ ver' = ver => Spared' ]_vars

\* Whatever order the files are installed in, deploying the project again and again with
\* --keep-going ends with everything in place, if its sources fit together and stay as they are,
\* and nothing more is deployed from a directory that leaves errors of the project out.
Consistent ==
  \A m \in Modules : LET t == Current(m) IN
    /\ t.parses /\ t.emits
    /\ \A n \in Needs(t) :
         n[2] \in IF n[1] = Runtime THEN ErrorsOf(Modules) ELSE Current(n[1]).offers
Whole == ErrorsOf(scope) = ErrorsOf(Modules)
Converges == <>[](Consistent /\ Whole) => <>[]AsDeployed
=============================================================================
