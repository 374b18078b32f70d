----------------------- MODULE LanguageServer_proofs -----------------------
(* What the proof system checks about the language server, for every       *)
(* project, every text and any number of messages and events.              *)
EXTENDS LanguageServer, FiniteSetTheorems, SequenceTheorems, WellFoundedInduction, TLAPS

---------------------------------------------------------------------------
(* The shape of the state.                                                 *)

AllTexts == (UNION {Texts[f] : f \in Files}) \cup {Absent}
Types == {"open", "change", "save", "close", "request"}
Messages == [type : Types, file : Files, text : AllTexts]

Shape ==
  /\ disk \in [Files -> AllTexts] /\ editor \in [Files -> AllTexts \cup {NotOpen}]
  /\ inbox \in Seq(Messages)
  /\ docs \in [Files -> AllTexts \cup {NotOpen}]
  /\ DOMAIN cache = Files /\ DOMAIN published = Files

\* What Serve leaves: a shorter inbox, and entries for one file more or less.
LEMMA ServeShape == Shape /\ Serve => Shape'
<1> SUFFICES ASSUME Shape, Serve PROVE Shape'
  OBVIOUS
<1>1. inbox' \in Seq(Messages)
  BY DEF Shape, Serve, Take
<1>2. docs' \in [Files -> AllTexts \cup {NotOpen}]
  <2>1. inbox[1] \in Messages
    <3>1. inbox \in Seq(Messages) /\ inbox # <<>>
      BY DEF Shape, Serve, Take
    <3> QED BY <3>1
  <2>2. inbox[1].text \in AllTexts
    BY <2>1 DEF Messages
  <2>3. docs' \in {docs, [docs EXCEPT ![inbox[1].file] = inbox[1].text], [docs EXCEPT ![inbox[1].file] = NotOpen]}
    BY DEF Shape, Serve
  <2> QED BY <2>2, <2>3 DEF Shape
<1>3. DOMAIN cache' = Files /\ DOMAIN published' = Files
  BY DEF Shape, Serve, on_open, on_change, on_save, on_close, on_request, validate
<1>4. QED
  BY <1>1, <1>2, <1>3 DEF Shape, Serve

\* What is told comes last in the inbox.
LEMMA Told ==
  ASSUME Shape, NEW m \in Messages, inbox' = Append(inbox, m)
  PROVE  /\ inbox' \in Seq(Messages) /\ Len(inbox') = Len(inbox) + 1
         /\ \A k \in DOMAIN inbox : k \in DOMAIN inbox' /\ inbox'[k] = inbox[k]
         /\ inbox'[Len(inbox) + 1] = m
<1>1. inbox \in Seq(Messages)
  BY DEF Shape
<1>2. /\ Append(inbox, m) \in Seq(Messages) /\ Len(Append(inbox, m)) = Len(inbox) + 1
      /\ \A k \in 1 .. Len(inbox) : Append(inbox, m)[k] = inbox[k]
      /\ Append(inbox, m)[Len(inbox) + 1] = m
  BY <1>1, AppendProperties
<1>3. DOMAIN inbox = 1 .. Len(inbox) /\ Len(inbox) \in Nat
  BY <1>1
<1>4. DOMAIN inbox' = 1 .. Len(inbox) + 1
  BY <1>2
<1>5. QED
  BY <1>2, <1>3, <1>4

LEMMA TellShape ==
  ASSUME Shape, NEW m \in Messages, inbox' = Append(inbox, m), UNCHANGED <<docs, cache, published>>
  PROVE  /\ inbox' \in Seq(Messages) /\ docs' \in [Files -> AllTexts \cup {NotOpen}]
         /\ DOMAIN cache' = Files /\ DOMAIN published' = Files
BY Told DEF Shape

\* What the editor sends are messages.
LEMMA SentMessages ==
  ASSUME Shape, NEW f \in Files
  PROVE  /\ disk[f] \in AllTexts /\ (editor[f] # NotOpen => editor[f] \in AllTexts)
         /\ Message("open", f, disk[f]) \in Messages
         /\ \A type \in Types : Message(type, f, Absent) \in Messages
         /\ \A t \in Texts[f] : t \in AllTexts /\ Message("change", f, t) \in Messages
<1>1. disk[f] \in AllTexts /\ (editor[f] # NotOpen => editor[f] \in AllTexts)
  BY DEF Shape
<1>2. Absent \in AllTexts /\ \A t \in Texts[f] : t \in AllTexts
  BY DEF AllTexts
<1>3. \A t \in AllTexts, type \in Types : Message(type, f, t) \in Messages
  BY DEF Message, Messages
<1>4. "open" \in Types /\ "change" \in Types
  BY DEF Types
<1>5. QED
  BY <1>1, <1>2, <1>3, <1>4

\* An event of the editor: a message, and no more for the server.
Sends == (\E m \in Messages : inbox' = Append(inbox, m)) /\ UNCHANGED <<docs, cache, ctx, published>>
LEMMA EditorSends ==
  ASSUME Shape, NEW f \in Files
  PROVE  /\ Open(f) \/ Save(f) \/ Close(f) \/ Request(f) => Sends
         /\ \A t \in Texts[f] : Edit(f, t) => Sends
<1>1. Open(f) => Sends
  BY SentMessages DEF Open, Tell, Sends
<1>2. Save(f) => Sends
  BY SentMessages DEF Save, Tell, Sends, Types
<1>3. Close(f) => Sends
  BY SentMessages DEF Close, Tell, Sends, Types
<1>4. Request(f) => Sends
  BY SentMessages DEF Request, Tell, Sends, Types
<1>5. \A t \in Texts[f] : Edit(f, t) => Sends
  BY SentMessages DEF Edit, Tell, Sends
<1>6. QED
  BY <1>1, <1>2, <1>3, <1>4, <1>5

LEMMA ShapeHolds == Spec => []Shape
<1>1. Init => Shape
  BY ProjectAssumption DEF Init, Shape, AllTexts
<1>2. Shape /\ [Next]_vars => Shape'
  <2> SUFFICES ASSUME Shape, [Next]_vars PROVE Shape'
    OBVIOUS
  <2>1. CASE Serve
    BY <2>1, ServeShape
  <2>2. ASSUME Sends, disk' \in [Files -> AllTexts], editor' \in [Files -> AllTexts \cup {NotOpen}] PROVE Shape'
    BY <2>2, TellShape DEF Sends, Shape
  <2>3. ASSUME NEW f \in Files, Open(f) \/ Save(f) \/ Close(f) \/ Request(f) PROVE Shape'
    <3>1. /\ disk' = disk \/ (disk' = [disk EXCEPT ![f] = editor[f]] /\ editor[f] # NotOpen)
          /\ editor' \in {editor, [editor EXCEPT ![f] = disk[f]], [editor EXCEPT ![f] = NotOpen]}
      BY <2>3 DEF Open, Save, Close, Request
    <3>2. disk' \in [Files -> AllTexts] /\ editor' \in [Files -> AllTexts \cup {NotOpen}]
      BY <3>1, SentMessages DEF Shape
    <3>3. QED
      BY <2>2, <2>3, <3>2, EditorSends
  <2>4. ASSUME NEW f \in Files, NEW t \in Texts[f], Edit(f, t) PROVE Shape'
    <3>1. disk' = disk /\ editor' = [editor EXCEPT ![f] = t] /\ t \in AllTexts
      BY <2>4, SentMessages DEF Edit
    <3>2. disk' \in [Files -> AllTexts] /\ editor' \in [Files -> AllTexts \cup {NotOpen}]
      BY <3>1 DEF Shape
    <3>3. QED
      BY <2>2, <2>4, <3>2, EditorSends
  <2>5. ASSUME NEW f \in Files, NEW t \in Texts[f], ChangeOutside(f, t) PROVE Shape'
    BY <2>5, SentMessages DEF ChangeOutside, Shape
  <2>6. CASE UNCHANGED vars
    BY <2>6 DEF vars, Shape
  <2>7. QED
    BY <2>1, <2>2, <2>3, <2>4, <2>5, <2>6 DEF Next
<1>3. QED
  BY <1>1, <1>2, PTL DEF Spec

---------------------------------------------------------------------------
(* The registries and the caches.                                          *)

\* A project consulted now is as it is on disk, or as it was known before.
LEMMA ConsultedNow ==
  ASSUME NEW c, NEW f, NEW r \in Roots, c[r] \in {NotScanned, Now(r)}
  PROVE  get_project_ctx(c, f)[r] \in {NotScanned, Now(r)}
BY DEF get_project_ctx, Consulted, Now

LEMMA FreshIsUnscanned == \A r \in Roots : Unscanned[r] = NotScanned
BY DEF Unscanned

NoSave == \A k \in DOMAIN inbox : inbox[k].type # "save"
CtxCurrent == ~foreign /\ NoSave => \A r \in Roots : ctx[r] \in {NotScanned, Now(r)}
CacheCurrent == \A f \in Files : docs[f] # NotOpen => cache[f] = ModuleOf(docs[f])

LEMMA ServeKeepsCaches ==
  ASSUME Shape, Serve, CacheCurrent
  PROVE  CacheCurrent'
<1> DEFINE m == inbox[1]
<1>1. m \in Messages /\ m.file \in Files
  <2>1. inbox \in Seq(Messages) /\ inbox # <<>>
    BY DEF Shape, Serve, Take
  <2>2. m \in Messages
    BY <2>1
  <2>3. QED
    BY <2>2 DEF Messages
<1>2. CASE on_open(m) \/ on_change(m)
  <2>1. cache' = [cache EXCEPT ![m.file] = ModuleOf(m.text)] /\ docs' = [docs EXCEPT ![m.file] = m.text]
    BY <1>2 DEF on_open, on_change, validate, Serve
  <2>2. QED
    BY <1>1, <2>1 DEF CacheCurrent, Shape, ModuleOf
<1>3. CASE on_save(m)
  <2>1. cache' = [cache EXCEPT ![m.file] = ModuleOf(docs[m.file])] /\ docs' = [docs EXCEPT ![m.file] = docs[m.file]]
    BY <1>3 DEF on_save, validate, Serve
  <2>2. QED
    BY <1>1, <2>1 DEF CacheCurrent, Shape, ModuleOf
<1>4. CASE on_close(m)
  <2>1. cache' = cache /\ docs' = [docs EXCEPT ![m.file] = NotOpen]
    BY <1>4 DEF on_close, Serve
  <2>2. QED
    BY <1>1, <2>1 DEF CacheCurrent, Shape, ModuleOf
<1>5. CASE on_request(m)
  <2>1. cache' = cache /\ docs' = [docs EXCEPT ![m.file] = docs[m.file]]
    BY <1>5 DEF on_request, Serve
  <2>2. QED
    BY <1>1, <2>1 DEF CacheCurrent, Shape, ModuleOf
<1>6. QED
  BY <1>2, <1>3, <1>4, <1>5 DEF Serve

LEMMA ServeKeepsRegistries ==
  ASSUME Shape, Serve, CtxCurrent
  PROVE  CtxCurrent'
<1> DEFINE m == inbox[1]
<1> SUFFICES ASSUME ~foreign', NoSave', NEW r \in Roots PROVE ctx'[r] \in {NotScanned, Now(r)'}
  BY DEF CtxCurrent
<1>1. Now(r)' = Now(r)
  BY DEF Serve, Now
<1>2. CASE on_save(m)
  <2>1. ctx' = Unscanned \/ ctx' = get_project_ctx(Unscanned, m.file)
    BY <1>2 DEF on_save, validate
  <2>2. QED
    BY <1>1, <2>1, FreshIsUnscanned, ConsultedNow
<1>3. ASSUME on_open(m) \/ on_change(m) \/ on_close(m) \/ on_request(m) PROVE ctx'[r] \in {NotScanned, Now(r)'}
  <2>1. ctx' = ctx \/ ctx' = get_project_ctx(ctx, m.file)
    BY <1>3 DEF on_open, on_change, on_close, on_request, validate
  <2>2. foreign' = foreign /\ m.type # "save"
    BY <1>3 DEF on_open, on_change, on_close, on_request
  <2>3. NoSave
    <3> SUFFICES ASSUME NEW k \in DOMAIN inbox PROVE inbox[k].type # "save"
      BY DEF NoSave
    <3>1. CASE k = 1
      BY <2>2, <3>1
    <3>2. CASE k # 1
      <4>1. k - 1 \in DOMAIN inbox' /\ inbox'[k - 1] = inbox[k]
        BY <3>2 DEF Shape, Serve, Take
      <4>2. QED
        BY <4>1 DEF NoSave
    <3>3. QED
      BY <3>1, <3>2
  <2>4. ctx[r] \in {NotScanned, Now(r)}
    BY <2>2, <2>3 DEF CtxCurrent
  <2>5. QED
    BY <1>1, <2>1, <2>4, ConsultedNow
<1>4. QED
  BY <1>2, <1>3 DEF Serve

\* Without a save or a foreign change the disk stays.
LEMMA SendKeepsRegistries ==
  ASSUME Shape, CtxCurrent, Sends, UNCHANGED <<disk, foreign>>
  PROVE  CtxCurrent'
<1>1. NoSave' => NoSave
  <2> SUFFICES ASSUME NoSave', NEW k \in DOMAIN inbox PROVE inbox[k].type # "save"
    BY DEF NoSave
  <2>1. k \in DOMAIN inbox' /\ inbox'[k] = inbox[k]
    BY Told DEF Sends
  <2>2. QED
    BY <2>1 DEF NoSave
<1>2. ctx' = ctx /\ \A r \in Roots : Now(r)' = Now(r)
  BY DEF Sends, Now
<1>3. QED
  BY <1>1, <1>2 DEF CtxCurrent

\* A save on its way excuses the registries.
LEMMA SaveKeepsRegistries ==
  ASSUME Shape, NEW f \in Files, Save(f)
  PROVE  CtxCurrent'
<1> DEFINE m == Message("save", f, Absent)
<1>1. inbox' = Append(inbox, m) /\ m \in Messages /\ m.type = "save"
  BY SentMessages DEF Save, Tell, Message, Types
<1>2. inbox' \in Seq(Messages) /\ Len(inbox') = Len(inbox) + 1 /\ inbox'[Len(inbox) + 1] = m
  <2> HIDE DEF m
  <2>1. QED
    BY <1>1, Told
<1>3. Len(inbox) + 1 \in DOMAIN inbox'
  BY <1>2 DEF Shape
<1>4. ~NoSave'
  BY <1>1, <1>2, <1>3 DEF NoSave
<1>5. QED
  BY <1>4 DEF CtxCurrent

LEMMA CachesStep == Shape /\ CacheCurrent /\ CtxCurrent /\ [Next]_vars => CacheCurrent' /\ CtxCurrent'
<1> SUFFICES ASSUME Shape, CacheCurrent, CtxCurrent, [Next]_vars PROVE CacheCurrent' /\ CtxCurrent'
  OBVIOUS
<1>1. CASE Serve
  BY <1>1, ServeKeepsCaches, ServeKeepsRegistries
<1>2. ASSUME UNCHANGED <<docs, cache>> PROVE CacheCurrent'
  BY <1>2 DEF CacheCurrent, ModuleOf
<1>3. ASSUME NEW f \in Files, Open(f) \/ Close(f) \/ Request(f) PROVE CacheCurrent' /\ CtxCurrent'
  <2>1. Sends /\ UNCHANGED <<disk, foreign>>
    BY <1>3, EditorSends DEF Open, Close, Request
  <2>2. QED
    BY <1>2, <2>1, SendKeepsRegistries DEF Sends
<1>4. ASSUME NEW f \in Files, Save(f) PROVE CacheCurrent' /\ CtxCurrent'
  BY <1>2, <1>4, SaveKeepsRegistries DEF Save, Tell
<1>5. ASSUME NEW f \in Files, NEW t \in Texts[f], Edit(f, t) PROVE CacheCurrent' /\ CtxCurrent'
  <2>1. Sends /\ UNCHANGED <<disk, foreign>>
    BY <1>5, EditorSends DEF Edit
  <2>2. QED
    BY <1>2, <2>1, SendKeepsRegistries DEF Sends
<1>6. ASSUME NEW f \in Files, NEW t \in Texts[f], ChangeOutside(f, t) PROVE CacheCurrent' /\ CtxCurrent'
  BY <1>2, <1>6 DEF ChangeOutside, CtxCurrent
<1>7. CASE UNCHANGED vars
  <2>1. CtxCurrent' <=> CtxCurrent
    BY <1>7 DEF vars, CtxCurrent, NoSave, Now
  <2>2. QED
    BY <1>2, <1>7, <2>1 DEF vars
<1>8. QED
  BY <1>1, <1>3, <1>4, <1>5, <1>6, <1>7 DEF Next

\* The modules the server answers from are those of the open texts, and the
\* registries those of the disk, unless a save is on its way or another program
\* wrote to the disk (server.py _cache, _project_ctx).
THEOREM CachesCurrent == Spec => []CachesAreCurrent
<1>1. Init => CacheCurrent /\ CtxCurrent
  BY FreshIsUnscanned DEF Init, CacheCurrent, CtxCurrent
<1>2. CacheCurrent /\ CtxCurrent => CachesAreCurrent
  BY DEF CacheCurrent, CtxCurrent, NoSave, CachesAreCurrent
<1>3. QED
  BY <1>1, <1>2, CachesStep, ShapeHolds, PTL DEF Spec

---------------------------------------------------------------------------
(* What a save publishes.                                                  *)

\* Only the server takes a message off the inbox.
LEMMA TakingIsServing == Shape /\ Take /\ [Next]_vars => Serve
<1> SUFFICES ASSUME Shape, Take, [Next]_vars, ~Serve PROVE FALSE
  OBVIOUS
<1>1. Len(inbox') < Len(inbox)
  BY DEF Shape, Take
<1>2. Sends => Len(inbox') = Len(inbox) + 1
  BY Told DEF Sends
<1>3. inbox' = inbox \/ Sends
  BY EditorSends DEF Next, vars, ChangeOutside
<1>4. QED
  BY <1>1, <1>2, <1>3 DEF Shape

\* The document saved is judged by the project on disk, whatever the server
\* knew of it before (server.py on_save: the clearing comes first).
THEOREM SavesAreJudgedFresh == Spec => SaveIsJudgedFresh
<1>1. Shape /\ [Next]_vars =>
        [\A f \in Files : Take /\ inbox[1].type = "save" /\ inbox[1].file = f =>
           published'[f] \in {Syntax, emit(docs'[f], Now(RootOf[f]))}]_vars
  <2> SUFFICES ASSUME Shape, [Next]_vars, NEW f \in Files, Take, inbox[1].type = "save", inbox[1].file = f
               PROVE  published'[f] \in {Syntax, emit(docs'[f], Now(RootOf[f]))}
    OBVIOUS
  <2> DEFINE m == inbox[1]
  <2>1. on_save(m) /\ docs' = [docs EXCEPT ![f] = docs[f]]
    BY TakingIsServing DEF Serve, on_open, on_change, on_close, on_request
  <2>2. docs'[f] = docs[f]
    BY <2>1 DEF Shape
  <2>3. RootOf[f] \in Roots
    BY ProjectAssumption
  <2>4. Consulted(Unscanned, f) = Now(RootOf[f])
    BY <2>3, FreshIsUnscanned DEF Consulted, Now
  <2>5. published'[f] \in {Syntax, emit(docs[f], Consulted(Unscanned, f))}
    BY <2>1 DEF on_save, validate, Shape
  <2>6. QED
    BY <2>2, <2>4, <2>5
<1>2. QED
  BY <1>1, ShapeHolds, PTL DEF Spec, SaveIsJudgedFresh

---------------------------------------------------------------------------
(* The gate of the compiler and the clause of the package.                 *)

\* The image of 1 .. n, whatever the entries.
LEMMA FiniteImage ==
  ASSUME NEW S, IsFiniteSet(S), NEW f, DOMAIN f = S, NEW T \in SUBSET {f[x] : x \in S}
  PROVE  IsFiniteSet(T)
<1> DEFINE I == {f[x] : x \in S}
           g == [x \in S |-> f[x]]
<1>1. g \in Surjection(S, I)
  BY DEF Surjection
<1>2. IsFiniteSet(I)
  BY <1>1, FS_Surjection
<1>3. QED
  BY <1>2, FS_Subset

\* The registry of modules is finite: every file of the walk enters it under
\* two names at most.
LEMMA FiniteModules ==
  ASSUME NEW r \in Roots
  PROVE  IsFiniteSet(DOMAIN Modules(r))
<1> DEFINE files == {i \in Scanned(disk, r) : ~Annotated(At(disk, r, i), "stub")}
           named == [i \in files |-> Names(Header(At(disk, r, i)))]
<1>1. DOMAIN Modules(r) = UNION {Names(Header(At(disk, r, i))) : i \in files}
  BY DEF Modules, scan_project_modules
<1>2. IsFiniteSet(files)
  <2>1. Walk[r] \in Seq([file : Files, dirs : Seq(STRING)])
    BY ProjectAssumption
  <2>2. DOMAIN Walk[r] = 1 .. Len(Walk[r]) /\ Len(Walk[r]) \in Nat
    BY <2>1
  <2>3. IsFiniteSet(DOMAIN Walk[r])
    <3>1. 1 \in Int /\ Len(Walk[r]) \in Int
      BY <2>2
    <3>2. IsFiniteSet(1 .. Len(Walk[r]))
      BY <3>1, FS_Interval
    <3>3. QED
      BY <2>2, <3>2
  <2>4. files \subseteq DOMAIN Walk[r]
    BY DEF Scanned, Walked
  <2>5. QED
    BY <2>3, <2>4, FS_Subset
<1>3. IsFiniteSet({named[i] : i \in files})
  <2>1. DOMAIN named = files
    OBVIOUS
  <2> HIDE DEF named, files
  <2>2. QED
    BY <1>2, <2>1, FiniteImage
<1>4. \A N \in {named[i] : i \in files} : IsFiniteSet(N)
  <2>1. \A h : IsFiniteSet(Names(h))
    <3> SUFFICES ASSUME NEW h PROVE IsFiniteSet(Names(h))
      OBVIOUS
    <3>1. IsFiniteSet({package_name(h)}) /\ Names(h) = {package_name(h)} \cup {short_name(h)}
      BY FS_Singleton DEF Names
    <3>2. QED
      BY <3>1, FS_AddElement
  <2>2. QED
    BY <2>1
<1>5. {named[i] : i \in files} = {Names(Header(At(disk, r, i))) : i \in files}
  OBVIOUS
<1>6. QED
  BY <1>1, <1>3, <1>4, <1>5, FS_UNION

\* What a registry holds of a module is not what a script calls itself.
LEMMA ScriptIsNoModule ==
  ASSUME NEW r \in Roots, NEW n \in Infos(Modules(r))
  PROVE  n # Script
<1>1. PICK k \in DOMAIN Modules(r) : n = Modules(r)[k]
  BY DEF Infos
<1>2. \E s, p, o : n = [schema |-> s, path |-> p, is_open |-> o]
  BY <1>1 DEF Modules, scan_project_modules
<1>3. "is_open" \in DOMAIN n /\ "is_open" \notin DOMAIN Script
  BY <1>2 DEF Script
<1>4. QED
  BY <1>3

\* A domain has members besides the target just when it has two packages.
LEMMA LonePackage ==
  ASSUME NEW m, IsFiniteSet(DOMAIN m), NEW target \in Infos(m)
  PROVE  Cardinality({package_name(n) : n \in {n \in Infos(m) : domain_key(n) = domain_key(target)}}) <= 1
           <=> {n \in Infos(m) : domain_key(n) = domain_key(target) /\ package_name(n) # package_name(target)} = {}
<1> DEFINE pkgs == {package_name(n) : n \in {n \in Infos(m) : domain_key(n) = domain_key(target)}}
           members == {n \in Infos(m) : domain_key(n) = domain_key(target) /\ package_name(n) # package_name(target)}
           name == [k \in DOMAIN m |-> package_name(m[k])]
<1> SUFFICES Cardinality(pkgs) <= 1 <=> members = {}
  OBVIOUS
<1>1. IsFiniteSet(pkgs)
  <2>1. pkgs \subseteq {name[k] : k \in DOMAIN m}
    BY DEF Infos
  <2>2. DOMAIN name = DOMAIN m
    OBVIOUS
  <2> HIDE DEF name
  <2>3. QED
    BY <2>1, <2>2, FiniteImage
<1>2. package_name(target) \in pkgs
  OBVIOUS
<1>3. CASE members = {}
  <2>1. pkgs = {package_name(target)}
    BY <1>3
  <2>2. QED
    BY <1>3, <2>1, FS_Singleton
<1>4. CASE members # {}
  <2>1. PICK n \in members : TRUE
    BY <1>4
  <2>2. package_name(n) \in pkgs /\ package_name(n) # package_name(target)
    OBVIOUS
  <2> HIDE DEF pkgs, members
  <2>3. Cardinality(pkgs) \in Nat
    BY <1>1, FS_CardinalityType
  <2>4. Cardinality(pkgs) # 0
    BY <1>1, <1>2, FS_EmptySet
  <2>5. ~ \E x : pkgs = {x}
    BY <1>2, <2>2
  <2>6. Cardinality(pkgs) # 1
    BY <1>1, <2>5, FS_Singleton
  <2>7. QED
    BY <1>4, <2>3, <2>4, <2>6
<1>5. QED
  BY <1>3, <1>4

\* The compiler lets a call pass just when Oracle, by the clause the package of
\* the callee is installed with, would compile the caller (emitter.py
\* _check_pkg_accessible, _accessible_by_clause).
THEOREM GateIsTheClause == Spec => []GateMatchesClause
<1>1. GateMatchesClause
  <2> SUFFICES ASSUME NEW r \in Roots, Distinct(Modules(r)), NEW pkg \in DOMAIN Modules(r)
               PROVE  LET m == Modules(r)
                          clause == accessible_by_clause(m, m[pkg], m[pkg].is_open)
                      IN /\ check_pkg_accessible(m, Script, pkg) <=> clause = {}
                         /\ \A h \in Infos(m) : check_pkg_accessible(m, h, pkg)
                              <=> OracleAdmits(clause, qualified_name(h), qualified_name(m[pkg]))
    BY DEF GateMatchesClause
  <2> DEFINE m == Modules(r)
             target == m[pkg]
             members == {n \in Infos(m) : domain_key(n) = domain_key(target) /\ package_name(n) # package_name(target)}
             pkgs == {package_name(n) : n \in {n \in Infos(m) : domain_key(n) = domain_key(target)}}
             clause == accessible_by_clause(m, target, target.is_open)
             public == is_root_module(target) \/ target.is_open \/ ~domain_has_root(m, domain_key(target))
  <2>1. target \in Infos(m)
    BY DEF Infos
  <2>2. clause = IF public THEN {} ELSE {qualified_name(n) : n \in members}
    BY DEF accessible_by_clause
  <2>3. \A h : check_pkg_accessible(m, h, pkg) <=>
                 public \/ Cardinality(pkgs) <= 1 \/ (h # Script /\ domain_key(h) = domain_key(target))
    BY DEF check_pkg_accessible
  <2>4. Cardinality(pkgs) <= 1 <=> members = {}
    <3>1. IsFiniteSet(DOMAIN m)
      BY FiniteModules
    <3> HIDE DEF m
    <3>2. target \in Infos(m)
      BY <2>1 DEF m
    <3>3. QED
      BY <3>1, <3>2, LonePackage
  <2>5. clause = {} <=> public \/ members = {}
    BY <2>2
  <2>6. \A n, o \in Infos(m) : package_name(n) = package_name(o) => n = o
    BY DEF Distinct
  <2>7. \A n, o : qualified_name(n) = qualified_name(o) => package_name(n) = package_name(o)
    BY DEF qualified_name
  <2>8. ASSUME NEW h \in Infos(m), ~public, members # {}
        PROVE  domain_key(h) = domain_key(target)
                 <=> qualified_name(h) = qualified_name(target) \/ qualified_name(h) \in clause
    <3>1. CASE domain_key(h) = domain_key(target)
      BY <2>1, <2>2, <2>6, <2>8, <3>1
    <3>2. CASE qualified_name(h) = qualified_name(target)
      BY <2>1, <2>6, <2>7, <3>2
    <3>3. CASE qualified_name(h) \in clause
      <4>1. PICK n \in members : qualified_name(h) = qualified_name(n)
        BY <2>2, <2>8, <3>3
      <4>2. h = n
        BY <2>6, <2>7, <4>1
      <4>3. domain_key(n) = domain_key(target)
        OBVIOUS
      <4>4. QED
        BY <3>3, <4>2, <4>3
    <3>4. QED
      BY <3>1, <3>2, <3>3
  <2> HIDE DEF m, members, pkgs, clause, public
  <2>9. check_pkg_accessible(m, Script, pkg) <=> clause = {}
    BY <2>3, <2>4, <2>5
  <2>10. ASSUME NEW h \in Infos(m)
         PROVE  check_pkg_accessible(m, h, pkg) <=> OracleAdmits(clause, qualified_name(h), qualified_name(target))
    <3>1. h # Script
      BY ScriptIsNoModule DEF m
    <3>2. QED
      BY <2>3, <2>4, <2>5, <2>8, <3>1 DEF OracleAdmits
  <2>11. QED
    BY <2>9, <2>10 DEF m, clause
<1>2. QED
  BY <1>1, PTL

---------------------------------------------------------------------------
(* From a call to the definition and back.                                 *)

\* A set of numbers up to n has a largest.
LEMMA Largest ==
  ASSUME NEW n \in Nat, NEW S \in SUBSET (0 .. n), S # {}
  PROVE  \E m \in S : \A k \in S : k <= m
<1> DEFINE left == {n - k : k \in S}
<1>1. left \subseteq Nat /\ left # {}
  <2>1. \A k \in S : k \in 0 .. n
    OBVIOUS
  <2>2. \A k \in 0 .. n : n - k \in Nat
    OBVIOUS
  <2>3. left \subseteq Nat
    BY <2>1, <2>2
  <2>4. left # {}
    OBVIOUS
  <2> QED BY <2>3, <2>4
<1>2. PICK x \in left : \A y \in left : <<y, x>> \notin OpToRel(<, Nat)
  BY <1>1, WFMin, NatLessThanWellFounded
<1>3. PICK m \in S : x = n - m
  OBVIOUS
<1>4. \A k \in S : k <= m
  <2> SUFFICES ASSUME NEW k \in S PROVE k <= m
    OBVIOUS
  <2>1. n - k \in left /\ n - k \in Nat /\ x \in Nat
    BY <1>1
  <2>2. ~(n - k < x)
    BY <1>2, <2>1 DEF OpToRel
  <2> QED BY <1>3, <2>2
<1> QED BY <1>4

\* The last of finitely many sites: the last file, and the last line in it.
LEMMA LastOfIs ==
  ASSUME NEW n \in Nat, NEW m \in [1 .. n -> Nat],
         NEW S, S # {}, \A s \in S : s[1] \in 1 .. n /\ s[2] \in 1 .. m[s[1]]
  PROVE  LastOf(S) \in S
<1> DEFINE firsts == {s[1] : s \in S}
<1>1. firsts \in SUBSET (0 .. n) /\ firsts # {}
  OBVIOUS
<1>2. PICK i \in firsts : \A k \in firsts : k <= i
  BY <1>1, Largest
<1> DEFINE rows == {s \in S : s[1] = i}
           seconds == {s[2] : s \in rows}
<1>3. i \in 1 .. n /\ m[i] \in Nat
  OBVIOUS
<1>4. seconds \in SUBSET (0 .. m[i]) /\ seconds # {}
  BY <1>3
<1>5. PICK j \in seconds : \A k \in seconds : k <= j
  BY <1>3, <1>4, Largest
<1>6. PICK s \in rows : s[2] = j
  OBVIOUS
<1>7. \A o \in S : o[1] < s[1] \/ (o[1] = s[1] /\ o[2] <= s[2])
  <2> SUFFICES ASSUME NEW o \in S PROVE o[1] < s[1] \/ (o[1] = s[1] /\ o[2] <= s[2])
    OBVIOUS
  <2>1. o[1] <= i /\ s[1] = i /\ o[1] \in Nat /\ i \in Nat
    BY <1>2, <1>3
  <2>2. o[1] = i => o[2] \in seconds
    OBVIOUS
  <2>3. o[1] = i => o[2] <= s[2]
    BY <1>5, <1>6, <2>2
  <2> QED BY <2>1, <2>3
<1> QED BY <1>6, <1>7 DEF LastOf

\* Texts are sequences of lines; a module that parses has a path that mangles.
Calls == [is : {"call"}, path : Seq(STRING), name : STRING, dotted : BOOLEAN, bound : BOOLEAN]
LEMMA TextsAre ==
  ASSUME NEW t \in AllTexts
  PROVE  /\ t \in Seq({t[i] : i \in DOMAIN t})
         /\ Len(t) \in Nat /\ DOMAIN t = 1 .. Len(t)
         /\ parse(t) => Header(t).path \in DOMAIN Mangled
         /\ \A j \in LinesOf(t, {"call"}) : t[j] \in Calls
<1>1. CASE t = Absent
  <2>1. Len(t) = 0 /\ DOMAIN t = {} /\ t \in Seq({t[i] : i \in DOMAIN t})
    BY <1>1 DEF Absent
  <2>2. DOMAIN t = 1 .. Len(t)
    BY <2>1
  <2>3. ~parse(t) /\ LinesOf(t, {"call"}) = {}
    BY <2>1 DEF parse, LinesOf
  <2> QED BY <2>1, <2>2, <2>3
<1>2. CASE \E f \in Files : t \in Texts[f]
  <2>1. /\ t \in Seq({t[k] : k \in DOMAIN t})
        /\ \A k \in LinesOf(t, {"call"}) : t[k] \in Calls
        /\ \A k \in LinesOf(t, {"module"}) : t[k].path \in DOMAIN Mangled
    BY <1>2, TextsAssumption DEF Calls
  <2>2. parse(t) => Header(t).path \in DOMAIN Mangled
    BY <2>1 DEF parse, Header
  <2>3. Len(t) \in Nat /\ DOMAIN t = 1 .. Len(t)
    BY <2>1
  <2> QED BY <2>1, <2>2, <2>3
<1> QED BY <1>1, <1>2 DEF AllTexts

LEMMA WalkedTexts ==
  ASSUME Shape, NEW r \in Roots
  PROVE  /\ Len(Walk[r]) \in Nat /\ DOMAIN Walk[r] = 1 .. Len(Walk[r])
         /\ \A i \in DOMAIN Walk[r] : /\ Len(At(disk, r, i)) \in Nat
                                      /\ DOMAIN At(disk, r, i) = 1 .. Len(At(disk, r, i))
                                      /\ parse(At(disk, r, i)) => HeaderOf(r, i).path \in DOMAIN Mangled
                                      /\ \A j \in LinesOf(At(disk, r, i), {"call"}) : At(disk, r, i)[j] \in Calls
<1>1. Walk[r] \in Seq([file : Files, dirs : Seq(STRING)])
  BY ProjectAssumption
<1>2. Len(Walk[r]) \in Nat /\ DOMAIN Walk[r] = 1 .. Len(Walk[r])
  BY <1>1
<1>3. ASSUME NEW i \in DOMAIN Walk[r] PROVE At(disk, r, i) \in AllTexts
  <2>1. Walk[r][i] \in [file : Files, dirs : Seq(STRING)]
    BY <1>1, <1>2, ElementOfSeq
  <2>2. Walk[r][i].file \in Files
    BY <2>1
  <2> QED BY <2>2 DEF Shape, At
<1>4. ASSUME NEW i \in DOMAIN Walk[r]
      PROVE  /\ Len(At(disk, r, i)) \in Nat
             /\ DOMAIN At(disk, r, i) = 1 .. Len(At(disk, r, i))
             /\ parse(At(disk, r, i)) => HeaderOf(r, i).path \in DOMAIN Mangled
             /\ \A j \in LinesOf(At(disk, r, i), {"call"}) : At(disk, r, i)[j] \in Calls
  BY <1>3, TextsAre DEF HeaderOf
<1> QED BY <1>2, <1>4

Exported == {"fn", "record", "error", "aggregate"}
ExportSites(r) == {s \in Sites(disk, r, Scanned(disk, r)) : IsPublic(LineAt(disk, r, s), Exported)}
KeysOf(r, s) == Names(HeaderOf(r, s[1])) \X {LineAt(disk, r, s).name}

LEMMA SitesAre ==
  ASSUME NEW r \in Roots, NEW files
  PROVE  \A s : s \in Sites(disk, r, files) <=>
                  s = <<s[1], s[2]>> /\ s[1] \in files /\ s[2] \in DOMAIN At(disk, r, s[1])
BY DEF Sites

\* The registry of definitions: what it knows, and that what it says of a key
\* is the place of an export that has the key.
LEMMA DefinitionsAre ==
  ASSUME Shape, NEW r \in Roots
  PROVE  /\ \A k : k \in DOMAIN Now(r).defs <=> \E s \in ExportSites(r) : k \in KeysOf(r, s)
         /\ \A k \in DOMAIN Now(r).defs : \E s \in ExportSites(r) :
              k \in KeysOf(r, s) /\ Now(r).defs[k] = Place(Walk[r][s[1]].file, s[2])
<1> DEFINE having(k) == {s \in ExportSites(r) : k \in KeysOf(r, s)}
           D == [k \in UNION {KeysOf(r, s) : s \in ExportSites(r)} |->
                   Place(Walk[r][LastOf(having(k))[1]].file, LastOf(having(k))[2])]
<1>1. Now(r).defs = D
  BY DEF Now, scan_project, scan_project_definitions, Dictionary, ExportSites, Exported, KeysOf, HeaderOf, Place
<1>2. ASSUME NEW k \in DOMAIN D PROVE LastOf(having(k)) \in having(k)
  <2> DEFINE n == Len(Walk[r])
             m == [i \in 1 .. n |-> Len(At(disk, r, i))]
  <2>1. n \in Nat /\ m \in [1 .. n -> Nat]
    BY WalkedTexts
  <2>2. \A s \in ExportSites(r) : s[1] \in 1 .. n /\ s[2] \in 1 .. m[s[1]]
    <3> SUFFICES ASSUME NEW s \in ExportSites(r) PROVE s[1] \in 1 .. n /\ s[2] \in 1 .. m[s[1]]
      OBVIOUS
    <3>1. s[1] \in Scanned(disk, r) /\ s[2] \in DOMAIN At(disk, r, s[1])
      BY SitesAre DEF ExportSites
    <3>2. s[1] \in DOMAIN Walk[r]
      BY <3>1 DEF Scanned, Walked
    <3> QED BY <3>1, <3>2, WalkedTexts
  <2>3. having(k) # {} /\ \A s \in having(k) : s[1] \in 1 .. n /\ s[2] \in 1 .. m[s[1]]
    BY <1>2, <2>2
  <2> HIDE DEF n, m, having
  <2> QED BY <2>1, <2>3, LastOfIs
<1> QED BY <1>1, <1>2

\* The exporters of a name, by their sites.
LEMMA ExportersAre ==
  ASSUME NEW r \in Roots, NEW w
  PROVE  /\ \A s \in ExportSites(r) : LineAt(disk, r, s).name = w => s[1] \in Exporters(r, w)
         /\ \A e \in Exporters(r, w) : \E s \in ExportSites(r) : s[1] = e /\ LineAt(disk, r, s).name = w
<1>1. ASSUME NEW s \in ExportSites(r), LineAt(disk, r, s).name = w PROVE s[1] \in Exporters(r, w)
  <2>1. s[1] \in Scanned(disk, r) /\ s[2] \in DOMAIN At(disk, r, s[1])
    BY SitesAre DEF ExportSites
  <2> QED BY <1>1, <2>1 DEF ExportSites, Exporters, LineAt, Exported
<1>2. ASSUME NEW e \in Exporters(r, w) PROVE \E s \in ExportSites(r) : s[1] = e /\ LineAt(disk, r, s).name = w
  <2>1. PICK j \in DOMAIN At(disk, r, e) : IsPublic(At(disk, r, e)[j], Exported) /\ At(disk, r, e)[j].name = w
    BY DEF Exporters, Exported
  <2>2. e \in Scanned(disk, r)
    BY DEF Exporters
  <2>3. <<e, j>> \in Sites(disk, r, Scanned(disk, r))
    BY <2>1, <2>2 DEF Sites
  <2> QED BY <2>1, <2>3 DEF ExportSites, LineAt
<1> QED BY <1>1, <1>2

\* The last of a sequence, and a sequence of one.
LEMMA LastAndOnly ==
  ASSUME NEW S, NEW p \in Seq(S), p # <<>>
  PROVE  /\ Len(p) \in Nat /\ p[Len(p)] \in S
         /\ \A q : Len(p) = 1 /\ p[1] = q <=> p = <<q>>
<1>1. Len(p) \in Nat /\ Len(p) # 0 /\ DOMAIN p = 1 .. Len(p)
  BY EmptySeq, LenProperties
<1>2. p[Len(p)] \in S
  BY <1>1, ElementOfSeq
<1>3. ASSUME NEW q, Len(p) = 1, p[1] = q PROVE p = <<q>>
  <2>1. q \in S /\ <<q>> \in Seq(S) /\ Len(<<q>>) = 1 /\ <<q>>[1] = q
    BY <1>2, <1>3
  <2>2. \A k \in 1 .. Len(p) : p[k] = <<q>>[k]
    BY <1>3, <2>1
  <2> QED BY <1>3, <2>1, <2>2, SeqEqual
<1>4. \A q : Len(<<q>>) = 1 /\ <<q>>[1] = q
  OBVIOUS
<1> QED BY <1>1, <1>2, <1>3, <1>4

\* What a module may be called by: no name is empty, and one that is all its
\* names are is its path.
LEMMA NamesAre ==
  ASSUME Shape, NEW r \in Roots, NEW e \in Scanned(disk, r)
  PROVE  /\ "" \notin Names(HeaderOf(r, e))
         /\ \A q \in Names(HeaderOf(r, e)) : Names(HeaderOf(r, e)) = {q} <=> HeaderOf(r, e).path = <<q>>
<1> DEFINE p == HeaderOf(r, e).path
<1>1. p \in DOMAIN Mangled
  BY WalkedTexts DEF Scanned, Walked
<1>2. /\ p \in Seq(STRING \ {""}) /\ p # <<>>
      /\ Mangled[p] \in STRING \ {""}
      /\ Mangled[p] = p[Len(p)] <=> Len(p) = 1
  BY <1>1, MangledAssumption
<1>3. Names(HeaderOf(r, e)) = {Mangled[p], p[Len(p)]}
  BY DEF Names, package_name, short_name
<1> HIDE DEF p
<1>4. p[Len(p)] \in STRING \ {""} /\ \A q : Len(p) = 1 /\ p[1] = q <=> p = <<q>>
  <2> DEFINE W == STRING \ {""}
  <2>1. p \in Seq(W) /\ p # <<>>
    BY <1>2
  <2> HIDE DEF W
  <2>2. p[Len(p)] \in W /\ \A q : Len(p) = 1 /\ p[1] = q <=> p = <<q>>
    BY <2>1, LastAndOnly
  <2> QED BY <2>2 DEF W
<1>5. \A a, b : \A q \in {a, b} : {a, b} = {q} <=> a = b
  OBVIOUS
<1>6. \A q \in Names(HeaderOf(r, e)) : Names(HeaderOf(r, e)) = {q} <=> Mangled[p] = p[Len(p)]
  <2> DEFINE a == Mangled[p]
             b == p[Len(p)]
  <2>1. Names(HeaderOf(r, e)) = {a, b} /\ \A q \in {a, b} : {a, b} = {q} <=> a = b
    BY <1>3, <1>5
  <2> HIDE DEF a, b
  <2>2. \A q \in Names(HeaderOf(r, e)) : Names(HeaderOf(r, e)) = {q} <=> a = b
    BY <2>1
  <2> QED BY <2>2 DEF a, b
<1>7. ASSUME NEW q \in Names(HeaderOf(r, e)) PROVE Names(HeaderOf(r, e)) = {q} <=> p = <<q>>
  <2>1. ASSUME Len(p) = 1 PROVE q = p[1]
    <3>1. Mangled[p] = p[1] /\ p[Len(p)] = p[1]
      BY <1>2, <2>1
    <3> QED BY <1>3, <1>7, <3>1
  <2> QED BY <1>2, <1>4, <1>6, <2>1
<1> QED BY <1>2, <1>3, <1>4, <1>7 DEF p

\* The names under which a name is known are those of its exporters.
Owners(r, w) == {k[1] : k \in {k \in DOMAIN Now(r).defs : k[2] = w}}
LEMMA OwnersAre ==
  ASSUME Shape, NEW r \in Roots, NEW w
  PROVE  /\ Owners(r, w) = UNION {Names(HeaderOf(r, e)) : e \in Exporters(r, w)}
         /\ IsFiniteSet(Owners(r, w))
<1>1. ASSUME NEW k \in DOMAIN Now(r).defs, k[2] = w
      PROVE  \E e \in Exporters(r, w) : k[1] \in Names(HeaderOf(r, e))
  <2>1. PICK s \in ExportSites(r) : k \in KeysOf(r, s)
    BY DefinitionsAre
  <2>2. k[1] \in Names(HeaderOf(r, s[1])) /\ LineAt(disk, r, s).name = w
    BY <1>1, <2>1 DEF KeysOf
  <2> QED BY <2>2, ExportersAre
<1>2. ASSUME NEW e \in Exporters(r, w), NEW q \in Names(HeaderOf(r, e))
      PROVE  <<q, w>> \in DOMAIN Now(r).defs
  <2>1. PICK s \in ExportSites(r) : s[1] = e /\ LineAt(disk, r, s).name = w
    BY ExportersAre
  <2>2. <<q, w>> \in KeysOf(r, s)
    BY <1>2, <2>1 DEF KeysOf
  <2> QED BY <2>2, DefinitionsAre
<1>3. ASSUME NEW e \in Exporters(r, w), NEW q \in Names(HeaderOf(r, e)) PROVE q \in Owners(r, w)
  <2>1. <<q, w>>[1] = q /\ <<q, w>>[2] = w
    OBVIOUS
  <2> QED BY <1>2, <1>3, <2>1 DEF Owners
<1>4. Owners(r, w) = UNION {Names(HeaderOf(r, e)) : e \in Exporters(r, w)}
  BY <1>1, <1>3 DEF Owners
<1>5. IsFiniteSet(Exporters(r, w))
  <2>1. Exporters(r, w) \subseteq DOMAIN Walk[r]
    BY DEF Exporters, Scanned, Walked
  <2>2. IsFiniteSet(DOMAIN Walk[r])
    <3>1. IsFiniteSet(1 .. Len(Walk[r]))
      BY WalkedTexts, FS_Interval
    <3> QED BY <3>1, WalkedTexts
  <2> QED BY <2>1, <2>2, FS_Subset
<1> DEFINE named == [e \in Exporters(r, w) |-> Names(HeaderOf(r, e))]
<1>6. IsFiniteSet({named[e] : e \in Exporters(r, w)})
  <2>1. DOMAIN named = Exporters(r, w)
    OBVIOUS
  <2> HIDE DEF named
  <2> QED BY <1>5, <2>1, FiniteImage
<1>7. \A h : IsFiniteSet(Names(h))
  <2> SUFFICES ASSUME NEW h PROVE IsFiniteSet(Names(h))
    OBVIOUS
  <2>1. IsFiniteSet({package_name(h)}) /\ Names(h) = {package_name(h)} \cup {short_name(h)}
    BY FS_Singleton DEF Names
  <2> QED BY <2>1, FS_AddElement
<1>8. {named[e] : e \in Exporters(r, w)} = {Names(HeaderOf(r, e)) : e \in Exporters(r, w)}
  OBVIOUS
<1>9. \A N \in {named[e] : e \in Exporters(r, w)} : IsFiniteSet(N)
  BY <1>7
<1> HIDE DEF named
<1> QED BY <1>4, <1>6, <1>8, <1>9, FS_UNION

\* One module alone has a name, and under one name.
LEMMA OneOwner ==
  ASSUME Shape, NEW r \in Roots, NEW w, NEW q \in Owners(r, w)
  PROVE  /\ Cardinality(Owners(r, w)) = 1 <=> Owners(r, w) = {q}
         /\ Owners(r, w) = {q} <=> \A e \in Exporters(r, w) : HeaderOf(r, e).path = <<q>>
<1>1. Cardinality(Owners(r, w)) = 1 <=> Owners(r, w) = {q}
  <2>1. IsFiniteSet(Owners(r, w))
    BY OwnersAre
  <2>2. Cardinality(Owners(r, w)) = 1 <=> \E x : Owners(r, w) = {x}
    BY <2>1, FS_Singleton
  <2> QED BY <2>2
<1>2. ASSUME NEW e \in Exporters(r, w) PROVE e \in Scanned(disk, r) /\ Names(HeaderOf(r, e)) # {}
  BY <1>2 DEF Exporters, Names
<1>3. ASSUME Owners(r, w) = {q}, NEW e \in Exporters(r, w) PROVE HeaderOf(r, e).path = <<q>>
  <2>1. Names(HeaderOf(r, e)) = {q}
    BY <1>2, <1>3, OwnersAre
  <2> QED BY <1>2, <2>1, NamesAre
<1>4. ASSUME \A e \in Exporters(r, w) : HeaderOf(r, e).path = <<q>> PROVE Owners(r, w) = {q}
  <2>1. ASSUME NEW e \in Exporters(r, w) PROVE Names(HeaderOf(r, e)) = {q}
    <3>1. HeaderOf(r, e).path = <<q>>
      BY <1>4, <2>1
    <3>2. q \in Names(HeaderOf(r, e))
      BY <3>1 DEF Names, short_name
    <3> QED BY <1>2, <3>1, <3>2, NamesAre
  <2> QED BY <2>1, OwnersAre
<1> QED BY <1>1, <1>3, <1>4

\* Completion offers what a module exports as a record or, where the scan of
\* signatures comes to, as a function.
LEMMA OfferedIsCompleted ==
  ASSUME NEW r \in Roots, NEW w, NEW i \in Scanned(disk, r), Offered(r, i, w)
  PROVE  w \in qualified_completions(Now(r), short_name(HeaderOf(r, i)))
<1> DEFINE q == short_name(HeaderOf(r, i))
<1>1. PICK j \in DOMAIN At(disk, r, i) :
        /\ At(disk, r, i)[j].name = w
        /\ \/ IsPublic(At(disk, r, i)[j], {"record"})
           \/ IsPublic(At(disk, r, i)[j], {"fn"}) /\ i \in ScannedForSignatures(disk, r)
  BY DEF Offered
<1> DEFINE s == <<i, j>>
<1>2. LineAt(disk, r, s) = At(disk, r, i)[j] /\ \A files : i \in files => s \in Sites(disk, r, files)
  BY DEF LineAt, Sites
<1>3. CASE IsPublic(At(disk, r, i)[j], {"record"})
  <2>1. s \in Sites(disk, r, Scanned(disk, r)) /\ IsPublic(LineAt(disk, r, s), {"record"})
    BY <1>2, <1>3
  <2>2. <<q, w>> \in Names(Header(At(disk, r, s[1]))) \X {LineAt(disk, r, s).name}
    BY <1>1, <1>2 DEF Names, HeaderOf
  <2>3. <<q, w>> \in DOMAIN Now(r).recs
    <3> HIDE DEF s, q
    <3> QED BY <2>1, <2>2 DEF Now, scan_project, scan_project_records, Dictionary
  <2>4. <<q, w>>[1] = q /\ <<q, w>>[2] = w
    OBVIOUS
  <2> HIDE DEF q
  <2>5. w \in qualified_completions(Now(r), q)
    BY <2>3, <2>4 DEF qualified_completions
  <2> QED BY <2>5 DEF q
<1>4. CASE IsPublic(At(disk, r, i)[j], {"fn"}) /\ i \in ScannedForSignatures(disk, r)
  <2>1. s \in Sites(disk, r, ScannedForSignatures(disk, r)) /\ IsPublic(LineAt(disk, r, s), {"fn"})
    BY <1>2, <1>4
  <2>2. <<<<q>>, w>> \in {Header(At(disk, r, s[1])).path, <<short_name(Header(At(disk, r, s[1])))>>}
                           \X {LineAt(disk, r, s).name}
    BY <1>1, <1>2 DEF HeaderOf
  <2>3. <<<<q>>, w>> \in DOMAIN Now(r).sigs
    <3> HIDE DEF s, q
    <3> QED BY <2>1, <2>2 DEF Now, scan_project, scan_project_signatures, Dictionary
  <2>4. <<<<q>>, w>>[1] = <<q>> /\ <<<<q>>, w>>[2] = w
    OBVIOUS
  <2> HIDE DEF q
  <2>5. w \in qualified_completions(Now(r), q)
    BY <2>3, <2>4 DEF qualified_completions
  <2> QED BY <2>5 DEF q
<1> QED BY <1>1, <1>3, <1>4

\* A call with one qualifier is recorded as a use of the name it qualifies.
LEMMA CallIsReferred ==
  ASSUME NEW r \in Roots, NEW s \in Sites(disk, r, Walked(r)),
         LineAt(disk, r, s).is = "call", ~LineAt(disk, r, s).dotted, Len(LineAt(disk, r, s).path) = 1,
         LineAt(disk, r, s).path \in Seq(STRING)
  PROVE  LET k == <<LineAt(disk, r, s).path[1], LineAt(disk, r, s).name>>
         IN k \in DOMAIN Now(r).refs /\ Place(Walk[r][s[1]].file, s[2]) \in Now(r).refs[k]
<1> DEFINE l == LineAt(disk, r, s)
           k == <<l.path[1], l.name>>
<1>1. k \in RefsIn(l)
  <2> DEFINE names == l.path \o <<l.name>>
  <2>1. Len(names) = 2 /\ names[1] = l.path[1] /\ names[2] = l.name
    OBVIOUS
  <2> HIDE DEF names
  <2>2. 1 \in {n \in 1 .. Len(names) - 1 : n % 2 = 1}
    BY <2>1
  <2>3. k \in {<<names[n], names[n + 1]>> : n \in {n \in 1 .. Len(names) - 1 : n % 2 = 1}}
    BY <2>1, <2>2
  <2> QED BY <2>3 DEF RefsIn, names
<1> HIDE DEF k
<1>2. k \in DOMAIN Now(r).refs
  BY <1>1 DEF Now, scan_project, scan_project_references
<1>3. Now(r).refs[k] = {[file |-> Walk[r][o[1]].file, line |-> o[2]] :
                          o \in {o \in Sites(disk, r, Walked(r)) : k \in RefsIn(LineAt(disk, r, o))}}
  BY <1>1 DEF Now, scan_project, scan_project_references
<1>4. Place(Walk[r][s[1]].file, s[2]) \in Now(r).refs[k]
  BY <1>1, <1>3 DEF Place
<1> QED BY <1>2, <1>4 DEF k

LEMMA PairOf ==
  ASSUME NEW A, NEW B, NEW o \in A \X B
  PROVE  o = <<o[1], o[2]>>
OBVIOUS

\* From a use one gets to the definition in a module of the qualifier's name, if
\* the file has no item of the name.
LEMMA DefinitionIsFound ==
  ASSUME Shape, NEW r \in Roots, NEW f, NEW t, NEW w, NEW q, NEW n, NEW i \in Exporters(r, w),
         q \in Names(HeaderOf(r, i)), t[n].name = w, qualifier_before(t[n]) = q,
         \A j \in LocalDefs(t, {"fn", "record", "error"}) : t[j].name # w
  PROVE  \E s \in ExportSites(r) : /\ LineAt(disk, r, s).name = w /\ q \in Names(HeaderOf(r, s[1]))
                                   /\ on_definition(f, t, ModuleOf(t), Now(r), n)
                                        = {Place(Walk[r][s[1]].file, s[2])}
<1> DEFINE k == <<q, w>>
           keys == {o \in DOMAIN Now(r).defs : o[2] = w /\ q \in {"", o[1]}}
<1>1. k[1] = q /\ k[2] = w
  OBVIOUS
<1>2. k \in DOMAIN Now(r).defs
  <2>1. PICK s \in ExportSites(r) : s[1] = i /\ LineAt(disk, r, s).name = w
    BY ExportersAre
  <2>2. k \in KeysOf(r, s)
    BY <2>1 DEF KeysOf
  <2> QED BY <2>2, DefinitionsAre
<1>3. PICK s \in ExportSites(r) : k \in KeysOf(r, s) /\ Now(r).defs[k] = Place(Walk[r][s[1]].file, s[2])
  BY <1>2, DefinitionsAre
<1>4. LineAt(disk, r, s).name = w /\ q \in Names(HeaderOf(r, s[1]))
  BY <1>1, <1>3 DEF KeysOf
<1>5. q # ""
  <2>1. i \in Scanned(disk, r)
    BY DEF Exporters
  <2>2. "" \notin Names(HeaderOf(r, i))
    BY <2>1, NamesAre
  <2> QED BY <2>2
<1>6. keys = {k}
  <2>1. ASSUME NEW o \in keys PROVE o = k
    <3>1. PICK x \in ExportSites(r) : o \in KeysOf(r, x)
      BY DefinitionsAre
    <3>2. o = <<o[1], o[2]>>
      BY <3>1, PairOf DEF KeysOf
    <3> QED BY <1>5, <3>2
  <2>2. k \in keys
    BY <1>1, <1>2
  <2> QED BY <2>1, <2>2
<1> HIDE DEF keys, k
<1>7. Cardinality(keys) = 1
  BY <1>6, FS_Singleton
<1>8. {Now(r).defs[o] : o \in keys} = {Place(Walk[r][s[1]].file, s[2])}
  BY <1>3, <1>6
<1>9. (IF ModuleOf(t) = NoModule THEN {}
       ELSE {j \in LocalDefs(ModuleOf(t), {"fn", "record", "error"}) : ModuleOf(t)[j].name = w}) = {}
  BY DEF ModuleOf
<1>10. on_definition(f, t, ModuleOf(t), Now(r), n) = {Now(r).defs[o] : o \in keys}
  BY <1>7, <1>9 DEF on_definition, keys
<1> QED BY <1>4, <1>8, <1>10

\* From the definition of a name one gets to a place where it is used under
\* qualifier q just when one module has the name, under q.
LEMMA UsesOfOwner ==
  ASSUME Shape, NEW r \in Roots, NEW w, NEW q \in Owners(r, w), NEW s \in ExportSites(r),
         LineAt(disk, r, s).name = w, NEW place,
         <<q, w>> \in DOMAIN Now(r).refs, place \in Now(r).refs[<<q, w>>]
  PROVE  place \in on_references(At(disk, r, s[1]), Now(r), s[2])
           <=> \A e \in Exporters(r, w) : HeaderOf(r, e).path = <<q>>
<1> DEFINE t == At(disk, r, s[1])
           refs(k) == IF k \in DOMAIN Now(r).refs THEN Now(r).refs[k] ELSE {}
           pkg == CHOOSE p \in Owners(r, w) : TRUE
<1>1. t[s[2]].name = w /\ qualifier_before(t[s[2]]) = ""
  BY DEF ExportSites, IsPublic, LineAt, qualifier_before
<1>2. on_references(t, Now(r), s[2]) =
        IF Cardinality(Owners(r, w)) # 1 THEN {} ELSE refs(<<pkg, w>>) \cup refs(<<"", w>>)
  BY <1>1 DEF on_references, Owners
<1>3. CASE Cardinality(Owners(r, w)) = 1
  <2>1. Owners(r, w) = {q}
    BY <1>3, OneOwner
  <2>2. pkg = q
    BY <2>1
  <2>3. place \in refs(<<pkg, w>>)
    BY <2>2
  <2> QED BY <1>2, <1>3, <2>1, <2>3, OneOwner
<1>4. CASE Cardinality(Owners(r, w)) # 1
  BY <1>2, <1>4, OneOwner
<1> QED BY <1>3, <1>4

\* From a qualified call to the definition and back, and completion on the way
\* (on_definition, on_references, _completions_for_line_prefix), whatever files
\* the project has.
THEOREM NavigationCloses == Spec => []NavigationClosesTheLoop
<1>1. Shape => NavigationClosesTheLoop
  <2> SUFFICES ASSUME Shape, NEW r \in Roots, NEW s \in Sites(disk, r, Walked(r))
               PROVE  LET c == Now(r)
                          f == Walk[r][s[1]].file
                          t == At(disk, r, s[1])
                          l == LineAt(disk, r, s)
                          q == l.path[1]
                          named == {i \in Exporters(r, l.name) : q \in Names(HeaderOf(r, i))}
                          found == on_definition(f, t, ModuleOf(t), c, s[2])
                      IN l.is = "call" /\ ~l.dotted /\ Len(l.path) = 1 /\ named # {} =>
                         /\ (\E i \in named : q = short_name(HeaderOf(r, i)) /\ Offered(r, i, l.name))
                              => l.name \in qualified_completions(c, q)
                         /\ (\A j \in LocalDefs(t, {"fn", "record", "error"}) : t[j].name # l.name) =>
                              \E p \in found : \E i \in named :
                                /\ Walk[r][i].file = p.file /\ disk[p.file][p.line].name = l.name
                                /\ Place(f, s[2]) \in on_references(disk[p.file], c, p.line) <=>
                                     \A e \in Exporters(r, l.name) : HeaderOf(r, e).path = <<q>>
    BY DEF NavigationClosesTheLoop
  <2> DEFINE f == Walk[r][s[1]].file
             t == At(disk, r, s[1])
             l == LineAt(disk, r, s)
             q == l.path[1]
             w == l.name
             named == {i \in Exporters(r, w) : q \in Names(HeaderOf(r, i))}
             found == on_definition(f, t, ModuleOf(t), Now(r), s[2])
  <2> SUFFICES ASSUME l.is = "call", ~l.dotted, Len(l.path) = 1, named # {}
               PROVE  /\ (\E i \in named : q = short_name(HeaderOf(r, i)) /\ Offered(r, i, w))
                           => w \in qualified_completions(Now(r), q)
                      /\ (\A j \in LocalDefs(t, {"fn", "record", "error"}) : t[j].name # w) =>
                           \E p \in found : \E i \in named :
                             /\ Walk[r][i].file = p.file /\ disk[p.file][p.line].name = w
                             /\ Place(f, s[2]) \in on_references(disk[p.file], Now(r), p.line) <=>
                                  \A e \in Exporters(r, w) : HeaderOf(r, e).path = <<q>>
    OBVIOUS
  <2>1. t[s[2]] = l /\ s[1] \in DOMAIN Walk[r] /\ s[2] \in DOMAIN t
    BY SitesAre DEF LineAt, Walked
  <2>2. l.path \in Seq(STRING)
    <3>1. l \in Calls
      BY <2>1, WalkedTexts DEF LinesOf
    <3> QED BY <3>1 DEF Calls
  <2>3. qualifier_before(l) = q
    <3>1. l.path # <<>>
      BY <2>2
    <3> HIDE DEF l
    <3> QED BY <3>1 DEF qualifier_before
  <2>4. PICK i \in Exporters(r, w) : q \in Names(HeaderOf(r, i))
    OBVIOUS
  <2>5. q \in Owners(r, w)
    BY <2>4, OwnersAre
  <2>6. <<q, w>> \in DOMAIN Now(r).refs /\ Place(f, s[2]) \in Now(r).refs[<<q, w>>]
    BY <2>2, CallIsReferred
  <2>7. ASSUME NEW e \in named, q = short_name(HeaderOf(r, e)), Offered(r, e, w)
        PROVE  w \in qualified_completions(Now(r), q)
    <3>1. e \in Scanned(disk, r)
      BY DEF Exporters
    <3> QED BY <2>7, <3>1, OfferedIsCompleted
  <2>8. ASSUME \A j \in LocalDefs(t, {"fn", "record", "error"}) : t[j].name # w
        PROVE  \E p \in found : \E e \in named :
                 /\ Walk[r][e].file = p.file /\ disk[p.file][p.line].name = w
                 /\ Place(f, s[2]) \in on_references(disk[p.file], Now(r), p.line) <=>
                      \A x \in Exporters(r, w) : HeaderOf(r, x).path = <<q>>
    <3>1. PICK d \in ExportSites(r) : /\ LineAt(disk, r, d).name = w /\ q \in Names(HeaderOf(r, d[1]))
                                      /\ found = {Place(Walk[r][d[1]].file, d[2])}
      <4> HIDE DEF w, q, t, f
      <4>1. t[s[2]].name = w
        BY <2>1 DEF w
      <4>2. qualifier_before(t[s[2]]) = q
        BY <2>1, <2>3
      <4> QED BY <2>4, <2>8, <4>1, <4>2, DefinitionIsFound
    <3> DEFINE p == Place(Walk[r][d[1]].file, d[2])
    <3>2. p.file = Walk[r][d[1]].file /\ p.line = d[2]
      BY DEF Place
    <3>3. d[1] \in named
      BY <3>1, ExportersAre
    <3>4. disk[p.file] = At(disk, r, d[1]) /\ disk[p.file][p.line].name = w
      BY <3>1, <3>2 DEF At, LineAt
    <3>5. Place(f, s[2]) \in on_references(disk[p.file], Now(r), p.line) <=>
            \A x \in Exporters(r, w) : HeaderOf(r, x).path = <<q>>
      <4>1. Place(f, s[2]) \in on_references(At(disk, r, d[1]), Now(r), d[2]) <=>
              \A x \in Exporters(r, w) : HeaderOf(r, x).path = <<q>>
        <5> HIDE DEF w, q, f
        <5> QED BY <2>5, <2>6, <3>1, UsesOfOwner
      <4> QED BY <3>2, <3>4, <4>1
    <3> QED BY <3>1, <3>2, <3>3, <3>4, <3>5
  <2> HIDE DEF found, named, w, q, t, f, l
  <2> QED BY <2>7, <2>8
<1> QED BY <1>1, ShapeHolds, PTL

---------------------------------------------------------------------------
(* Fixes.                                                                  *)

IsText(t) == Len(t) \in Nat /\ DOMAIN t = 1 .. Len(t)

LEMMA LeastIs ==
  ASSUME NEW S \in SUBSET Nat, S # {}
  PROVE  Least(S) \in S /\ \A n \in S : Least(S) <= n
<1>1. PICK x \in S : \A y \in S : <<y, x>> \notin OpToRel(<, Nat)
  BY WFMin, NatLessThanWellFounded
<1>2. \A y \in S : x <= y
  <2> SUFFICES ASSUME NEW y \in S PROVE x <= y
    OBVIOUS
  <2>1. ~(y < x)
    BY <1>1 DEF OpToRel
  <2> QED BY <2>1
<1> QED BY <1>2 DEF Least

\* Where line j of a text is after a line was inserted at p, and what the
\* insertion of x makes of the text.
Moved(p, j) == IF j < p THEN j ELSE j + 1
Insertion(t, p, x, F) ==
  /\ IsText(t) /\ p \in 1 .. Len(t) + 1
  /\ IsText(F) /\ Len(F) = Len(t) + 1
  /\ F[p] = x /\ \A j \in DOMAIN t : F[Moved(p, j)] = t[j]

LEMMA InsertBeforeIs ==
  ASSUME NEW t, t \in Seq({t[i] : i \in DOMAIN t}), IsText(t), NEW p \in 1 .. Len(t) + 1, NEW x
  PROVE  Insertion(t, p, x, InsertBefore(t, p, x))
<1> DEFINE S == {t[i] : i \in DOMAIN t} \cup {x}
           before == SubSeq(t, 1, p - 1)
           after == SubSeq(t, p, Len(t))
           F == InsertBefore(t, p, x)
<1>1. Len(t) \in Nat /\ DOMAIN t = 1 .. Len(t) /\ \A i \in 1 .. Len(t) : t[i] \in S
  BY DEF IsText
<1> HIDE DEF S
<1>2. /\ before \in Seq(S) /\ Len(before) = p - 1
      /\ \A i \in 1 .. p - 1 : before[i] = t[i]
  <2>1. 1 \in Int /\ p - 1 \in Int /\ \A i \in 1 .. p - 1 : t[i] \in S
    BY <1>1
  <2> QED BY <1>1, <2>1, SubSeqProperties
<1>3. /\ after \in Seq(S) /\ Len(after) = Len(t) - p + 1
      /\ \A i \in 1 .. Len(t) - p + 1 : after[i] = t[p + i - 1]
  <2>1. p \in Int /\ Len(t) \in Int /\ \A i \in p .. Len(t) : t[i] \in S
    BY <1>1
  <2>2. /\ after \in Seq(S) /\ Len(after) = IF p <= Len(t) THEN Len(t) - p + 1 ELSE 0
        /\ \A i \in 1 .. Len(t) - p + 1 : after[i] = t[p + i - 1]
    BY <2>1, SubSeqProperties
  <2> QED BY <1>1, <2>2
<1>4. <<x>> \in Seq(S) /\ Len(<<x>>) = 1 /\ <<x>>[1] = x
  BY DEF S
<1> HIDE DEF before, after
<1> DEFINE front == before \o <<x>>
<1>5. /\ front \in Seq(S) /\ Len(front) = p
      /\ \A i \in 1 .. p : front[i] = IF i <= p - 1 THEN before[i] ELSE <<x>>[i - (p - 1)]
  BY <1>1, <1>2, <1>4, ConcatProperties
<1> HIDE DEF front
<1>6. /\ front \o after \in Seq(S) /\ Len(front \o after) = Len(t) + 1
      /\ \A i \in 1 .. Len(t) + 1 : (front \o after)[i] = IF i <= p THEN front[i] ELSE after[i - p]
  <2>1. /\ front \o after \in Seq(S) /\ Len(front \o after) = Len(front) + Len(after)
        /\ \A i \in 1 .. Len(front) + Len(after) :
             (front \o after)[i] = IF i <= Len(front) THEN front[i] ELSE after[i - Len(front)]
    BY <1>3, <1>5, ConcatProperties
  <2>2. Len(front) + Len(after) = Len(t) + 1
    BY <1>1, <1>3, <1>5
  <2> QED BY <1>5, <2>1, <2>2
<1>7. F = front \o after
  BY DEF InsertBefore, front, before, after
<1> HIDE DEF F
<1>8. DOMAIN F = 1 .. Len(F) /\ Len(F) \in Nat
  BY <1>6, <1>7, LenProperties
<1>9. F[p] = x
  BY <1>1, <1>4, <1>5, <1>6, <1>7
<1>10. ASSUME NEW j \in DOMAIN t PROVE F[Moved(p, j)] = t[j]
  <2>1. CASE j < p
    <3>1. j \in 1 .. p - 1 /\ j \in 1 .. p /\ j \in 1 .. Len(t) + 1 /\ j <= p /\ j <= p - 1
      BY <1>1, <2>1
    <3>2. F[j] = front[j] /\ front[j] = before[j] /\ before[j] = t[j]
      BY <1>2, <1>5, <1>6, <1>7, <3>1
    <3> QED BY <2>1, <3>2 DEF Moved
  <2>2. CASE ~(j < p)
    <3>1. j + 1 \in 1 .. Len(t) + 1 /\ ~(j + 1 <= p) /\ j + 1 - p \in 1 .. Len(t) - p + 1
      BY <1>1, <2>2
    <3>2. F[j + 1] = after[j + 1 - p]
      <4>1. \A i \in 1 .. Len(t) + 1 : ~(i <= p) => F[i] = after[i - p]
        BY <1>6, <1>7
      <4> QED BY <3>1, <4>1
    <3>3. after[j + 1 - p] = t[p + (j + 1 - p) - 1]
      BY <1>3, <3>1
    <3>4. p + (j + 1 - p) - 1 = j
      BY <1>1
    <3> QED BY <2>2, <3>2, <3>3, <3>4 DEF Moved
  <2> QED BY <2>1, <2>2
<1>11. IsText(t) /\ IsText(F) /\ Len(F) = Len(t) + 1
  BY <1>6, <1>7, <1>8 DEF IsText
<1>12. Insertion(t, p, x, F)
  BY <1>9, <1>10, <1>11 DEF Insertion
<1> QED BY <1>12 DEF F

\* Every line of the new text is the one inserted or a line of the old.
LEMMA OldOrNew ==
  ASSUME NEW t, NEW p, NEW x, NEW F, Insertion(t, p, x, F)
  PROVE  /\ p \in DOMAIN F
         /\ \A j \in DOMAIN t : Moved(p, j) \in DOMAIN F /\ Moved(p, j) # p
         /\ \A k \in DOMAIN F : k = p \/ \E j \in DOMAIN t : k = Moved(p, j)
         /\ \A i, j \in DOMAIN t : Moved(p, i) < Moved(p, j) <=> i < j
<1>1. /\ Len(t) \in Nat /\ DOMAIN t = 1 .. Len(t) /\ p \in 1 .. Len(t) + 1
      /\ DOMAIN F = 1 .. Len(t) + 1
  BY DEF Insertion, IsText
<1>2. ASSUME NEW k \in DOMAIN F, k # p PROVE \E j \in DOMAIN t : k = Moved(p, j)
  <2>1. CASE k < p
    <3>1. k \in DOMAIN t /\ Moved(p, k) = k
      BY <1>1, <2>1 DEF Moved
    <3> QED BY <3>1
  <2>2. CASE k > p
    <3>1. k - 1 \in DOMAIN t /\ Moved(p, k - 1) = k
      BY <1>1, <2>2 DEF Moved
    <3> QED BY <3>1
  <2> QED BY <1>1, <1>2, <2>1, <2>2
<1>3. \A j \in DOMAIN t : Moved(p, j) \in DOMAIN F /\ Moved(p, j) # p
  BY <1>1 DEF Moved
<1>4. \A i, j \in DOMAIN t : Moved(p, i) < Moved(p, j) <=> i < j
  BY <1>1 DEF Moved
<1> QED BY <1>1, <1>2, <1>3, <1>4

\* Lines that stand together do after an insertion that is not among them or is
\* of a statement.
Fitting(t, p, x) == x.is \in Statements \cup {"note"} \/ ~InBody(t, p)
LEMMA InsideMoves ==
  ASSUME NEW t, NEW p, NEW x, NEW F, Insertion(t, p, x, F), NEW a \in DOMAIN t, NEW b \in DOMAIN t,
         Inside(t, a, b), x.is \in Statements \cup {"note"} \/ ~(a < p /\ p <= b)
  PROVE  Inside(F, Moved(p, a), Moved(p, b))
<1>1. /\ Len(t) \in Nat /\ DOMAIN t = 1 .. Len(t) /\ p \in 1 .. Len(t) + 1
      /\ DOMAIN F = 1 .. Len(t) + 1
  BY DEF Insertion, IsText
<1> SUFFICES ASSUME NEW k \in Moved(p, a) + 1 .. Moved(p, b) - 1
             PROVE  F[k].is \in Statements \cup {"note"}
  BY DEF Inside
<1>2. Moved(p, a) \in 1 .. Len(t) + 1 /\ Moved(p, b) \in 1 .. Len(t) + 1
  BY <1>1 DEF Moved
<1>3. k \in DOMAIN F
  BY <1>1, <1>2
<1>4. CASE k = p
  <2>1. a < p /\ p <= b
    BY <1>1, <1>4 DEF Moved
  <2> QED BY <1>4, <2>1 DEF Insertion
<1>5. ASSUME NEW j \in DOMAIN t, k = Moved(p, j) PROVE F[k].is \in Statements \cup {"note"}
  <2>1. a < j /\ j < b
    BY <1>1, <1>5 DEF Moved
  <2>2. j \in a + 1 .. b - 1
    BY <1>1, <2>1
  <2>3. F[k] = t[j]
    BY <1>5 DEF Insertion
  <2> QED BY <2>2, <2>3 DEF Inside
<1> QED BY <1>3, <1>4, <1>5, OldOrNew

LEMMA FitsInside ==
  ASSUME NEW t, NEW p, NEW x, NEW F, Insertion(t, p, x, F), Fitting(t, p, x),
         NEW a \in DOMAIN t, NEW b \in DOMAIN t, Opens(t[a]), Inside(t, a, b)
  PROVE  Inside(F, Moved(p, a), Moved(p, b))
<1>1. /\ Len(t) \in Nat /\ DOMAIN t = 1 .. Len(t) /\ p \in 1 .. Len(t) + 1
  BY DEF Insertion, IsText
<1>2. ASSUME a < p, p <= b PROVE InBody(t, p)
  <2>1. a \in 1 .. p - 1
    BY <1>1, <1>2
  <2>2. \A k \in a + 1 .. p - 1 : k \in a + 1 .. b - 1
    BY <1>1, <1>2
  <2>3. Inside(t, a, p)
    BY <2>2 DEF Inside
  <2> QED BY <2>1, <2>3 DEF InBody
<1> QED BY <1>2, InsideMoves DEF Fitting

LEMMA InBodyMoves ==
  ASSUME NEW t, NEW p, NEW x, NEW F, Insertion(t, p, x, F), Fitting(t, p, x), NEW j \in DOMAIN t, InBody(t, j)
  PROVE  InBody(F, Moved(p, j))
<1>1. /\ Len(t) \in Nat /\ DOMAIN t = 1 .. Len(t) /\ p \in 1 .. Len(t) + 1
  BY DEF Insertion, IsText
<1>2. PICK a \in 1 .. j - 1 : Opens(t[a]) /\ Inside(t, a, j)
  BY DEF InBody
<1>3. a \in DOMAIN t
  BY <1>1
<1>4. Inside(F, Moved(p, a), Moved(p, j))
  BY <1>2, <1>3, FitsInside
<1>5. Moved(p, a) \in 1 .. Moved(p, j) - 1
  BY <1>1 DEF Moved
<1>6. Opens(F[Moved(p, a)])
  BY <1>2, <1>3 DEF Insertion
<1> QED BY <1>4, <1>5, <1>6 DEF InBody

LEMMA ClosedMoves ==
  ASSUME NEW t, NEW p, NEW x, NEW F, Insertion(t, p, x, F), Fitting(t, p, x), x.is # "end", ~Opens(x), Closed(t)
  PROVE  Closed(F)
<1>1. /\ Len(t) \in Nat /\ DOMAIN t = 1 .. Len(t) /\ p \in 1 .. Len(t) + 1
      /\ Len(F) = Len(t) + 1 /\ DOMAIN F = 1 .. Len(t) + 1 /\ F[p] = x
  BY DEF Insertion, IsText
<1>2. ASSUME NEW j \in DOMAIN t
      PROVE  /\ F[Moved(p, j)].is = "end" => InBody(F, Moved(p, j))
             /\ Opens(F[Moved(p, j)]) => \E k \in Moved(p, j) + 1 .. Len(F) : F[k].is = "end" /\ Inside(F, Moved(p, j), k)
  <2>1. F[Moved(p, j)] = t[j]
    BY DEF Insertion
  <2>2. ASSUME t[j].is = "end" PROVE InBody(F, Moved(p, j))
    <3>1. InBody(t, j)
      BY <2>2 DEF Closed
    <3> QED BY <3>1, InBodyMoves
  <2>3. ASSUME Opens(t[j]) PROVE \E k \in Moved(p, j) + 1 .. Len(F) : F[k].is = "end" /\ Inside(F, Moved(p, j), k)
    <3>1. PICK b \in j + 1 .. Len(t) : t[b].is = "end" /\ Inside(t, j, b)
      BY <2>3 DEF Closed
    <3>2. b \in DOMAIN t
      BY <1>1
    <3>3. Inside(F, Moved(p, j), Moved(p, b))
      BY <2>3, <3>1, <3>2, FitsInside
    <3>4. Moved(p, b) \in Moved(p, j) + 1 .. Len(F)
      BY <1>1 DEF Moved
    <3>5. F[Moved(p, b)].is = "end"
      BY <3>1, <3>2 DEF Insertion
    <3> QED BY <3>3, <3>4, <3>5
  <2> QED BY <2>1, <2>2, <2>3
<1>3. ASSUME NEW i \in DOMAIN F
      PROVE  /\ F[i].is = "end" => InBody(F, i)
             /\ Opens(F[i]) => \E k \in i + 1 .. Len(F) : F[k].is = "end" /\ Inside(F, i, k)
  <2>1. CASE i = p
    BY <1>1, <2>1
  <2>2. CASE \E j \in DOMAIN t : i = Moved(p, j)
    BY <1>2, <2>2
  <2> QED BY <2>1, <2>2, OldOrNew
<1> QED BY <1>3 DEF Closed

\* A text still parses when a line that fits is inserted, in a module below the
\* header.
LEMMA InsertionParses ==
  ASSUME NEW t, NEW p, NEW x, NEW F, Insertion(t, p, x, F), Fitting(t, p, x),
         x.is \in {"import", "def", "return"}, ~Opens(x), x.is = "return" => InBody(F, p)
  PROVE  /\ parse_cell(t) => parse_cell(F)
         /\ parse(t) /\ (\A m \in LinesOf(t, {"module"}) : m < p) => parse(F)
<1>1. /\ Len(t) \in Nat /\ DOMAIN t = 1 .. Len(t) /\ p \in 1 .. Len(t) + 1
      /\ DOMAIN F = 1 .. Len(t) + 1 /\ F[p] = x
      /\ \A j \in DOMAIN t : F[Moved(p, j)] = t[j]
  BY DEF Insertion, IsText
<1>2. Closed(t) => Closed(F)
  BY ClosedMoves
<1>3. ASSUME parse_cell(t) PROVE parse_cell(F)
  <2>1. ASSUME NEW k \in DOMAIN F PROVE F[k].is \notin {"junk", "module", "annotation"}
    <3>1. CASE k = p
      BY <1>1, <3>1
    <3>2. CASE \E j \in DOMAIN t : k = Moved(p, j)
      BY <1>1, <1>3, <3>2 DEF parse_cell, LinesOf
    <3> QED BY <3>1, <3>2, OldOrNew
  <2> QED BY <1>2, <1>3, <2>1 DEF parse_cell, LinesOf
<1>4. ASSUME parse(t), \A m \in LinesOf(t, {"module"}) : m < p PROVE parse(F)
  <2>1. PICK m \in LinesOf(t, {"module"}) : \A i \in DOMAIN t \ {m} :
          IF i < m THEN t[i].is \in {"note", "annotation"} ELSE t[i].is \notin {"module", "annotation", "junk"}
    BY <1>4 DEF parse
  <2>2. m \in DOMAIN t /\ m < p /\ Moved(p, m) = m /\ t[m].is = "module"
    BY <1>4 DEF Moved, LinesOf
  <2>3. m \in LinesOf(F, {"module"})
    <3>1. m \in DOMAIN F /\ F[m] = t[m]
      BY <1>1, <2>2, OldOrNew
    <3> QED BY <2>2, <3>1 DEF LinesOf
  <2>4. ASSUME NEW i \in DOMAIN F \ {m}
        PROVE  IF i < m THEN F[i].is \in {"note", "annotation"} ELSE F[i].is \notin {"module", "annotation", "junk"}
    <3>1. CASE i = p
      <4>1. ~(p < m)
        BY <1>1, <2>2
      <4> QED BY <1>1, <3>1, <4>1
    <3>2. CASE \E j \in DOMAIN t : i = Moved(p, j)
      <4>1. PICK j \in DOMAIN t : i = Moved(p, j)
        BY <3>2
      <4>2. j # m /\ (i < m <=> j < m) /\ F[i] = t[j]
        BY <1>1, <2>2, <4>1, OldOrNew
      <4> QED BY <2>1, <4>2
    <3> QED BY <3>1, <3>2, OldOrNew
  <2>5. ASSUME NEW i \in LinesOf(F, Statements) PROVE InBody(F, i)
    <3>1. i \in DOMAIN F /\ F[i].is \in Statements
      BY DEF LinesOf
    <3>2. CASE i = p
      BY <1>1, <3>1, <3>2 DEF Statements
    <3>3. CASE \E j \in DOMAIN t : i = Moved(p, j)
      <4>1. PICK j \in DOMAIN t : i = Moved(p, j)
        BY <3>3
      <4>2. j \in LinesOf(t, Statements)
        BY <1>1, <3>1, <4>1 DEF LinesOf
      <4>3. InBody(t, j)
        BY <1>4, <4>2 DEF parse
      <4> QED BY <4>1, <4>3, InBodyMoves
    <3> QED BY <3>1, <3>2, <3>3, OldOrNew
  <2>6. Closed(t)
    BY <1>4 DEF parse
  <2> QED BY <1>2, <2>3, <2>4, <2>5, <2>6 DEF parse
<1> QED BY <1>3, <1>4

\* A text with the same kinds of lines parses alike.
LEMMA SameKinds ==
  ASSUME NEW t, NEW F, DOMAIN F = DOMAIN t, Len(F) = Len(t), IsText(t),
         \A i \in DOMAIN t : F[i].is = t[i].is /\ (Opens(F[i]) <=> Opens(t[i]))
  PROVE  /\ parse_cell(t) => parse_cell(F)
         /\ parse(t) => parse(F)
<1>1. \A K : LinesOf(F, K) = LinesOf(t, K)
  BY DEF LinesOf
<1>2. DOMAIN t = 1 .. Len(t) /\ Len(t) \in Nat
  BY DEF IsText
<1>3. \A a \in DOMAIN t, b \in DOMAIN t : Inside(t, a, b) => Inside(F, a, b)
  <2> SUFFICES ASSUME NEW a \in DOMAIN t, NEW b \in DOMAIN t, Inside(t, a, b), NEW k \in a + 1 .. b - 1
               PROVE  F[k].is \in Statements \cup {"note"}
    BY DEF Inside
  <2>1. k \in DOMAIN t
    BY <1>2
  <2> QED BY <2>1 DEF Inside
<1>4. \A j \in DOMAIN t : InBody(t, j) => InBody(F, j)
  <2> SUFFICES ASSUME NEW j \in DOMAIN t, InBody(t, j) PROVE InBody(F, j)
    OBVIOUS
  <2>1. PICK a \in 1 .. j - 1 : Opens(t[a]) /\ Inside(t, a, j)
    BY DEF InBody
  <2>2. a \in DOMAIN t
    BY <1>2
  <2> QED BY <1>3, <2>1, <2>2 DEF InBody
<1>5. Closed(t) => Closed(F)
  <2> SUFFICES ASSUME Closed(t), NEW i \in DOMAIN t
               PROVE  /\ F[i].is = "end" => InBody(F, i)
                      /\ Opens(F[i]) => \E j \in i + 1 .. Len(F) : F[j].is = "end" /\ Inside(F, i, j)
    BY DEF Closed
  <2>1. F[i].is = "end" => InBody(F, i)
    BY <1>4 DEF Closed
  <2>2. ASSUME Opens(F[i]) PROVE \E j \in i + 1 .. Len(F) : F[j].is = "end" /\ Inside(F, i, j)
    <3>1. PICK j \in i + 1 .. Len(t) : t[j].is = "end" /\ Inside(t, i, j)
      BY <2>2 DEF Closed
    <3>2. j \in DOMAIN t
      BY <1>2
    <3> QED BY <1>3, <3>1, <3>2
  <2> QED BY <2>1, <2>2
<1>6. parse_cell(t) => parse_cell(F)
  BY <1>1, <1>5 DEF parse_cell
<1>7. ASSUME parse(t) PROVE parse(F)
  <2>1. PICK m \in LinesOf(t, {"module"}) : \A i \in DOMAIN t \ {m} :
          IF i < m THEN t[i].is \in {"note", "annotation"} ELSE t[i].is \notin {"module", "annotation", "junk"}
    BY <1>7 DEF parse
  <2>2. m \in LinesOf(F, {"module"})
    BY <1>1
  <2>3. \A i \in DOMAIN F \ {m} :
          IF i < m THEN F[i].is \in {"note", "annotation"} ELSE F[i].is \notin {"module", "annotation", "junk"}
    BY <2>1
  <2>4. \A i \in LinesOf(F, Statements) : InBody(F, i)
    BY <1>1, <1>4, <1>7 DEF parse, LinesOf
  <2> QED BY <1>5, <1>7, <2>2, <2>3, <2>4 DEF parse
<1> QED BY <1>6, <1>7

\* What parses as a module is no script, and what parses as a cell and is not
\* empty is one.
LEMMA ScriptOrModule ==
  ASSUME NEW t, IsText(t)
  PROVE  /\ parse(t) => ~is_script(t)
         /\ parse_cell(t) /\ (\E i \in DOMAIN t : t[i].is # "note") => is_script(t)
<1> DEFINE code == DOMAIN t \ LinesOf(t, {"note"})
<1>1. code \in SUBSET Nat /\ \A i : i \in code <=> i \in DOMAIN t /\ t[i].is # "note"
  BY DEF IsText, LinesOf
<1>2. is_script(t) <=> code # {} /\ t[Least(code)].is \notin {"module", "annotation"}
  BY DEF is_script
<1>3. code # {} => Least(code) \in code /\ \A n \in code : Least(code) <= n
  BY <1>1, LeastIs
<1>4. ASSUME parse(t) PROVE ~is_script(t)
  <2>1. PICK m \in LinesOf(t, {"module"}) : \A i \in DOMAIN t \ {m} :
          IF i < m THEN t[i].is \in {"note", "annotation"} ELSE t[i].is \notin {"module", "annotation", "junk"}
    BY <1>4 DEF parse
  <2>2. m \in code /\ t[m].is = "module"
    BY <1>1 DEF LinesOf
  <2>3. Least(code) \in code /\ Least(code) <= m /\ Least(code) \in Nat /\ m \in Nat
    BY <1>1, <1>3, <2>2
  <2>4. t[Least(code)].is \in {"module", "annotation"}
    <3> HIDE DEF code
    <3>1. Least(code) \in DOMAIN t /\ t[Least(code)].is # "note"
      BY <1>1, <2>3
    <3>2. Least(code) = m \/ Least(code) < m
      BY <2>3
    <3> QED BY <2>1, <2>2, <3>1, <3>2
  <2> QED BY <1>2, <2>4
<1>5. ASSUME parse_cell(t), NEW i \in DOMAIN t, t[i].is # "note" PROVE is_script(t)
  <2>1. code # {}
    BY <1>1, <1>5
  <2>2. Least(code) \in DOMAIN t
    BY <1>1, <1>3, <2>1
  <2>3. t[Least(code)].is \notin {"module", "annotation"}
    BY <1>5, <2>2 DEF parse_cell, LinesOf
  <2> QED BY <1>2, <2>1, <2>3
<1> QED BY <1>4, <1>5

\* What each diagnostic says.
LEMMA ComplaintIs ==
  ASSUME NEW t, NEW c, NEW i
  PROVE  LET l == t[i]
             g == complaint(t, c, i)
         IN /\ g.line = i
            /\ g.code = "pell.missing-return" =>
                 l.is = "def" /\ l.kind = "fn" /\ l.ret /\ ~body_always_returns(t, i)
            /\ g.code = "pell.unused-return" => l.is = "call" /\ drops_result(t, c.sigs, l)
            /\ g.code = "pell.dot-vs-colon" => l.is = "call" /\ l.dotted
            /\ g.code = "pell.missing-import" =>
                 l.is \in {"call", "make"} /\ Mangled[l.path] \notin imported_packages(t) /\ g.name = Mangled[l.path]
            /\ g.code = "pell.unknown-struct-type" =>
                 l.is = "make" /\ ~lookup_record(t, c.recs, l) /\ g.name = l.name
BY DEF complaint

LEMMA EmittedIs ==
  ASSUME NEW t, IsText(t), NEW c, emit(t, c).code \in Fixes
  PROVE  \E i \in DOMAIN t : emit(t, c) = complaint(t, c, i)
<1> DEFINE wrong == {i \in DOMAIN t : complaint(t, c, i).code # ""}
<1>1. emit(t, c) # Clean
  <2>1. Clean.code = "" /\ "" \notin Fixes
    BY DEF Clean, Fixes
  <2> QED BY <2>1
<1>2. wrong # {} /\ emit(t, c) = complaint(t, c, Least(wrong))
  BY <1>1 DEF emit
<1>3. wrong \in SUBSET Nat
  <2>1. DOMAIN t \subseteq Nat
    BY DEF IsText
  <2>2. wrong \subseteq DOMAIN t
    OBVIOUS
  <2> HIDE DEF wrong
  <2> QED BY <2>1, <2>2
<1>4. Least(wrong) \in wrong
  BY <1>2, <1>3, LeastIs
<1> QED BY <1>2, <1>4

\* What a fix promises: the same kind of text, which parses, and the line
\* without the complaint.
Helps(t, c, g) ==
  LET fixed == on_code_action(t, g)
  IN /\ is_script(fixed) = is_script(t)
     /\ IF is_script(t) THEN parse_cell(fixed) ELSE parse(fixed)
     /\ complaint(fixed, c, line_after(t, g)).code # g.code

\* It is enough that what parsed does so after the fix, and is not empty.
LEMMA HelpsIf ==
  ASSUME NEW t, NEW c, NEW g, NEW i \in DOMAIN on_code_action(t, g), IsText(on_code_action(t, g)),
         on_code_action(t, g)[i].is # "note",
         is_script(t) => parse_cell(on_code_action(t, g)),
         ~is_script(t) => parse(on_code_action(t, g)),
         complaint(on_code_action(t, g), c, line_after(t, g)).code # g.code
  PROVE  Helps(t, c, g)
<1> DEFINE F == on_code_action(t, g)
<1>1. is_script(t) \in BOOLEAN /\ is_script(F) \in BOOLEAN
  BY DEF is_script
<1>2. parse(F) => ~is_script(F)
  BY ScriptOrModule
<1>3. parse_cell(F) => is_script(F)
  BY ScriptOrModule
<1> QED BY <1>1, <1>2, <1>3 DEF Helps

\* A line changed in place that stays what it is.
LEMMA InPlace ==
  ASSUME NEW t, NEW c, NEW i \in DOMAIN t, NEW g, g.line = i, IsText(t),
         g.code \in {"pell.unused-return", "pell.dot-vs-colon"},
         IF is_script(t) THEN parse_cell(t) ELSE parse(t),
         NEW l, on_code_action(t, g) = [t EXCEPT ![i] = l], t[i].is = "call", l.is = "call",
         complaint([t EXCEPT ![i] = l], c, i).code # g.code
  PROVE  Helps(t, c, g)
<1> DEFINE F == [t EXCEPT ![i] = l]
<1>1. DOMAIN F = DOMAIN t /\ F[i] = l /\ \A j \in DOMAIN t \ {i} : F[j] = t[j]
  OBVIOUS
<1>2. Len(F) = Len(t)
  BY <1>1 DEF IsText
<1>3. IsText(F)
  BY <1>1, <1>2 DEF IsText
<1>4. \A j \in DOMAIN t : F[j].is = t[j].is /\ (Opens(F[j]) <=> Opens(t[j]))
  BY <1>1 DEF Opens
<1> HIDE DEF F
<1>5. (parse_cell(t) => parse_cell(F)) /\ (parse(t) => parse(F))
  BY <1>1, <1>2, <1>4, SameKinds
<1>6. line_after(t, g) = i
  BY DEF line_after
<1>7. F = on_code_action(t, g)
  BY DEF F
<1> QED BY <1>1, <1>3, <1>5, <1>6, <1>7, HelpsIf DEF F

LEMMA LetUnderscoreHelps ==
  ASSUME NEW t \in AllTexts, NEW c, NEW i \in DOMAIN t,
         IF is_script(t) THEN parse_cell(t) ELSE parse(t), complaint(t, c, i).code = "pell.unused-return"
  PROVE  Helps(t, c, complaint(t, c, i))
<1> DEFINE g == complaint(t, c, i)
           l == [t[i] EXCEPT !.bound = TRUE]
           F == [t EXCEPT ![i] = l]
<1>1. g.line = i /\ t[i].is = "call"
  BY ComplaintIs
<1>2. t[i] \in Calls
  BY <1>1, TextsAre DEF LinesOf
<1>3. l.is = "call" /\ l.bound
  BY <1>2 DEF Calls
<1>4. F[i] = l
  OBVIOUS
<1>5. ~drops_result(F, c.sigs, F[i])
  BY <1>3, <1>4 DEF drops_result
<1>6. complaint(F, c, i).code # g.code
  <2> HIDE DEF F
  <2> QED BY <1>5, ComplaintIs
<1>7. on_code_action(t, g) = F
  <2> HIDE DEF g
  <2> QED BY <1>1 DEF on_code_action, let_underscore, g
<1>8. IsText(t)
  BY TextsAre DEF IsText
<1> HIDE DEF g, l
<1>9. g.code \in {"pell.unused-return", "pell.dot-vs-colon"}
  BY DEF g
<1> QED BY <1>1, <1>3, <1>6, <1>7, <1>8, <1>9, InPlace DEF g

LEMMA DotVsColonHelps ==
  ASSUME NEW t \in AllTexts, NEW c, NEW i \in DOMAIN t,
         IF is_script(t) THEN parse_cell(t) ELSE parse(t), complaint(t, c, i).code = "pell.dot-vs-colon"
  PROVE  Helps(t, c, complaint(t, c, i))
<1> DEFINE g == complaint(t, c, i)
           l == [t[i] EXCEPT !.dotted = FALSE]
           F == [t EXCEPT ![i] = l]
<1>1. g.line = i /\ t[i].is = "call"
  BY ComplaintIs
<1>2. t[i] \in Calls
  BY <1>1, TextsAre DEF LinesOf
<1>3. l.is = "call" /\ ~l.dotted
  BY <1>2 DEF Calls
<1>4. F[i] = l
  OBVIOUS
<1>5. ~F[i].dotted
  BY <1>3, <1>4
<1>6. complaint(F, c, i).code # g.code
  <2> HIDE DEF F
  <2> QED BY <1>5, ComplaintIs
<1>7. on_code_action(t, g) = F
  <2> HIDE DEF g
  <2> QED BY <1>1 DEF on_code_action, dot_vs_colon, g
<1>8. IsText(t)
  BY TextsAre DEF IsText
<1> HIDE DEF g, l
<1>9. g.code \in {"pell.unused-return", "pell.dot-vs-colon"}
  BY DEF g
<1> QED BY <1>1, <1>3, <1>6, <1>7, <1>8, <1>9, InPlace DEF g

\* A fitting line inserted where the diagnostic asks for it.
LEMMA InsertionHelps ==
  ASSUME NEW t, NEW c, NEW g, NEW p, NEW x, Insertion(t, p, x, on_code_action(t, g)),
         IF is_script(t) THEN parse_cell(t) ELSE parse(t),
         x.is \in {"import", "def", "return"}, ~Opens(x), Fitting(t, p, x),
         x.is = "return" => InBody(on_code_action(t, g), p),
         parse(t) => \A m \in LinesOf(t, {"module"}) : m < p,
         complaint(on_code_action(t, g), c, line_after(t, g)).code # g.code
  PROVE  Helps(t, c, g)
<1> DEFINE F == on_code_action(t, g)
<1>1. p \in DOMAIN F /\ F[p].is # "note" /\ IsText(F)
  <2>1. p \in DOMAIN F /\ F[p] = x /\ IsText(F)
    BY OldOrNew DEF Insertion
  <2> QED BY <2>1
<1>2. (parse_cell(t) => parse_cell(F)) /\ (parse(t) => parse(F))
  BY InsertionParses
<1> HIDE DEF F
<1> QED BY <1>1, <1>2, HelpsIf DEF F

\* The header of a module that parses is its one module line, with nothing to
\* open a body in front of it and no statement either.
LEMMA HeaderIs ==
  ASSUME NEW t, IsText(t), parse(t)
  PROVE  \E m \in DOMAIN t : /\ LinesOf(t, {"module"}) = {m} /\ m \in Nat
                             /\ \A i \in DOMAIN t : i <= m => ~Opens(t[i]) /\ t[i].is \notin Statements
<1>1. PICK m \in LinesOf(t, {"module"}) : \A i \in DOMAIN t \ {m} :
        IF i < m THEN t[i].is \in {"note", "annotation"} ELSE t[i].is \notin {"module", "annotation", "junk"}
  BY DEF parse
<1>2. m \in DOMAIN t /\ m \in Nat /\ t[m].is = "module" /\ DOMAIN t \subseteq Nat
  BY DEF LinesOf, IsText
<1>3. ASSUME NEW i \in LinesOf(t, {"module"}) PROVE i = m
  <2>1. i \in DOMAIN t /\ t[i].is = "module"
    BY DEF LinesOf
  <2> QED BY <1>1, <2>1
<1>4. ASSUME NEW i \in DOMAIN t, i <= m PROVE ~Opens(t[i]) /\ t[i].is \notin Statements
  <2>1. CASE i = m
    BY <1>2, <2>1 DEF Opens, Statements
  <2>2. CASE i # m
    <3>1. i < m
      BY <1>2, <1>4, <2>2
    <3>2. t[i].is \in {"note", "annotation"}
      BY <1>1, <2>2, <3>1
    <3> QED BY <3>2 DEF Opens, Statements
  <2> QED BY <2>1, <2>2
<1> QED BY <1>1, <1>2, <1>3, <1>4

LEMMA MissingImportHelps ==
  ASSUME NEW t \in AllTexts, NEW c, NEW i \in DOMAIN t,
         IF is_script(t) THEN parse_cell(t) ELSE parse(t), complaint(t, c, i).code = "pell.missing-import",
         \A m \in LinesOf(t, {"module"}) : ~t[m].tail
  PROVE  Helps(t, c, complaint(t, c, i))
<1> DEFINE g == complaint(t, c, i)
           p == import_line(t)
           x == ImportOf(g.name)
           F == InsertBefore(t, p, x)
           headers == {j \in DOMAIN t : Plain(t[j])}
<1>0. IsText(t) /\ t \in Seq({t[j] : j \in DOMAIN t}) /\ Len(t) \in Nat /\ DOMAIN t = 1 .. Len(t)
  BY TextsAre DEF IsText
<1>1. g.line = i /\ t[i].is \in {"call", "make"} /\ g.name = Mangled[t[i].path] /\ g.code = "pell.missing-import"
  BY ComplaintIs
<1>2. headers = LinesOf(t, {"module"})
  BY DEF Plain, LinesOf
<1>3. /\ p \in 1 .. Len(t) + 1 /\ p <= i /\ ~InBody(t, p)
      /\ parse(t) => \A m \in LinesOf(t, {"module"}) : m < p
  <2>1. CASE is_script(t)
    <3>1. headers = {}
      BY <1>2, <2>1 DEF parse_cell, LinesOf
    <3>2. p = 1
      BY <3>1 DEF import_line
    <3>3. ~InBody(t, p)
      BY <3>2 DEF InBody
    <3>4. ~parse(t)
      BY <1>0, <2>1, ScriptOrModule
    <3> QED BY <1>0, <3>2, <3>3, <3>4
  <2>2. CASE ~is_script(t)
    <3>1. PICK m \in DOMAIN t : /\ LinesOf(t, {"module"}) = {m} /\ m \in Nat
                                /\ \A j \in DOMAIN t : j <= m => ~Opens(t[j]) /\ t[j].is \notin Statements
      BY <1>0, <2>2, HeaderIs
    <3>2. Least(headers) = m
      <4>1. headers = {m} /\ headers \in SUBSET Nat /\ headers # {}
        BY <1>2, <3>1
      <4> HIDE DEF headers
      <4>2. Least(headers) \in headers
        BY <4>1, LeastIs
      <4> QED BY <4>1, <4>2
    <3>3. p = m + 1
      BY <1>2, <3>1, <3>2 DEF import_line
    <3>4. ~InBody(t, p)
      <4>1. \A j \in 1 .. p - 1 : j \in DOMAIN t /\ j <= m
        BY <1>0, <3>1, <3>3
      <4> QED BY <3>1, <4>1 DEF InBody
    <3>5. ~(i <= m)
      BY <1>1, <3>1 DEF Statements
    <3>6. p \in 1 .. Len(t) + 1 /\ p <= i /\ m < p
      BY <1>0, <3>1, <3>3, <3>5
    <3> QED BY <3>1, <3>4, <3>6
  <2> QED BY <2>1, <2>2
<1>4. x.is = "import" /\ ~Opens(x) /\ g.name \in Names(x)
  <2>1. x.is = "import" /\ x.path = <<g.name>>
    BY DEF ImportOf
  <2> HIDE DEF x
  <2> QED BY <2>1 DEF Opens, Names, short_name
<1>5. on_code_action(t, g) = F
  <2> HIDE DEF g
  <2> QED BY <1>1 DEF on_code_action, missing_import
<1> HIDE DEF g, x, p
<1>6. Insertion(t, p, x, F)
  BY <1>0, <1>3, InsertBeforeIs
<1> HIDE DEF F
<1>7. line_after(t, g) = Moved(p, i)
  BY <1>0, <1>1, <1>3 DEF line_after, Moved, p
<1>8. F[Moved(p, i)] = t[i] /\ F[p] = x /\ p \in DOMAIN F
  BY <1>6, OldOrNew DEF Insertion
<1>9. g.name \in imported_packages(F)
  <2>1. p \in LinesOf(F, {"import"})
    BY <1>4, <1>8 DEF LinesOf
  <2> QED BY <1>4, <1>8, <2>1 DEF imported_packages
<1>10. complaint(F, c, line_after(t, g)).code # g.code
  BY <1>1, <1>7, <1>8, <1>9, ComplaintIs
<1>11. Helps(t, c, g)
  BY <1>3, <1>4, <1>5, <1>6, <1>10, InsertionHelps DEF Fitting
<1> QED BY <1>11 DEF g

\* Below the header and imports among the first lines there is no open body.
LEMMA RecordLine ==
  ASSUME NEW t, IsText(t)
  PROVE  /\ record_line(t) \in 1 .. Len(t) + 1 /\ ~InBody(t, record_line(t))
         /\ \A j \in DOMAIN t : j <= TopLines /\ Plain(t[j]) => j < record_line(t)
<1> DEFINE above == {j \in DOMAIN t : j <= TopLines /\ (Plain(t[j]) \/ t[j].is = "import")}
           last == CHOOSE j \in above \cup {0} : \A k \in above : k <= j
<1>0. Len(t) \in Nat /\ DOMAIN t = 1 .. Len(t)
  BY DEF IsText
<1>1. last \in above \cup {0} /\ \A k \in above : k <= last
  <2>1. above \cup {0} \in SUBSET (0 .. Len(t)) /\ above \cup {0} # {}
    BY <1>0
  <2> HIDE DEF above
  <2>2. \E j \in above \cup {0} : \A k \in above \cup {0} : k <= j
    BY <1>0, <2>1, Largest
  <2> QED BY <2>2
<1>2. record_line(t) = 1 + last
  BY DEF record_line
<1>3. last \in 0 .. Len(t) /\ (last # 0 => last \in DOMAIN t /\ t[last].is \in {"module", "import"})
  <2>1. CASE last \in above
    <3>1. last \in DOMAIN t /\ (Plain(t[last]) \/ t[last].is = "import")
      BY <2>1
    <3> HIDE DEF last
    <3> QED BY <1>0, <3>1 DEF Plain
  <2>2. CASE last = 0
    <3> HIDE DEF last
    <3> QED BY <1>0, <2>2
  <2> QED BY <1>1, <2>1, <2>2
<1> HIDE DEF last
<1>4. record_line(t) \in 1 .. Len(t) + 1
  BY <1>0, <1>2, <1>3
<1>5. ~InBody(t, record_line(t))
  <2> SUFFICES ASSUME NEW a \in 1 .. record_line(t) - 1, Opens(t[a]), Inside(t, a, record_line(t)) PROVE FALSE
    BY DEF InBody
  <2>1. a \in 1 .. last /\ last # 0
    BY <1>0, <1>2, <1>3
  <2>2. a # last
    BY <1>3, <2>1 DEF Opens
  <2>3. last \in a + 1 .. record_line(t) - 1
    BY <1>0, <1>2, <1>3, <2>1, <2>2
  <2>4. t[last].is \in Statements \cup {"note"}
    BY <2>3 DEF Inside
  <2> QED BY <1>3, <2>1, <2>4 DEF Statements
<1>6. ASSUME NEW j \in DOMAIN t, j <= TopLines, Plain(t[j]) PROVE j < record_line(t)
  <2>1. j \in above
    BY <1>6
  <2> HIDE DEF above
  <2> QED BY <1>0, <1>1, <1>2, <1>3, <2>1
<1> QED BY <1>4, <1>5, <1>6

LEMMA UnknownStructTypeHelps ==
  ASSUME NEW t \in AllTexts, NEW c, NEW i \in DOMAIN t,
         IF is_script(t) THEN parse_cell(t) ELSE parse(t), complaint(t, c, i).code = "pell.unknown-struct-type",
         \A m \in LinesOf(t, {"module"}) : ~t[m].tail /\ ~(m > TopLines), t[i].path = <<>>
  PROVE  Helps(t, c, complaint(t, c, i))
<1> DEFINE g == complaint(t, c, i)
           p == record_line(t)
           x == RecordOf(g.name)
           F == InsertBefore(t, p, x)
<1>0. IsText(t) /\ t \in Seq({t[j] : j \in DOMAIN t}) /\ Len(t) \in Nat /\ DOMAIN t = 1 .. Len(t)
  BY TextsAre DEF IsText
<1>1. g.line = i /\ t[i].is = "make" /\ g.name = t[i].name /\ g.code = "pell.unknown-struct-type"
  BY ComplaintIs
<1>2. p \in 1 .. Len(t) + 1 /\ ~InBody(t, p)
  BY <1>0, RecordLine
<1>3. \A m \in LinesOf(t, {"module"}) : m < p
  <2> SUFFICES ASSUME NEW m \in LinesOf(t, {"module"}) PROVE m < p
    OBVIOUS
  <2>1. m \in DOMAIN t /\ t[m].is = "module" /\ ~t[m].tail /\ m \in Nat /\ ~(m > TopLines) /\ TopLines \in Nat
    BY <1>0, ProjectAssumption DEF LinesOf
  <2>2. m <= TopLines /\ Plain(t[m])
    BY <2>1 DEF Plain
  <2> QED BY <1>0, <2>1, <2>2, RecordLine
<1>4. x.is = "def" /\ x.kind = "record" /\ x.name = g.name /\ ~Opens(x)
  <2>1. x.is = "def" /\ x.kind = "record" /\ x.name = g.name
    BY DEF RecordOf
  <2> HIDE DEF x
  <2> QED BY <2>1 DEF Opens
<1>5. on_code_action(t, g) = F
  <2> HIDE DEF g
  <2>1. t[g.line].path = <<>>
    BY <1>1
  <2> QED BY <1>1, <2>1 DEF on_code_action, unknown_struct_type
<1> HIDE DEF g, x, p
<1>6. Insertion(t, p, x, F)
  BY <1>0, <1>2, InsertBeforeIs
<1> HIDE DEF F
<1>7. line_after(t, g) = Moved(p, i)
  <2>1. p <= i <=> ~(i < p)
    BY <1>0, <1>2
  <2> QED BY <1>1, <2>1 DEF line_after, Moved, p
<1>8. F[Moved(p, i)] = t[i] /\ F[p] = x /\ p \in DOMAIN F
  BY <1>6, OldOrNew DEF Insertion
<1>9. lookup_record(F, c.recs, t[i])
  <2>1. p \in LocalDefs(F, {"record"}) /\ F[p].name = t[i].name
    BY <1>1, <1>4, <1>8 DEF LocalDefs, LinesOf
  <2> QED BY <2>1 DEF lookup_record
<1>10. complaint(F, c, line_after(t, g)).code # g.code
  BY <1>1, <1>7, <1>8, <1>9, ComplaintIs
<1>11. Helps(t, c, g)
  BY <1>2, <1>3, <1>4, <1>5, <1>6, <1>10, InsertionHelps DEF Fitting
<1> QED BY <1>11 DEF g

LEMMA MissingReturnHelps ==
  ASSUME NEW t \in AllTexts, NEW c, NEW i \in DOMAIN t,
         IF is_script(t) THEN parse_cell(t) ELSE parse(t), complaint(t, c, i).code = "pell.missing-return",
         ~t[i].oneline, zero_value_parses(t[i].type)
  PROVE  Helps(t, c, complaint(t, c, i))
<1> DEFINE g == complaint(t, c, i)
           p == return_line(t, g)
           x == [is |-> "return"]
           F == InsertBefore(t, p, x)
           ends == {j \in i + 1 .. Len(t) : t[j].is = "end"}
<1>0. IsText(t) /\ t \in Seq({t[j] : j \in DOMAIN t}) /\ Len(t) \in Nat /\ DOMAIN t = 1 .. Len(t)
  BY TextsAre DEF IsText
<1>1. g.line = i /\ t[i].is = "def" /\ t[i].kind = "fn" /\ g.code = "pell.missing-return"
  BY ComplaintIs
<1>2. Opens(t[i]) /\ Closed(t)
  BY <1>1 DEF Opens, parse, parse_cell
<1>3. PICK e \in i + 1 .. Len(t) : t[e].is = "end" /\ Inside(t, i, e)
  BY <1>2 DEF Closed
<1>4. p = e
  <2>1. p = Least(ends)
    BY <1>1 DEF return_line
  <2>2. ends \in SUBSET Nat /\ e \in ends
    BY <1>0, <1>3
  <2>3. ASSUME NEW j \in ends PROVE e <= j
    <3>1. j \in i + 1 .. Len(t) /\ t[j].is = "end"
      OBVIOUS
    <3>2. ~(j \in i + 1 .. e - 1)
      BY <1>3, <3>1 DEF Inside, Statements
    <3> QED BY <1>0, <3>1, <3>2
  <2> HIDE DEF ends, p
  <2>4. Least(ends) \in ends /\ Least(ends) <= e
    BY <2>2, LeastIs
  <2>5. Least(ends) \in Nat /\ e \in Nat /\ e <= Least(ends)
    BY <2>2, <2>3, <2>4
  <2>6. Least(ends) = e
    BY <2>4, <2>5
  <2> QED BY <2>1, <2>6
<1>5. x.is = "return" /\ ~Opens(x)
  BY DEF Opens
<1>6. on_code_action(t, g) = F
  <2> HIDE DEF g
  <2> QED BY <1>1 DEF on_code_action, missing_return
<1>7. p \in 1 .. Len(t) + 1 /\ i < p /\ i \in Nat
  BY <1>0, <1>3, <1>4
<1> HIDE DEF g, x, p
<1>8. Insertion(t, p, x, F)
  BY <1>0, <1>7, InsertBeforeIs
<1> HIDE DEF F
<1>9. Fitting(t, p, x)
  BY <1>5 DEF Fitting, Statements
<1>10. line_after(t, g) = i /\ Moved(p, i) = i
  BY <1>1, <1>7 DEF line_after, Moved, p
<1>11. Inside(F, i, e) /\ F[i] = t[i] /\ F[e] = x /\ e + 1 \in i + 1 .. Len(F) /\ F[e + 1].is = "end" /\ Len(F) \in Nat
  <2>1. e \in DOMAIN t /\ Moved(p, e) = e + 1
    BY <1>0, <1>4, <1>7 DEF Moved
  <2>2. Inside(F, i, e + 1)
    <3>1. Inside(F, Moved(p, i), Moved(p, e))
      BY <1>2, <1>3, <1>8, <1>9, <2>1, FitsInside
    <3> QED BY <1>10, <2>1, <3>1
  <2>3. Inside(F, i, e)
    <3>1. \A k \in i + 1 .. e - 1 : k \in i + 1 .. (e + 1) - 1
      BY <1>0
    <3> QED BY <2>2, <3>1 DEF Inside
  <2>4. F[i] = t[i] /\ F[e] = x /\ F[e + 1] = t[e] /\ Len(F) = Len(t) + 1
    BY <1>4, <1>8, <1>10, <2>1 DEF Insertion
  <2> QED BY <1>0, <1>3, <2>3, <2>4
<1>12. InBody(F, p)
  <2>1. i \in 1 .. p - 1 /\ Opens(F[i]) /\ Inside(F, i, p)
    BY <1>0, <1>2, <1>4, <1>7, <1>11
  <2> QED BY <2>1 DEF InBody
<1>13. body_always_returns(F, i)
  <2>1. e \in i + 1 .. Len(F) /\ e + 1 \in e + 1 .. Len(F) /\ F[e].is = "return"
    BY <1>0, <1>3, <1>5, <1>11
  <2>2. \A k \in e + 1 .. (e + 1) - 1 : F[k].is = "note"
    BY <1>0, <1>3
  <2>3. \E d \in e + 1 .. Len(F) : F[d].is = "end" /\ \A k \in e + 1 .. d - 1 : F[k].is = "note"
    BY <1>11, <2>1, <2>2
  <2> QED BY <1>11, <2>1, <2>3 DEF body_always_returns
<1>14. complaint(F, c, line_after(t, g)).code # g.code
  BY <1>1, <1>10, <1>13, ComplaintIs
<1>15. parse(t) => \A m \in LinesOf(t, {"module"}) : m < p
  <2> SUFFICES ASSUME parse(t), NEW m \in LinesOf(t, {"module"}) PROVE m < p
    OBVIOUS
  <2>1. m \in Nat /\ ~(i <= m)
    BY <1>0, <1>2, HeaderIs
  <2> QED BY <1>0, <1>7, <2>1
<1>16. Helps(t, c, g)
  BY <1>5, <1>6, <1>8, <1>9, <1>12, <1>14, <1>15, InsertionHelps
<1> QED BY <1>16 DEF g

\* A quick fix of what the compiler reports of an open document helps
\* (on_code_action and the fixes), for every text and every project.
THEOREM FixesHelpHolds == Spec => []FixesHelp
<1>1. Shape => FixesHelp
  <2> SUFFICES ASSUME Shape, NEW f \in {f \in Files : docs[f] # NotOpen},
                      IF is_script(docs[f]) THEN parse_cell(docs[f]) ELSE parse(docs[f]),
                      emit(docs[f], Now(RootOf[f])).code \in Fixes,
                      ~Unfixable(docs[f], emit(docs[f], Now(RootOf[f])))
               PROVE  Helps(docs[f], Now(RootOf[f]), emit(docs[f], Now(RootOf[f])))
    BY DEF FixesHelp, Helps
  <2> DEFINE t == docs[f]
             c == Now(RootOf[f])
  <2>1. t \in AllTexts
    BY DEF Shape
  <2> HIDE DEF t, c
  <2>2. IsText(t)
    BY <2>1, TextsAre DEF IsText
  <2>3. PICK i \in DOMAIN t : emit(t, c) = complaint(t, c, i)
    BY <2>2, EmittedIs DEF t, c
  <2> DEFINE g == complaint(t, c, i)
  <2>4. g.line = i /\ g.code \in Fixes /\ ~Unfixable(t, g) /\ IF is_script(t) THEN parse_cell(t) ELSE parse(t)
    BY <2>3, ComplaintIs DEF t, c
  <2>5. Helps(t, c, g)
    <3> HIDE DEF g
    <3>1. CASE g.code = "pell.unused-return"
      BY <2>1, <2>4, <3>1, LetUnderscoreHelps DEF g
    <3>2. CASE g.code = "pell.dot-vs-colon"
      BY <2>1, <2>4, <3>2, DotVsColonHelps DEF g
    <3>3. CASE g.code = "pell.missing-import"
      <4>1. \A m \in LinesOf(t, {"module"}) : ~t[m].tail
        BY <2>4, <3>3 DEF Unfixable
      <4> QED BY <2>1, <2>4, <3>3, <4>1, MissingImportHelps DEF g
    <3>4. CASE g.code = "pell.missing-return"
      <4>1. ~t[i].oneline /\ zero_value_parses(t[i].type)
        BY <2>4, <3>4 DEF Unfixable
      <4> QED BY <2>1, <2>4, <3>4, <4>1, MissingReturnHelps DEF g
    <3>5. CASE g.code = "pell.unknown-struct-type"
      <4>1. (\A m \in LinesOf(t, {"module"}) : ~t[m].tail /\ ~(m > TopLines)) /\ t[i].path = <<>>
        BY <2>4, <3>5 DEF Unfixable
      <4> QED BY <2>1, <2>4, <3>5, <4>1, UnknownStructTypeHelps DEF g
    <3> QED BY <2>4, <3>1, <3>2, <3>3, <3>4, <3>5 DEF Fixes
  <2> QED BY <2>3, <2>5 DEF t, c
<1> QED BY <1>1, ShapeHolds, PTL
====
