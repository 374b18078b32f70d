------------------------- MODULE ReplSession_proofs -------------------------
(* What the proof system checks about ReplSession, for every set of cells.  *)
EXTENDS ReplSession, FiniteSetTheorems, SequenceTheorems, WellFoundedInduction, TLAPS

----------------------------------------------------------------------------
(* Numbers, and sets laid out as sequences.                                 *)

\* A set of numbers that is not empty has a least one.
LEMMA LeastNumber ==
  ASSUME NEW S \in SUBSET Nat, S # {}
  PROVE  \E n \in S : \A m \in S : n <= m
<1>1. PICK n \in S : \A y \in S : <<y, n>> \notin OpToRel(<, Nat)
  BY WFMin, NatLessThanWellFounded
<1>2. \A m \in S : m \in Nat /\ n \in Nat /\ ~(m < n)
  BY <1>1 DEF OpToRel
<1> QED BY <1>2

\* A set of the first n numbers that is not empty has a greatest one.
LEMMA GreatestNumber ==
  ASSUME NEW n \in Nat, NEW S \in SUBSET (1..n), S # {}
  PROVE  \E x \in S : \A y \in S : x >= y
<1> DEFINE T == {n - i : i \in S}
<1>1. T \in SUBSET Nat /\ T # {}
  <2>1. \A i \in S : n - i \in Nat
    OBVIOUS
  <2>2. PICK i \in S : TRUE
    OBVIOUS
  <2>3. n - i \in T
    OBVIOUS
  <2> QED BY <2>1, <2>3
<1> HIDE DEF T
<1>2. PICK t \in T : \A m \in T : t <= m
  BY <1>1, LeastNumber
<1>3. PICK x \in S : t = n - x
  BY DEF T
<1>4. \A y \in S : n - x <= n - y
  BY <1>2, <1>3 DEF T
<1> QED BY <1>4

\* SetToSeq lists every element of a finite set once.
LEMMA SetToSeqIs ==
  ASSUME NEW S, IsFiniteSet(S)
  PROVE  /\ Cardinality(S) \in Nat
         /\ SetToSeq(S) \in [1..Cardinality(S) -> S]
         /\ \A i, j \in 1..Cardinality(S) : SetToSeq(S)[i] = SetToSeq(S)[j] => i = j
         /\ \A e \in S : \E i \in 1..Cardinality(S) : SetToSeq(S)[i] = e
<1> DEFINE n == Cardinality(S)
           D == 1..n
<1>1. n \in Nat /\ ExistsBijection(D, S)
  BY FS_CardinalityType
<1>2. PICK f \in Bijection(D, S) : TRUE
  BY <1>1 DEF ExistsBijection
<1>3. f \in [D -> S] /\ IsInjective(f)
  BY <1>2 DEF Bijection, Injection
<1>4. SetToSeq(S) \in [D -> S] /\ IsInjective(SetToSeq(S))
  BY <1>3 DEF SetToSeq
<1>5. IsFiniteSet(D) /\ Cardinality(D) = n
  BY <1>1, FS_Interval
<1>6. SetToSeq(S) \in Surjection(D, S)
  BY <1>4, <1>5, FS_Injection DEF Injection
<1> QED BY <1>1, <1>4, <1>6 DEF Surjection, IsInjective

----------------------------------------------------------------------------
(* The operators of the model.                                              *)

Parts == Fields \cup {""}
Keys == Vars \X Parts
KeyT == Keys \cup {Plain}

LEMMA KeysAre ==
  /\ IsFiniteSet(Keys) /\ Plain \notin Keys
  /\ \A k \in Keys : k[1] \in Vars /\ k[2] \in Parts /\ k = <<k[1], k[2]>>
  /\ \A x \in Vars : \A f \in Parts : <<x, f>> \in Keys /\ <<x, f>>[1] = x /\ <<x, f>>[2] = f
<1>1. IsFiniteSet(Parts)
  BY NamesAssumption, FS_AddElement DEF Parts
<1>2. IsFiniteSet(Keys)
  BY <1>1, NamesAssumption, FS_Product DEF Keys
<1>3. Plain \notin Keys
  <2>1. ASSUME Plain \in Keys PROVE Plain[1] \in Vars
    BY <2>1 DEF Keys
  <2>2. Plain[1] = ""
    BY DEF Plain
  <2> QED BY <2>1, <2>2, NamesAssumption
<1> QED BY <1>2, <1>3 DEF Keys

\* A type a cell notes replaces the one noted before.
LEMMA NotedDomain ==
  ASSUME NEW f, NEW ls
  PROVE  DOMAIN Noted(f, ls) = {s.var : s \in ls} \cup DOMAIN f
BY DEF Noted

LEMMA NotedNew ==
  ASSUME NEW f, NEW ls, NEW x, \E s \in ls : s.var = x
  PROVE  \E s \in ls : s.var = x /\ Noted(f, ls)[x] = s.type
BY DEF Noted, TypeOf

LEMMA NotedOld ==
  ASSUME NEW f, NEW ls, NEW x \in DOMAIN f, ~\E s \in ls : s.var = x
  PROVE  Noted(f, ls)[x] = f[x]
BY DEF Noted

\* At the end of a block a variable has the value it was given last.
LEMMA EnvIs ==
  ASSUME NEW its, NEW stmts, NEW n \in Nat
  PROVE  /\ DOMAIN Env(its, stmts, n) = DOMAIN Start(its) \cup {stmts[i].var : i \in Assigns(stmts, n)}
         /\ \A x \in DOMAIN Env(its, stmts, n) :
              \/ \E i \in Assigns(stmts, n) : stmts[i].var = x /\ Env(its, stmts, n)[x] = stmts[i].val
              \/ x \in DOMAIN Start(its) /\ Env(its, stmts, n)[x] = Start(its)[x]
<1> DEFINE env == Env(its, stmts, n)
           given == {stmts[i].var : i \in Assigns(stmts, n)}
           Final(x, i) == /\ stmts[i].var = x
                          /\ \A j \in Assigns(stmts, n) : stmts[j].var = x => j <= i
<1>1. env = [x \in DOMAIN Start(its) \cup given |->
               IF x \in given THEN stmts[CHOOSE i \in Assigns(stmts, n) : Final(x, i)].val
                              ELSE Start(its)[x]]
  BY DEF Env
<1>2. ASSUME NEW x \in given PROVE \E i \in Assigns(stmts, n) : Final(x, i)
  <2> DEFINE S == {i \in Assigns(stmts, n) : stmts[i].var = x}
  <2>1. S \in SUBSET (1..n) /\ S # {}
    BY DEF Assigns
  <2>2. \A i \in S : i \in Nat
    BY <2>1
  <2> HIDE DEF S
  <2>3. PICK m \in S : \A y \in S : m >= y
    BY <2>1, GreatestNumber
  <2> QED BY <2>2, <2>3 DEF S
<1>3. ASSUME NEW x \in given
      PROVE  \E i \in Assigns(stmts, n) : stmts[i].var = x /\ env[x] = stmts[i].val
  <2> DEFINE m == CHOOSE i \in Assigns(stmts, n) : Final(x, i)
  <2>1. m \in Assigns(stmts, n) /\ Final(x, m)
    BY <1>2
  <2>2. env[x] = stmts[m].val
    BY <1>1
  <2> HIDE DEF m
  <2> QED BY <2>1, <2>2
<1>4. ASSUME NEW x \in DOMAIN Start(its) \cup given, x \notin given
      PROVE  x \in DOMAIN Start(its) /\ env[x] = Start(its)[x]
  BY <1>1, <1>4
<1> HIDE DEF env, Final
<1>5. DOMAIN env = DOMAIN Start(its) \cup given
  BY <1>1
<1> QED BY <1>3, <1>4, <1>5 DEF env

\* Of an output, the last line with a key is one of those with it.
LEMMA LastToldIs ==
  ASSUME NEW output, Len(output) \in Nat, DOMAIN output = 1..Len(output), NEW k \in Told(output)
  PROVE  \E i \in DOMAIN output : output[i].key = k /\ LastTold(output, k) = output[i].val
<1> DEFINE S == {i \in DOMAIN output : output[i].key = k}
           n == Len(output)
<1>1. S \in SUBSET (1..n) /\ S # {}
  BY DEF Told
<1> HIDE DEF S
<1>2. PICK m \in S : \A y \in S : m >= y
  BY <1>1, GreatestNumber
<1>3. \E i \in DOMAIN output : /\ output[i].key = k
                               /\ \A j \in DOMAIN output : output[j].key = k => j <= i
  BY <1>1, <1>2 DEF S
<1> QED BY <1>3 DEF LastTold

\* Where a block ends: somewhere in it, at its end unless it returns.
LEMMA UptoIs ==
  ASSUME NEW c \in Cells
  PROVE  /\ Upto(c.stmts) \in 0..Len(c.stmts)
         /\ ~Returns(c.stmts) => Upto(c.stmts) = Len(c.stmts)
<1> DEFINE stmts == c.stmts
           S == {i \in DOMAIN stmts : stmts[i].op = "return"}
<1>1. Len(stmts) \in Nat /\ DOMAIN stmts = 1..Len(stmts)
  BY CellsAssumption
<1>2. CASE ~Returns(stmts)
  BY <1>1, <1>2 DEF Upto
<1>3. CASE Returns(stmts)
  <2>1. S \in SUBSET Nat /\ S # {} /\ S \subseteq DOMAIN stmts
    BY <1>1, <1>3 DEF Returns
  <2> HIDE DEF S
  <2>2. PICK m \in S : \A y \in S : m <= y
    BY <2>1, LeastNumber
  <2>3. m \in Nat /\ \A j \in 1..(m - 1) : ~(m <= j)
    BY <2>1
  <2>4. m \in DOMAIN stmts /\ stmts[m].op = "return"
        /\ \A j \in 1..(m - 1) : j \in DOMAIN stmts
    BY <1>1, <2>1 DEF S
  <2>5. \A j \in 1..(m - 1) : stmts[j].op # "return"
    BY <2>2, <2>3, <2>4 DEF S
  <2>6. Upto(stmts) \in DOMAIN stmts
    BY <1>3, <2>4, <2>5 DEF Upto
  <2> QED BY <1>1, <1>3, <2>6
<1> QED BY <1>2, <1>3

\* What the statements print are plain lines.
LEMMA PrintsIs ==
  ASSUME NEW stmts, NEW n \in Nat
  PROVE  /\ Len(Prints(stmts, n)) \in Nat
         /\ Prints(stmts, n) = [i \in 1..Len(Prints(stmts, n)) |-> Line(Plain, "out")]
         /\ Prints(stmts, n) \in Seq({Line(Plain, "out")})
<1> DEFINE S == {j \in 1..n : stmts[j].op = "print"}
           m == Cardinality(S)
<1>1. IsFiniteSet(1..n) /\ S \in SUBSET (1..n)
  BY FS_Interval
<1>2. m \in Nat
  BY <1>1, FS_Subset, FS_CardinalityType
<1> DEFINE p == [i \in 1..m |-> Line(Plain, "out")]
<1>3. Prints(stmts, n) = p
  BY DEF Prints
<1> HIDE DEF S, m
<1>4. p \in Seq({Line(Plain, "out")}) /\ Len(p) = m
  BY <1>2
<1> QED BY <1>2, <1>3, <1>4

\* Lines one after the other.
IsLines(s) == Len(s) \in Nat /\ s = [i \in 1..Len(s) |-> s[i]]

LEMMA LinesAreSeq ==
  ASSUME NEW s, NEW S, IsLines(s), \A i \in 1..Len(s) : s[i] \in S
  PROVE  s \in Seq(S)
<1>1. [i \in 1..Len(s) |-> s[i]] \in Seq(S)
  BY DEF IsLines
<1> QED BY <1>1 DEF IsLines

LEMMA SeqIsLines ==
  ASSUME NEW S, NEW s \in Seq(S)
  PROVE  IsLines(s)
BY DEF IsLines

LEMMA ConcatIs ==
  ASSUME NEW s, NEW t, IsLines(s), IsLines(t)
  PROVE  /\ IsLines(s \o t) /\ Len(s \o t) = Len(s) + Len(t)
         /\ \A i \in 1..Len(s) : (s \o t)[i] = s[i]
         /\ \A i \in 1..Len(t) : (s \o t)[Len(s) + i] = t[i]
         /\ \A i \in 1..Len(s \o t) : \/ i \in 1..Len(s)
                                      \/ \E j \in 1..Len(t) : i = Len(s) + j
<1> DEFINE S == {s[i] : i \in 1..Len(s)} \cup {t[i] : i \in 1..Len(t)}
           st == s \o t
<1>1. s \in Seq(S) /\ t \in Seq(S)
  BY LinesAreSeq
<1> HIDE DEF S
<1>2. /\ st \in Seq(S) /\ Len(st) = Len(s) + Len(t) /\ Len(s) \in Nat /\ Len(t) \in Nat
      /\ \A i \in 1..Len(st) : st[i] = IF i <= Len(s) THEN s[i] ELSE t[i - Len(s)]
  BY <1>1, ConcatProperties
<1>3. IsLines(st)
  BY <1>2, SeqIsLines
<1> HIDE DEF st
<1>4. \A i \in 1..Len(s) : st[i] = s[i]
  BY <1>2
<1>5. \A i \in 1..Len(t) : st[Len(s) + i] = t[i]
  <2> TAKE i \in 1..Len(t)
  <2>1. Len(s) + i \in 1..Len(st) /\ ~(Len(s) + i <= Len(s)) /\ (Len(s) + i) - Len(s) = i
    BY <1>2
  <2> QED BY <1>2, <2>1
<1>6. ASSUME NEW i \in 1..Len(st), i \notin 1..Len(s)
      PROVE  \E j \in 1..Len(t) : i = Len(s) + j
  <2>1. i - Len(s) \in 1..Len(t) /\ i = Len(s) + (i - Len(s))
    BY <1>2, <1>6
  <2> QED BY <2>1
<1> QED BY <1>2, <1>3, <1>4, <1>5, <1>6 DEF st

LEMMA PrefixIs ==
  ASSUME NEW s, IsLines(s), NEW n \in 0..Len(s)
  PROVE  /\ IsLines(SubSeq(s, 1, n)) /\ Len(SubSeq(s, 1, n)) = n
         /\ \A i \in 1..n : SubSeq(s, 1, n)[i] = s[i]
<1> DEFINE S == {s[i] : i \in 1..Len(s)}
           p == SubSeq(s, 1, n)
<1>1. s \in Seq(S) /\ Len(s) \in Nat
  BY LinesAreSeq DEF IsLines
<1> HIDE DEF S
<1>2. p \in Seq(S) /\ Len(p) = n /\ \A i \in 1..n : p[i] = s[i]
  BY <1>1
<1> QED BY <1>2, SeqIsLines

----------------------------------------------------------------------------
(* Definitions, types and keys keep their shape.                            *)

ItemsOK(its) == \A i \in its : i.kind = "record" => \E F \in SUBSET Fields : i.fields \in [F -> Scalars]
TypesOK(vt) == DOMAIN vt \subseteq Vars /\ \A x \in DOMAIN vt : vt[x] \in Types

Shape ==
  /\ now \in Nat
  /\ ItemsOK(items) /\ TypesOK(vtype)
  /\ DOMAIN snap \subseteq Keys
  /\ IsLines(buffer) /\ \A i \in 1..Len(buffer) : buffer[i].key \in KeyT

IsScalar(t) == t \in Scalars \cup {""}

LEMMA TypesAre ==
  /\ \A t \in Types : t \in Scalars \/ t = "LIST" \/ t \in Records
  /\ \A t \in Records : t \in Types /\ t \notin Scalars /\ t # "LIST" /\ t # ""
  /\ \A t \in Scalars : t \in Types /\ t # "LIST" /\ t # ""
  /\ "VARCHAR2" \in Scalars
BY NamesAssumption DEF Types, Scalars

\* What is put out for a variable: one line for a scalar, one for each field of a record.
LEMMA CaptureKeysIs ==
  ASSUME NEW its, ItemsOK(its), NEW vt, TypesOK(vt), NEW x \in Vars,
         NEW k \in CaptureKeys(its, vt, x)
  PROVE  /\ k \in Keys /\ k[1] = x
         /\ k[2] = "" => IsScalar(Tag(vt, x))
         /\ k[2] # "" => x \in DOMAIN vt /\ vt[x] \in Records
<1>1. "" \in Parts /\ Fields \subseteq Parts /\ "" \notin Fields
  BY NamesAssumption DEF Parts
<1>2. CASE IsScalar(Tag(vt, x))
  <2>1. k = <<x, "">>
    BY <1>2 DEF CaptureKeys, IsScalar
  <2> QED BY <1>1, <1>2, <2>1, KeysAre
<1>3. CASE ~IsScalar(Tag(vt, x))
  <2>1. x \in DOMAIN vt /\ Tag(vt, x) = vt[x] /\ vt[x] \in Types
    BY <1>3 DEF Tag, IsScalar, TypesOK
  <2>2. Tag(vt, x) # "LIST"
    BY <1>3 DEF CaptureKeys, IsScalar
  <2>3. vt[x] \in Records
    BY <1>3, <2>1, <2>2, TypesAre DEF IsScalar
  <2>4. PICK f \in FieldsOf(its, vt[x]) : k = <<x, f>>
    BY <1>3, <2>1, <2>2 DEF CaptureKeys, IsScalar
  <2>5. vt[x] \notin Scalars \cup {"LIST"}
    BY <2>3, TypesAre
  <2>6. f \in Fields
    <3>1. PICK i \in its : i.kind = "record" /\ f \in DOMAIN i.fields
      BY <2>5 DEF FieldsOf, RecordsNamed
    <3>2. PICK F \in SUBSET Fields : i.fields \in [F -> Scalars]
      BY <3>1 DEF ItemsOK
    <3> QED BY <3>1, <3>2
  <2> QED BY <1>1, <2>1, <2>3, <2>4, <2>6, KeysAre
<1> QED BY <1>2, <1>3

LEMMA AllKeysIs ==
  ASSUME Shape, NEW its, ItemsOK(its), NEW vt, TypesOK(vt), NEW c \in Cells
  PROVE  /\ Captured(c.stmts) \subseteq Vars
         /\ AllKeys(its, vt, c.stmts) \subseteq Keys /\ IsFiniteSet(AllKeys(its, vt, c.stmts))
         /\ \A k \in AllKeys(its, vt, c.stmts) :
              k[1] \in Captured(c.stmts) /\ k \in CaptureKeys(its, vt, k[1])
<1>1. Bases \subseteq Vars
  BY KeysAre DEF Bases, Shape
<1>2. Captured(c.stmts) \subseteq Vars
  BY <1>1, CellsAssumption DEF Captured
<1>3. ASSUME NEW k \in AllKeys(its, vt, c.stmts)
      PROVE  k \in Keys /\ k[1] \in Captured(c.stmts) /\ k \in CaptureKeys(its, vt, k[1])
  <2>1. PICK x \in Captured(c.stmts) : k \in CaptureKeys(its, vt, x)
    BY DEF AllKeys
  <2> QED BY <1>2, <2>1, CaptureKeysIs
<1>4. IsFiniteSet(AllKeys(its, vt, c.stmts))
  BY <1>3, KeysAre, FS_Subset
<1> QED BY <1>2, <1>3, <1>4

LEMMA CapturesIs ==
  ASSUME NEW keys, IsFiniteSet(keys), NEW env
  PROVE  LET cs == Captures(keys, env)
         IN  /\ IsLines(cs)
             /\ \A i \in 1..Len(cs) : /\ cs[i].key \in keys /\ cs[i].by = now + 1
                                      /\ cs[i].val = FieldVal(env, cs[i].key)
             /\ \A i, j \in 1..Len(cs) : cs[i].key = cs[j].key => i = j
             /\ \A k \in keys : \E i \in 1..Len(cs) : cs[i].key = k
<1> DEFINE order == SetToSeq(keys)
           n == Cardinality(keys)
           cs == [i \in 1..n |-> Line(order[i], FieldVal(env, order[i]))]
<1>1. /\ n \in Nat /\ order \in [1..n -> keys]
      /\ \A i, j \in 1..n : order[i] = order[j] => i = j
      /\ \A e \in keys : \E i \in 1..n : order[i] = e
  BY SetToSeqIs
<1>2. Captures(keys, env) = cs
  BY <1>1 DEF Captures
<1> HIDE DEF order, n
<1>3. Len(cs) = n
  BY <1>1
<1>4. \A i \in 1..n : cs[i] = Line(order[i], FieldVal(env, order[i]))
  OBVIOUS
<1>5. \A i \in 1..n : /\ cs[i].key = order[i] /\ cs[i].by = now + 1
                      /\ cs[i].val = FieldVal(env, order[i])
  BY <1>4 DEF Line
<1>6. IsLines(cs)
  BY <1>1, <1>3 DEF IsLines
<1> HIDE DEF cs
<1> QED BY <1>1, <1>2, <1>3, <1>5, <1>6

LEMMA AbsorbOK ==
  ASSUME Shape, NEW c \in Cells
  PROVE  ItemsOK(Absorb(c.defs))
BY CellsAssumption DEF Absorb, ItemsOK, Shape

\* Before the block: the definitions and types are those the cell adds.
LEMMA PreparedOK ==
  ASSUME Shape, NEW c \in Cells, Prepare(c)
  PROVE  ItemsOK(items') /\ TypesOK(vtype')
<1>1. ItemsOK(items')
  BY AbsorbOK DEF Prepare
<1> DEFINE ls == Typed(c.stmts)
           vt == vtype'
<1>2. vt = Noted(vtype, ls)
  BY DEF Prepare
<1>3. \A s \in ls : s.var \in Vars /\ s.type \in Types
  BY CellsAssumption DEF Typed
<1>4. TypesOK(vtype) 
  BY DEF Shape
<1> HIDE DEF ls, vt
<1>5. TypesOK(vt)
  <2>1. DOMAIN vt = {s.var : s \in ls} \cup DOMAIN vtype
    BY <1>2, NotedDomain
  <2>2. ASSUME NEW x, \E s \in ls : s.var = x PROVE \E s \in ls : vt[x] = s.type
    BY <1>2, <2>2, NotedNew
  <2>3. ASSUME NEW x \in DOMAIN vtype, ~\E s \in ls : s.var = x PROVE vt[x] = vtype[x]
    BY <1>2, <2>3, NotedOld
  <2> QED BY <1>3, <1>4, <2>1, <2>2, <2>3 DEF TypesOK
<1> QED BY <1>1, <1>5 DEF vt

----------------------------------------------------------------------------
(* The output of a block.                                                   *)

\* Every line of an output is an old one, a print of the cell or a value of the cell.
LEMMA ReportIs ==
  ASSUME Shape, NEW c \in Cells, Prepare(c), NEW env
  PROVE  LET r == Report(c, env)
         IN  /\ IsLines(r)
             /\ \A i \in 1..Len(r) : /\ r[i].key \in AllKeys(items', vtype', c.stmts)
                                     /\ r[i].by = now + 1
                                     /\ r[i].val = FieldVal(env, r[i].key)
             /\ \A i, j \in 1..Len(r) : r[i].key = r[j].key => i = j
             /\ ~Returns(c.stmts) => \A k \in AllKeys(items', vtype', c.stmts) :
                                       \E i \in 1..Len(r) : r[i].key = k
             /\ Returns(c.stmts) => r = <<>>
<1>1. IsFiniteSet(AllKeys(items', vtype', c.stmts))
  BY PreparedOK, AllKeysIs
<1>2. CASE Returns(c.stmts)
  BY <1>2 DEF Report, IsLines
<1>3. CASE ~Returns(c.stmts)
  BY <1>1, <1>3, CapturesIs DEF Report
<1> QED BY <1>2, <1>3

\* Line i of old \o prints \o new.
LEMMA OutputIs ==
  ASSUME NEW s, NEW stmts, NEW n \in Nat, NEW r, IsLines(s), IsLines(r)
  PROVE  LET m == Len(s) + Len(Prints(stmts, n))
             output == s \o Prints(stmts, n) \o r
         IN  /\ IsLines(output) /\ Len(output) = m + Len(r) /\ m \in Nat
             /\ \A i \in 1..Len(s) : i \in 1..Len(output) /\ output[i] = s[i]
             /\ \A i \in 1..Len(r) : m + i \in 1..Len(output) /\ output[m + i] = r[i]
             /\ \A i \in 1..Len(output) : \/ i \in 1..Len(s)
                                          \/ i <= m /\ output[i] = Line(Plain, "out")
                                          \/ \E j \in 1..Len(r) : i = m + j
<1> DEFINE p == Prints(stmts, n)
           m == Len(s) + Len(p)
           sp == s \o p
           output == sp \o r
<1>1. IsLines(p) /\ \A i \in 1..Len(p) : p[i] = Line(Plain, "out")
  BY PrintsIs DEF IsLines
<1> HIDE DEF p
<1>2. /\ IsLines(sp) /\ Len(sp) = m
      /\ \A i \in 1..Len(s) : sp[i] = s[i]
      /\ \A i \in 1..Len(p) : sp[Len(s) + i] = p[i]
      /\ \A i \in 1..m : i \in 1..Len(s) \/ \E j \in 1..Len(p) : i = Len(s) + j
  BY <1>1, ConcatIs
<1> HIDE DEF sp
<1>3. /\ IsLines(output) /\ Len(output) = m + Len(r)
      /\ \A i \in 1..m : output[i] = sp[i]
      /\ \A i \in 1..Len(r) : output[m + i] = r[i]
      /\ \A i \in 1..Len(output) : i \in 1..m \/ \E j \in 1..Len(r) : i = m + j
  <2>1. /\ IsLines(output) /\ Len(output) = Len(sp) + Len(r)
        /\ \A i \in 1..Len(sp) : output[i] = sp[i]
        /\ \A i \in 1..Len(r) : output[Len(sp) + i] = r[i]
        /\ \A i \in 1..Len(output) : i \in 1..Len(sp) \/ \E j \in 1..Len(r) : i = Len(sp) + j
    <3>1. IsLines(sp)
      BY <1>2
    <3>2. IsLines(output) /\ Len(output) = Len(sp) + Len(r)
      BY <3>1, ConcatIs
    <3>3. \A i \in 1..Len(sp) : output[i] = sp[i]
      BY <3>1, ConcatIs
    <3>4. \A i \in 1..Len(r) : output[Len(sp) + i] = r[i]
      BY <3>1, ConcatIs
    <3>5. \A i \in 1..Len(output) : i \in 1..Len(sp) \/ \E j \in 1..Len(r) : i = Len(sp) + j
      BY <3>1, ConcatIs
    <3> QED BY <3>2, <3>3, <3>4, <3>5
  <2> HIDE DEF output
  <2> QED BY <1>2, <2>1
<1> HIDE DEF output
<1>4. Len(s) \in Nat /\ Len(p) \in Nat /\ Len(r) \in Nat
  BY <1>1 DEF IsLines
<1>5. ASSUME NEW i \in 1..Len(s) PROVE i \in 1..Len(output) /\ output[i] = s[i]
  <2>1. i \in 1..m /\ i \in 1..Len(output)
    BY <1>3, <1>4
  <2> QED BY <1>2, <1>3, <2>1
<1>6. ASSUME NEW i \in 1..Len(r) PROVE m + i \in 1..Len(output) /\ output[m + i] = r[i]
  <2>1. m + i \in 1..Len(output)
    BY <1>3, <1>4
  <2> QED BY <1>3, <2>1
<1>7. ASSUME NEW i \in 1..Len(output)
      PROVE  \/ i \in 1..Len(s)
             \/ i <= m /\ output[i] = Line(Plain, "out")
             \/ \E j \in 1..Len(r) : i = m + j
  <2>1. CASE i \in 1..m
    <3>1. CASE i \notin 1..Len(s)
      <4>1. PICK j \in 1..Len(p) : i = Len(s) + j
        BY <1>2, <2>1, <3>1
      <4>2. output[i] = sp[i] /\ sp[i] = p[j] /\ p[j] = Line(Plain, "out")
        BY <1>1, <1>2, <1>3, <2>1, <4>1
      <4>3. i <= m
        BY <1>4, <2>1
      <4> QED BY <4>2, <4>3
    <3> QED BY <3>1
  <2> QED BY <1>3, <2>1
<1>8. m \in Nat
  BY <1>4
<1> QED BY <1>3, <1>5, <1>6, <1>7, <1>8 DEF output, sp, p

LEMMA AddedIs ==
  ASSUME NEW s, NEW stmts, NEW n \in Nat, NEW r, IsLines(s), IsLines(r)
  PROVE  LET output == s \o Prints(stmts, n) \o r
         IN  /\ IsLines(output)
             /\ \A i \in 1..Len(s) : i \in 1..Len(output) /\ output[i] = s[i]
             /\ \A i \in 1..Len(output) : \/ i \in 1..Len(s) /\ output[i] = s[i]
                                          \/ output[i] = Line(Plain, "out")
                                          \/ \E j \in 1..Len(r) : output[i] = r[j]
<1> DEFINE m == Len(s) + Len(Prints(stmts, n))
           output == s \o Prints(stmts, n) \o r
<1>1. /\ IsLines(output)
      /\ \A i \in 1..Len(s) : i \in 1..Len(output) /\ output[i] = s[i]
      /\ \A i \in 1..Len(r) : m + i \in 1..Len(output) /\ output[m + i] = r[i]
      /\ \A i \in 1..Len(output) : \/ i \in 1..Len(s)
                                   \/ i <= m /\ output[i] = Line(Plain, "out")
                                   \/ \E j \in 1..Len(r) : i = m + j
  BY OutputIs
<1> HIDE DEF m, output
<1> QED BY <1>1 DEF output

LEMMA PrintedIs ==
  ASSUME NEW s, NEW stmts, NEW n \in Nat, IsLines(s)
  PROVE  LET output == s \o Prints(stmts, n)
         IN  /\ IsLines(output)
             /\ \A i \in 1..Len(s) : i \in 1..Len(output) /\ output[i] = s[i]
             /\ \A i \in 1..Len(output) : \/ i \in 1..Len(s) /\ output[i] = s[i]
                                          \/ output[i] = Line(Plain, "out")
<1> DEFINE p == Prints(stmts, n)
           output == s \o p
<1>1. IsLines(p) /\ \A i \in 1..Len(p) : p[i] = Line(Plain, "out")
  BY PrintsIs DEF IsLines
<1> HIDE DEF p
<1>2. /\ IsLines(output) /\ Len(output) = Len(s) + Len(p)
      /\ \A i \in 1..Len(s) : output[i] = s[i]
      /\ \A i \in 1..Len(p) : output[Len(s) + i] = p[i]
      /\ \A i \in 1..Len(output) : i \in 1..Len(s) \/ \E j \in 1..Len(p) : i = Len(s) + j
  BY <1>1, ConcatIs
<1> HIDE DEF output
<1>3. Len(s) \in Nat /\ Len(p) \in Nat
  BY <1>1 DEF IsLines
<1>4. \A i \in 1..Len(s) : i \in 1..Len(output)
  BY <1>2, <1>3
<1> QED BY <1>1, <1>2, <1>4 DEF output, p

\* The values an output tells of are those of variables; what is kept is kept or told.
LEMMA ParsedIs ==
  ASSUME NEW its, NEW vt, NEW output, IsLines(output), NEW S, DOMAIN snap \subseteq S,
         \A i \in 1..Len(output) : output[i].key \in S \cup {Plain}
  PROVE  LET kept == ParseSnapshot(its, vt, output)
         IN  /\ DOMAIN kept \subseteq S
             /\ \A k \in DOMAIN kept :
                  \/ k \notin Told(output) /\ k \in DOMAIN snap /\ kept[k] = snap[k]
                  \/ \E i \in 1..Len(output) :
                       /\ output[i].key = k /\ k # Plain /\ output[i].val # "null"
                       /\ kept[k] = Stored(its, vt, k, output[i].val)
<1> DEFINE kept == ParseSnapshot(its, vt, output)
           D == {j \in DOMAIN snap \cup Told(output) :
                   j \in Told(output) => LastTold(output, j) # "null"}
<1>1. DOMAIN output = 1..Len(output) /\ Len(output) \in Nat
  BY DEF IsLines
<1>2. Told(output) \subseteq S /\ \A k \in Told(output) : k # Plain
  BY <1>1 DEF Told
<1>3. kept = [k \in D |-> IF k \in Told(output) THEN Stored(its, vt, k, LastTold(output, k)) ELSE snap[k]]
  BY DEF ParseSnapshot
<1>4. DOMAIN kept = D
  BY <1>3
<1>5. ASSUME NEW k \in D, k \in Told(output)
      PROVE  \E i \in 1..Len(output) :
               /\ output[i].key = k /\ k # Plain /\ output[i].val # "null"
               /\ kept[k] = Stored(its, vt, k, output[i].val)
  <2>1. PICK i \in 1..Len(output) : output[i].key = k /\ LastTold(output, k) = output[i].val
    BY <1>1, <1>5, LastToldIs
  <2>2. LastTold(output, k) # "null" /\ kept[k] = Stored(its, vt, k, LastTold(output, k))
    BY <1>3, <1>5
  <2> QED BY <1>2, <1>5, <2>1, <2>2
<1>6. ASSUME NEW k \in D, k \notin Told(output)
      PROVE  k \in DOMAIN snap /\ kept[k] = snap[k]
  BY <1>3, <1>6
<1>7. D \subseteq S
  BY <1>2
<1> HIDE DEF kept, D
<1> QED BY <1>4, <1>5, <1>6, <1>7 DEF kept

\* The output of the cell that ran last, and what is printed of it.
Output(c, env) == buffer \o Prints(c.stmts, Upto(c.stmts)) \o Report(c, env)

LEMMA RunIs ==
  ASSUME Shape, NEW c \in Cells, CellRuns(c)
  PROVE  LET env == Env(items', c.stmts, Upto(c.stmts))
             output == Output(c, env)
         IN  /\ Prepare(c) /\ Compiles(items', vtype', c.stmts)
             /\ Converts(items', c.stmts, Upto(c.stmts))
             /\ snap' = ParseSnapshot(items', vtype', output)
             /\ printed' = Restrict(output, {i \in DOMAIN output : IsPlain(output[i])})
             /\ Input(IF Returns(c.stmts) THEN "returned" ELSE "ok", env)
             /\ buffer' = <<>> /\ stale' = stale
             /\ IsLines(output)
             /\ \A i \in 1..Len(output) :
                  \/ i \in 1..Len(buffer) /\ output[i] = buffer[i]
                  \/ output[i] = Line(Plain, "out")
                  \/ /\ output[i].key \in AllKeys(items', vtype', c.stmts) /\ output[i].by = now + 1
                     /\ output[i].val = FieldVal(env, output[i].key) /\ ~Returns(c.stmts)
             /\ \A i \in 1..Len(buffer) : i \in 1..Len(output) /\ output[i] = buffer[i]
             /\ \A i \in 1..Len(output) : output[i].key \in KeyT
<1> DEFINE n == Upto(c.stmts)
           env == Env(items', c.stmts, n)
           r == Report(c, env)
           output == buffer \o Prints(c.stmts, n) \o r
<1>1. /\ Prepare(c) /\ Compiles(items', vtype', c.stmts) /\ Converts(items', c.stmts, n)
      /\ snap' = ParseSnapshot(items', vtype', output)
      /\ printed' = Restrict(output, {i \in DOMAIN output : IsPlain(output[i])})
      /\ Input(IF Returns(c.stmts) THEN "returned" ELSE "ok", env)
      /\ buffer' = <<>> /\ stale' = stale
  BY DEF CellRuns
<1>2. n \in Nat
  <2>1. Len(c.stmts) \in Nat
    BY CellsAssumption
  <2> QED BY <2>1, UptoIs
<1>3. /\ IsLines(r)
      /\ \A i \in 1..Len(r) : /\ r[i].key \in AllKeys(items', vtype', c.stmts)
                              /\ r[i].by = now + 1 /\ r[i].val = FieldVal(env, r[i].key)
      /\ Returns(c.stmts) => r = <<>>
  BY <1>1, ReportIs
<1>4. IsLines(buffer) /\ \A i \in 1..Len(buffer) : buffer[i].key \in KeyT
  BY DEF Shape
<1>5. Output(c, env) = output
  BY DEF Output
<1> HIDE DEF r, env, n
<1>6. /\ IsLines(output)
      /\ \A i \in 1..Len(buffer) : i \in 1..Len(output) /\ output[i] = buffer[i]
      /\ \A i \in 1..Len(output) :
           \/ i \in 1..Len(buffer)
           \/ output[i] = Line(Plain, "out")
           \/ \E j \in 1..Len(r) : output[i] = r[j]
  <2>1. /\ IsLines(output)
        /\ \A i \in 1..Len(buffer) : i \in 1..Len(output) /\ output[i] = buffer[i]
        /\ \A i \in 1..Len(output) : \/ i \in 1..Len(buffer) /\ output[i] = buffer[i]
                                     \/ output[i] = Line(Plain, "out")
                                     \/ \E j \in 1..Len(r) : output[i] = r[j]
    BY <1>2, <1>3, <1>4, AddedIs
  <2> HIDE DEF output
  <2> QED BY <2>1
<1> HIDE DEF output
<1>7. Returns(c.stmts) => Len(r) = 0
  BY <1>3
<1>8. ASSUME NEW i \in 1..Len(output)
      PROVE  \/ i \in 1..Len(buffer) /\ output[i] = buffer[i]
             \/ output[i] = Line(Plain, "out")
             \/ /\ output[i].key \in AllKeys(items', vtype', c.stmts) /\ output[i].by = now + 1
                /\ output[i].val = FieldVal(env, output[i].key) /\ ~Returns(c.stmts)
  BY <1>3, <1>6, <1>7
<1>9. AllKeys(items', vtype', c.stmts) \subseteq KeyT
  BY <1>1, PreparedOK, AllKeysIs DEF KeyT
<1>10. Line(Plain, "out").key \in KeyT
  BY DEF Line, KeyT
<1>11. \A i \in 1..Len(output) : output[i].key \in KeyT
  BY <1>4, <1>8, <1>9, <1>10
<1> QED BY <1>1, <1>5, <1>6, <1>8, <1>11 DEF env, n

\* A block that raises adds lines to those nobody has read.
LEMMA RaiseIs ==
  ASSUME Shape, NEW c \in Cells, CellRaises(c)
  PROVE  LET env == Env(items', c.stmts, Upto(c.stmts))
         IN  /\ Prepare(c) /\ Input("error", Nothing) /\ printed' = <<>>
             /\ snap' = snap /\ stale' = stale
             /\ IsLines(buffer')
             /\ \A i \in 1..Len(buffer) : i \in 1..Len(buffer') /\ buffer'[i] = buffer[i]
             /\ \A i \in 1..Len(buffer') :
                  \/ i \in 1..Len(buffer) /\ buffer'[i] = buffer[i]
                  \/ buffer'[i] = Line(Plain, "out")
                  \/ /\ buffer'[i].key \in AllKeys(items', vtype', c.stmts)
                     /\ buffer'[i].val = FieldVal(env, buffer'[i].key) /\ ~Returns(c.stmts)
                     /\ Compiles(items', vtype', c.stmts)
                     /\ Converts(items', c.stmts, Upto(c.stmts))
<1> DEFINE u == Upto(c.stmts)
           env == Env(items', c.stmts, u)
           r == Report(c, env)
<1>1. Prepare(c) /\ Input("error", Nothing) /\ printed' = <<>> /\ snap' = snap /\ stale' = stale
  BY DEF CellRaises
<1>2. u \in Nat /\ \A n \in 0..(u - 1) : n \in Nat
  <2>1. Len(c.stmts) \in Nat
    BY CellsAssumption
  <2> QED BY <2>1, UptoIs
<1>3. /\ IsLines(r)
      /\ \A i \in 1..Len(r) : /\ r[i].key \in AllKeys(items', vtype', c.stmts)
                              /\ r[i].val = FieldVal(env, r[i].key)
      /\ Returns(c.stmts) => r = <<>>
  BY <1>1, ReportIs
<1>4. IsLines(buffer) /\ \A i \in 1..Len(buffer) : buffer[i].key \in KeyT
  BY DEF Shape
<1>5. \/ buffer' = buffer
      \/ \E n \in 0..(u - 1) : buffer' = buffer \o Prints(c.stmts, n)
      \/ /\ Compiles(items', vtype', c.stmts) /\ Converts(items', c.stmts, u)
         /\ \E n \in DOMAIN r : buffer' = buffer \o Prints(c.stmts, u) \o SubSeq(r, 1, n - 1)
  BY DEF CellRaises
<1> HIDE DEF r, env, u
<1>6. CASE buffer' = buffer
  BY <1>1, <1>4, <1>6 DEF env, u
<1>7. ASSUME NEW n \in 0..(u - 1), buffer' = buffer \o Prints(c.stmts, n)
      PROVE  /\ IsLines(buffer')
             /\ \A i \in 1..Len(buffer) : i \in 1..Len(buffer') /\ buffer'[i] = buffer[i]
             /\ \A i \in 1..Len(buffer') : \/ i \in 1..Len(buffer) /\ buffer'[i] = buffer[i]
                                           \/ buffer'[i] = Line(Plain, "out")
  <2> DEFINE b == buffer \o Prints(c.stmts, n)
  <2>1. /\ IsLines(b)
        /\ \A i \in 1..Len(buffer) : i \in 1..Len(b) /\ b[i] = buffer[i]
        /\ \A i \in 1..Len(b) : \/ i \in 1..Len(buffer) /\ b[i] = buffer[i]
                                \/ b[i] = Line(Plain, "out")
    <3>1. n \in Nat /\ IsLines(buffer)
      BY <1>2, <1>4
    <3> QED BY <3>1, PrintedIs
  <2>2. buffer' = b
    BY <1>7
  <2> HIDE DEF b
  <2> QED BY <2>1, <2>2
<1>8. CASE \E n \in 0..(u - 1) : buffer' = buffer \o Prints(c.stmts, n)
  BY <1>1, <1>7, <1>8 DEF env, u
<1>9. CASE /\ Compiles(items', vtype', c.stmts) /\ Converts(items', c.stmts, u)
            /\ \E n \in DOMAIN r : buffer' = buffer \o Prints(c.stmts, u) \o SubSeq(r, 1, n - 1)
  <2>1. PICK n \in DOMAIN r : buffer' = buffer \o Prints(c.stmts, u) \o SubSeq(r, 1, n - 1)
    BY <1>9
  <2> DEFINE q == SubSeq(r, 1, n - 1)
  <2>2. n \in 1..Len(r) /\ n - 1 \in 0..Len(r) /\ r # <<>>
    BY <1>3, <2>1 DEF IsLines
  <2>3. IsLines(q) /\ Len(q) = n - 1 /\ \A i \in 1..(n - 1) : i \in 1..Len(r) /\ q[i] = r[i]
    BY <1>3, <2>2, PrefixIs
  <2>4. buffer' = buffer \o Prints(c.stmts, u) \o q
    BY <2>1
  <2> HIDE DEF q
  <2>5. /\ IsLines(buffer')
        /\ \A i \in 1..Len(buffer) : i \in 1..Len(buffer') /\ buffer'[i] = buffer[i]
        /\ \A i \in 1..Len(buffer') :
             \/ i \in 1..Len(buffer) /\ buffer'[i] = buffer[i]
             \/ buffer'[i] = Line(Plain, "out")
             \/ \E j \in 1..Len(q) : buffer'[i] = q[j]
    <3> DEFINE b == buffer \o Prints(c.stmts, u) \o q
    <3>1. /\ IsLines(b)
          /\ \A i \in 1..Len(buffer) : i \in 1..Len(b) /\ b[i] = buffer[i]
          /\ \A i \in 1..Len(b) : \/ i \in 1..Len(buffer) /\ b[i] = buffer[i]
                                  \/ b[i] = Line(Plain, "out")
                                  \/ \E j \in 1..Len(q) : b[i] = q[j]
      BY <1>2, <1>4, <2>3, AddedIs
    <3> HIDE DEF b
    <3> QED BY <2>4, <3>1 DEF b
  <2>6. ~Returns(c.stmts)
    BY <1>3, <2>2
  <2>7. ASSUME NEW i \in 1..Len(buffer'), NEW j \in 1..Len(q), buffer'[i] = q[j]
        PROVE  /\ buffer'[i].key \in AllKeys(items', vtype', c.stmts)
               /\ buffer'[i].val = FieldVal(env, buffer'[i].key)
    BY <1>3, <2>3, <2>7
  <2> QED BY <1>1, <1>9, <2>5, <2>6, <2>7 DEF env, u
<1> QED BY <1>5, <1>6, <1>8, <1>9

----------------------------------------------------------------------------
(* The shape of what is kept, and the output.                               *)

\* Lines that stand one after the other in the buffer and after one more.
LEMMA AppendIs ==
  ASSUME NEW s, IsLines(s), NEW e
  PROVE  /\ IsLines(Append(s, e)) /\ Len(Append(s, e)) = Len(s) + 1
         /\ \A i \in 1..Len(s) : i \in 1..Len(Append(s, e)) /\ Append(s, e)[i] = s[i]
         /\ \A i \in 1..Len(Append(s, e)) : \/ i \in 1..Len(s) /\ Append(s, e)[i] = s[i]
                                            \/ Append(s, e)[i] = e
<1> DEFINE S == {s[i] : i \in 1..Len(s)} \cup {e}
           a == Append(s, e)
<1>1. s \in Seq(S) /\ e \in S /\ Len(s) \in Nat
  BY LinesAreSeq DEF IsLines
<1> HIDE DEF S
<1>2. /\ a \in Seq(S) /\ Len(a) = Len(s) + 1 /\ a[Len(s) + 1] = e
      /\ \A i \in 1..Len(s) : a[i] = s[i]
  BY <1>1, AppendProperties
<1>3. IsLines(a)
  BY <1>2, SeqIsLines
<1> HIDE DEF a
<1>4. \A i \in 1..Len(s) : i \in 1..Len(a)
  BY <1>1, <1>2
<1>5. \A i \in 1..Len(a) : i \in 1..Len(s) \/ i = Len(s) + 1
  BY <1>1, <1>2
<1> QED BY <1>2, <1>3, <1>4, <1>5 DEF a

LEMMA ShapeStarts == Init => Shape
<1> SUFFICES ASSUME Init PROVE Shape
  OBVIOUS
<1>1. now = 0 /\ items = {} /\ snap = <<>> /\ vtype = <<>> /\ buffer = <<>>
  BY DEF Init
<1>2. IsLines(buffer) /\ Len(buffer) = 0 /\ DOMAIN snap = {} /\ DOMAIN vtype = {}
  BY <1>1 DEF IsLines
<1> QED BY <1>1, <1>2 DEF Shape, ItemsOK, TypesOK

LEMMA ShapeStays == Shape /\ [Next]_vars => Shape'
<1> SUFFICES ASSUME Shape, [Next]_vars PROVE Shape'
  OBVIOUS
<1> USE DEF Shape
<1>0. IsLines(<<>>) /\ Len(<<>>) = 0 /\ DOMAIN <<>> = {}
  BY DEF IsLines
<1>1. CASE UNCHANGED vars
  BY <1>1 DEF vars, repl, db
<1>2. CASE SyntaxError \/ RawDml \/ RawRollback
  BY <1>2 DEF SyntaxError, RawDml, RawRollback, Input, repl, db
<1>3. CASE Reset
  BY <1>0, <1>3 DEF Reset, Input, db, ItemsOK, TypesOK
<1>4. CASE Connect
  BY <1>0, <1>4 DEF Connect, Input, repl
<1>5. CASE ExecBlock
  BY <1>0, <1>5 DEF ExecBlock, Input, repl
<1>6. CASE ExecRaises
  <2>1. Line(Plain, "out").key \in KeyT
    BY DEF Line, KeyT
  <2>2. now' = now + 1 /\ UNCHANGED repl
        /\ (buffer' = buffer \/ buffer' = Append(buffer, Line(Plain, "out")))
    BY <1>6 DEF ExecRaises, Input
  <2> DEFINE e == Line(Plain, "out")
  <2> HIDE DEF e
  <2>3. IsLines(buffer') /\ \A i \in 1..Len(buffer') : buffer'[i].key \in KeyT
    <3>1. CASE buffer' = buffer
      BY <3>1
    <3>2. CASE buffer' = Append(buffer, e)
      <4> DEFINE b == Append(buffer, e)
      <4>1. IsLines(b) /\ \A i \in 1..Len(b) : (i \in 1..Len(buffer) /\ b[i] = buffer[i]) \/ b[i] = e
        BY AppendIs
      <4> HIDE DEF b
      <4> QED BY <2>1, <3>2, <4>1 DEF b, e
    <3> QED BY <2>2, <3>1, <3>2 DEF e
  <2> QED BY <2>2, <2>3 DEF repl
<1>7. ASSUME NEW c \in Cells, CellStops(c) \/ Load(c) PROVE Shape'
  <2>1. items' = Absorb(c.defs) /\ now' = now + 1 /\ UNCHANGED <<snap, vtype, buffer>>
    BY <1>7 DEF CellStops, Load, Input, db
  <2>2. ItemsOK(items')
    BY <2>1, AbsorbOK
  <2> QED BY <2>1, <2>2
<1>8. ASSUME NEW c \in Cells, CellRuns(c) PROVE Shape'
  <2> DEFINE output == Output(c, Env(items', c.stmts, Upto(c.stmts)))
  <2>1. /\ Prepare(c) /\ snap' = ParseSnapshot(items', vtype', output) /\ now' = now + 1 /\ buffer' = <<>>
        /\ IsLines(output) /\ \A i \in 1..Len(output) : output[i].key \in KeyT
    BY <1>8, RunIs DEF Input
  <2> HIDE DEF output
  <2>2. DOMAIN snap' \subseteq Keys
    BY <2>1, ParsedIs DEF KeyT
  <2> QED BY <1>0, <2>1, <2>2, PreparedOK
<1>9. ASSUME NEW c \in Cells, CellRaises(c) PROVE Shape'
  <2>1. /\ Prepare(c) /\ now' = now + 1 /\ snap' = snap /\ IsLines(buffer')
        /\ \A i \in 1..Len(buffer') : \/ i \in 1..Len(buffer) /\ buffer'[i] = buffer[i]
                                      \/ buffer'[i] = Line(Plain, "out")
                                      \/ buffer'[i].key \in AllKeys(items', vtype', c.stmts)
    BY <1>9, RaiseIs DEF Input
  <2>2. ItemsOK(items') /\ TypesOK(vtype') /\ AllKeys(items', vtype', c.stmts) \subseteq KeyT
    BY <2>1, PreparedOK, AllKeysIs DEF KeyT
  <2>3. Line(Plain, "out").key \in KeyT
    BY DEF Line, KeyT
  <2>4. \A i \in 1..Len(buffer') : buffer'[i].key \in KeyT
    BY <2>1, <2>2, <2>3
  <2> QED BY <2>1, <2>2, <2>4
<1> QED BY <1>1, <1>2, <1>3, <1>4, <1>5, <1>6, <1>7, <1>8, <1>9 DEF Next

LEMMA LinesDomain ==
  ASSUME NEW s, IsLines(s)
  PROVE  DOMAIN s = 1..Len(s)
BY DEF IsLines

There(s, l) == \E i \in DOMAIN s : s[i] = l
Reaches ==
  /\ \A i \in DOMAIN buffer : IsPlain(buffer[i]) =>
       There(buffer', buffer[i]) \/ There(printed', buffer[i]) \/ last'.ended = "connect"
  /\ \A i \in DOMAIN printed' : printed'[i].by = now' \/ There(buffer, printed'[i])
  /\ buffer' # <<>> => buffer' = buffer \/ last'.ended = "error"

LEMMA ReachesStep == Shape /\ [Next]_vars => [Reaches]_vars
<1> SUFFICES ASSUME Shape, [Next]_vars, ~UNCHANGED vars PROVE Reaches
  OBVIOUS
<1>0. DOMAIN <<>> = {}
  OBVIOUS
<1>1. IsLines(buffer) /\ DOMAIN buffer = 1..Len(buffer) /\ now \in Nat
  BY LinesDomain DEF Shape
<1>2. ASSUME printed' = <<>>, buffer' = buffer PROVE Reaches
  BY <1>0, <1>2 DEF Reaches, There
<1>3. CASE SyntaxError \/ Reset \/ RawDml \/ RawRollback
  BY <1>2, <1>3 DEF SyntaxError, Reset, RawDml, RawRollback, db
<1>4. CASE Connect
  BY <1>0, <1>4 DEF Connect, Input, Reaches
<1>5. CASE ExecBlock
  <2> DEFINE e == Line(Plain, "out")
             p == Append(buffer, e)
  <2>1. printed' = p /\ buffer' = <<>> /\ now' = now + 1
    BY <1>5 DEF ExecBlock, Input
  <2>2. e.by = now'
    BY <2>1 DEF Line
  <2> HIDE DEF e
  <2>3. /\ IsLines(p)
        /\ \A i \in 1..Len(buffer) : i \in 1..Len(p) /\ p[i] = buffer[i]
        /\ \A i \in 1..Len(p) : (i \in 1..Len(buffer) /\ p[i] = buffer[i]) \/ p[i] = e
    BY <1>1, AppendIs
  <2> HIDE DEF p
  <2>4. DOMAIN p = 1..Len(p)
    BY <2>3, LinesDomain
  <2> QED BY <1>1, <2>1, <2>2, <2>3, <2>4 DEF Reaches, There
<1>6. CASE ExecRaises
  <2> DEFINE e == Line(Plain, "out")
             p == Append(buffer, e)
  <2>1. /\ printed' = <<>> /\ last'.ended = "error" /\ (buffer' = buffer \/ buffer' = p)
    BY <1>6 DEF ExecRaises, Input
  <2> HIDE DEF e
  <2>2. IsLines(p) /\ \A i \in 1..Len(buffer) : i \in 1..Len(p) /\ p[i] = buffer[i]
    BY <1>1, AppendIs
  <2> HIDE DEF p
  <2>3. DOMAIN p = 1..Len(p)
    BY <2>2, LinesDomain
  <2> QED BY <1>0, <1>1, <2>1, <2>2, <2>3 DEF Reaches, There
<1>7. ASSUME NEW c \in Cells, CellStops(c) \/ Load(c) PROVE Reaches
  BY <1>2, <1>7 DEF CellStops, Load, db
<1>8. ASSUME NEW c \in Cells, CellRuns(c) PROVE Reaches
  <2> DEFINE env == Env(items', c.stmts, Upto(c.stmts))
             output == Output(c, env)
             plain == {i \in DOMAIN output : IsPlain(output[i])}
  <2>1. /\ printed' = Restrict(output, plain) /\ buffer' = <<>> /\ now' = now + 1 /\ IsLines(output)
        /\ \A i \in 1..Len(output) : \/ i \in 1..Len(buffer) /\ output[i] = buffer[i]
                                     \/ output[i] = Line(Plain, "out")
                                     \/ output[i].by = now + 1
        /\ \A i \in 1..Len(buffer) : i \in 1..Len(output) /\ output[i] = buffer[i]
    BY <1>8, RunIs DEF Input
  <2> HIDE DEF output
  <2>2. DOMAIN output = 1..Len(output)
    BY <2>1, LinesDomain
  <2>3. DOMAIN printed' = plain /\ \A i \in plain : printed'[i] = output[i]
    BY <2>1 DEF Restrict
  <2>4. Line(Plain, "out").by = now'
    BY <2>1 DEF Line
  <2>5. ASSUME NEW i \in DOMAIN buffer, IsPlain(buffer[i])
        PROVE  There(printed', buffer[i])
    <3>1. i \in plain /\ output[i] = buffer[i]
      BY <1>1, <2>1, <2>2, <2>5
    <3> QED BY <2>3, <3>1 DEF There
  <2>6. ASSUME NEW i \in plain
        PROVE  output[i].by = now' \/ There(buffer, output[i])
    <3>1. i \in 1..Len(output)
      BY <2>2
    <3> QED BY <1>1, <2>1, <2>4, <3>1 DEF There
  <2> QED BY <2>1, <2>3, <2>5, <2>6 DEF Reaches
<1>9. ASSUME NEW c \in Cells, CellRaises(c) PROVE Reaches
  <2>1. /\ printed' = <<>> /\ last'.ended = "error" /\ IsLines(buffer')
        /\ \A i \in 1..Len(buffer) : i \in 1..Len(buffer') /\ buffer'[i] = buffer[i]
    BY <1>9, RaiseIs DEF Input
  <2>2. DOMAIN buffer' = 1..Len(buffer')
    BY <2>1, LinesDomain
  <2> QED BY <1>0, <1>1, <2>1, <2>2 DEF Reaches, There
<1> QED BY <1>3, <1>4, <1>5, <1>6, <1>7, <1>8, <1>9 DEF Next

THEOREM ShapeHolds == Spec => []Shape
BY ShapeStarts, ShapeStays, PTL DEF Spec

\* No output is lost but with its session: what a block that raised had put out waits in the
\* buffer until a block that does not raise prints it below its cell, whatever the cells are.
THEOREM OutputReachesHolds == Spec => OutputReaches
<1>1. [Reaches]_vars => [LET there(s, l) == \E i \in DOMAIN s : s[i] = l IN
      /\ \A i \in DOMAIN buffer : IsPlain(buffer[i]) =>
           there(buffer', buffer[i]) \/ there(printed', buffer[i]) \/ last'.ended = "connect"
      /\ \A i \in DOMAIN printed' : printed'[i].by = now' \/ there(buffer, printed'[i])
      /\ buffer' # <<>> => buffer' = buffer \/ last'.ended = "error" ]_vars
  BY DEF Reaches, There
<1>2. QED
  BY <1>1, ShapeHolds, ReachesStep, PTL DEF Spec, OutputReaches


----------------------------------------------------------------------------
(* What is kept after a cell that ended well.                               *)

\* What the block of a cell starts with and what it declares has a variable the cell captures.
LEMMA DeclaredIs ==
  ASSUME NEW its, NEW stmts
  PROVE  /\ DOMAIN Start(its) = {r.var : r \in Replays(its)}
         /\ \A r \in Replays(its) : r.var \in Captured(stmts)
         /\ \A s \in LetsOf(stmts) : s.var \in Captured(stmts)
         /\ \A d \in Declares(its, stmts) : \/ \E r \in Replays(its) : d = <<r.var, r.type>>
                                            \/ \E s \in LetsOf(stmts) : d = <<s.var, s.type>>
<1>1. ASSUME NEW r \in Replays(its) PROVE r.var \in Bases
  <2>1. \/ \E k \in DOMAIN snap : r = [var |-> k[1], type |-> Annot(snap[k].type), val |-> Scalar(snap[k].val)]
        \/ \E x \in {k[1] : k \in {j \in DOMAIN snap : IsRecordKey(j)}} \cap DOMAIN vrec :
             r = [var |-> x, type |-> vrec[x],
                  val |-> [f \in FieldsOf(its, vrec[x]) |->
                             IF <<x, f>> \in DOMAIN snap THEN snap[<<x, f>>].val ELSE "null"]]
    BY DEF Replays
  <2> QED BY <2>1 DEF Bases
<1>2. DOMAIN Start(its) = {r.var : r \in Replays(its)}
  BY DEF Start
<1> QED BY <1>1, <1>2 DEF Captured, Declares

LEMMA EnvFrom ==
  ASSUME NEW its, NEW stmts, NEW n \in Nat, NEW x \in DOMAIN Env(its, stmts, n)
  PROVE  \/ \E i \in Assigns(stmts, n) : stmts[i].var = x /\ Env(its, stmts, n)[x] = stmts[i].val
         \/ x \in DOMAIN Start(its) /\ Env(its, stmts, n)[x] = Start(its)[x]
BY EnvIs

\* Every variable at the end of a block that compiles is captured.
LEMMA EnvCaptured ==
  ASSUME NEW c \in Cells, NEW its, NEW vt, Compiles(its, vt, c.stmts), NEW n \in 0..Len(c.stmts)
  PROVE  DOMAIN Env(its, c.stmts, n) \subseteq Captured(c.stmts)
<1> DEFINE stmts == c.stmts
<1>1. Len(stmts) \in Nat /\ DOMAIN stmts = 1..Len(stmts)
  BY CellsAssumption
<1>2. ASSUME NEW i \in Assigns(stmts, n) PROVE stmts[i].var \in Captured(stmts)
  <2>1. i \in DOMAIN stmts /\ stmts[i].op \in {"let", "set"}
    BY <1>1 DEF Assigns
  <2>2. CASE stmts[i].op = "let"
    <3>1. stmts[i] \in LetsOf(stmts)
      BY <2>1, <2>2 DEF LetsOf, IsLet
    <3> QED BY <3>1, DeclaredIs
  <2>3. CASE stmts[i].op = "set"
    <3>1. PICK d \in Declares(its, stmts) : d[1] = stmts[i].var
      BY <2>1, <2>3 DEF Compiles
    <3>2. \/ \E r \in Replays(its) : d = <<r.var, r.type>>
          \/ \E s \in LetsOf(stmts) : d = <<s.var, s.type>>
      BY DeclaredIs
    <3>3. \/ \E r \in Replays(its) : d[1] = r.var
          \/ \E s \in LetsOf(stmts) : d[1] = s.var
      BY <3>2
    <3> QED BY <3>1, <3>3, DeclaredIs
  <2> QED BY <2>1, <2>2, <2>3
<1>3. n \in Nat
  BY <1>1
<1>4. ASSUME NEW x \in DOMAIN Env(its, c.stmts, n)
      PROVE  \/ \E i \in Assigns(c.stmts, n) : c.stmts[i].var = x
             \/ x \in DOMAIN Start(its)
  BY <1>3, EnvFrom
<1>5. DOMAIN Start(its) = {r.var : r \in Replays(its)} /\ \A r \in Replays(its) : r.var \in Captured(c.stmts)
  BY DeclaredIs
<1>6. DOMAIN Start(its) \subseteq Captured(c.stmts)
  BY <1>5
<1> QED BY <1>2, <1>4, <1>6

\* The lines a cell puts out at its end come last, one for every key: an older line with the
\* same key does not count.
LEMMA ReportCounts ==
  ASSUME Shape, NEW c \in Cells, CellRuns(c), ~Returns(c.stmts),
         NEW k \in AllKeys(items', vtype', c.stmts)
  PROVE  LET env == Env(items', c.stmts, Upto(c.stmts))
         IN  k \in Told(Output(c, env)) /\ LastTold(Output(c, env), k) = FieldVal(env, k)
<1> DEFINE n == Upto(c.stmts)
           env == Env(items', c.stmts, n)
           r == Report(c, env)
           m == Len(buffer) + Len(Prints(c.stmts, n))
           output == buffer \o Prints(c.stmts, n) \o r
<1>1. Prepare(c)
  BY DEF CellRuns
<1>2. n \in Nat
  <2>1. Len(c.stmts) \in Nat
    BY CellsAssumption
  <2> QED BY <2>1, UptoIs
<1>3. /\ IsLines(r)
      /\ \A i \in 1..Len(r) : r[i].val = FieldVal(env, r[i].key)
      /\ \A i, j \in 1..Len(r) : r[i].key = r[j].key => i = j
      /\ \E i \in 1..Len(r) : r[i].key = k
  <2>1. /\ IsLines(r)
        /\ \A i \in 1..Len(r) : /\ r[i].key \in AllKeys(items', vtype', c.stmts)
                                /\ r[i].by = now + 1
                                /\ r[i].val = FieldVal(env, r[i].key)
        /\ \A i, j \in 1..Len(r) : r[i].key = r[j].key => i = j
        /\ ~Returns(c.stmts) => \A q \in AllKeys(items', vtype', c.stmts) :
                                  \E i \in 1..Len(r) : r[i].key = q
        /\ Returns(c.stmts) => r = <<>>
    BY <1>1, ReportIs
  <2> HIDE DEF r, env
  <2> QED BY <2>1
<1>4. k # Plain
  BY <1>1, PreparedOK, AllKeysIs, KeysAre
<1>5. IsLines(buffer) /\ Len(buffer) \in Nat /\ Len(Prints(c.stmts, n)) \in Nat
  BY <1>2, PrintsIs DEF Shape, IsLines
<1>6. Len(buffer) <= m
  BY <1>5
<1> HIDE DEF r, env, n
<1>7. /\ IsLines(output) /\ m \in Nat
      /\ \A i \in 1..Len(r) : m + i \in 1..Len(output) /\ output[m + i] = r[i]
      /\ \A i \in 1..Len(output) : \/ i \in 1..Len(buffer)
                                   \/ i <= m
                                   \/ \E j \in 1..Len(r) : i = m + j
  BY <1>2, <1>3, <1>5, OutputIs
<1>8. Output(c, env) = output
  BY DEF Output, r, n
<1> HIDE DEF m, output
<1>9. DOMAIN output = 1..Len(output) /\ Len(output) \in Nat
  BY <1>7, LinesDomain DEF IsLines
<1>10. PICK j \in 1..Len(r) : r[j].key = k
  BY <1>3
<1>11. /\ m + j \in DOMAIN output /\ output[m + j].key = k
       /\ output[m + j].val = FieldVal(env, k)
  BY <1>3, <1>7, <1>9, <1>10
<1>12. Len(r) \in Nat /\ j \in Nat /\ j >= 1
  BY <1>3 DEF IsLines
<1>13. ASSUME NEW i \in DOMAIN output, output[i].key = k
       PROVE  i <= m + j
  <2>1. CASE i \in 1..Len(buffer) \/ i <= m
    BY <1>5, <1>6, <1>7, <1>9, <1>12, <2>1
  <2>2. CASE \E l \in 1..Len(r) : i = m + l
    <3>1. PICK l \in 1..Len(r) : i = m + l
      BY <2>2
    <3>2. l = j
      BY <1>3, <1>7, <1>10, <1>13, <3>1
    <3> QED BY <1>7, <1>12, <3>1, <3>2
  <2> QED BY <1>7, <1>9, <2>1, <2>2
<1> DEFINE Final(i) == /\ output[i].key = k
                       /\ \A l \in DOMAIN output : output[l].key = k => l <= i
<1>14. Final(m + j)
  BY <1>11, <1>13
<1> DEFINE f == CHOOSE i \in DOMAIN output : Final(i)
<1>15. f \in DOMAIN output /\ Final(f)
  BY <1>11, <1>14
<1>16. LastTold(output, k) = output[f].val
  BY DEF LastTold
<1> HIDE DEF f
<1>17. f = m + j
  <2>1. m + j <= f /\ f <= m + j
    BY <1>11, <1>14, <1>15
  <2>2. m + j \in Nat /\ f \in Nat
    BY <1>7, <1>9, <1>11, <1>12, <1>15
  <2> QED BY <2>1, <2>2
<1>18. k \in Told(output)
  BY <1>4, <1>11 DEF Told
<1> QED BY <1>8, <1>11, <1>16, <1>17, <1>18 DEF env, n

LEMMA CapturedStays == Shape /\ CapturedAfterSuccess /\ [Next]_vars => CapturedAfterSuccess'
<1> SUFFICES ASSUME Shape, CapturedAfterSuccess, [Next]_vars, last'.ended = "ok"
             PROVE  \A x \in DOMAIN last'.env : \A k \in CaptureKeys(items', vtype', x) :
                      LET val == FieldVal(last'.env, k)
                      IN IF val = "null" THEN k \notin DOMAIN snap'
                                         ELSE k \in DOMAIN snap' /\ snap'[k].val = val
  BY DEF CapturedAfterSuccess
<1>1. CASE UNCHANGED vars
  BY <1>1 DEF CapturedAfterSuccess, vars, repl, history
<1>2. CASE SyntaxError \/ Reset \/ RawDml \/ RawRollback \/ ExecBlock \/ ExecRaises \/ Connect
  <2>1. last'.ended \in {"error", "reset", "sql", "exec", "connect"}
    <3>1. CASE SyntaxError
      BY <3>1 DEF SyntaxError, Input
    <3>2. CASE Reset
      BY <3>2 DEF Reset, Input
    <3>3. CASE RawDml \/ RawRollback
      BY <3>3 DEF RawDml, RawRollback, Input
    <3>4. CASE ExecBlock \/ ExecRaises
      BY <3>4 DEF ExecBlock, ExecRaises, Input
    <3>5. CASE Connect
      BY <3>5 DEF Connect, Input
    <3> QED BY <1>2, <3>1, <3>2, <3>3, <3>4, <3>5
  <2> QED BY <2>1
<1>3. ASSUME NEW c \in Cells, CellStops(c) \/ Load(c) \/ CellRaises(c) PROVE FALSE
  <2>1. last'.ended \in {"defined", "error"}
    BY <1>3 DEF CellStops, Load, CellRaises, Input
  <2> QED BY <2>1
<1>4. ASSUME NEW c \in Cells, CellRuns(c)
      PROVE  \A x \in DOMAIN last'.env : \A k \in CaptureKeys(items', vtype', x) :
               LET val == FieldVal(last'.env, k)
               IN IF val = "null" THEN k \notin DOMAIN snap'
                                  ELSE k \in DOMAIN snap' /\ snap'[k].val = val
  <2> DEFINE env == Env(items', c.stmts, Upto(c.stmts))
             output == Output(c, env)
  <2>1. /\ Compiles(items', vtype', c.stmts) /\ snap' = ParseSnapshot(items', vtype', output)
        /\ Input(IF Returns(c.stmts) THEN "returned" ELSE "ok", env)
    BY <1>4, RunIs
  <2>2. last'.env = env /\ ~Returns(c.stmts)
    BY <2>1 DEF Input
  <2>3. Upto(c.stmts) \in 0..Len(c.stmts)
    BY UptoIs
  <2>4. DOMAIN env \subseteq Captured(c.stmts)
    BY <2>1, <2>3, EnvCaptured
  <2>5. ASSUME NEW x \in DOMAIN env, NEW k \in CaptureKeys(items', vtype', x)
        PROVE  k \in Told(output) /\ LastTold(output, k) = FieldVal(env, k)
    <3>1. k \in AllKeys(items', vtype', c.stmts)
      BY <2>4 DEF AllKeys
    <3> QED BY <1>4, <2>2, <3>1, ReportCounts
  <2> HIDE DEF env, output
  <2>6. ASSUME NEW x \in DOMAIN env, NEW k \in CaptureKeys(items', vtype', x)
        PROVE  IF FieldVal(env, k) = "null" THEN k \notin DOMAIN snap'
               ELSE k \in DOMAIN snap' /\ snap'[k].val = FieldVal(env, k)
    <3>1. k \in Told(output) /\ LastTold(output, k) = FieldVal(env, k)
      BY <2>5, <2>6
    <3>2. Stored(items', vtype', k, LastTold(output, k)).val = LastTold(output, k)
      BY DEF Stored
    <3> QED BY <2>1, <3>1, <3>2 DEF ParseSnapshot
  <2> QED BY <2>2, <2>6
<1> QED BY <1>1, <1>2, <1>3, <1>4 DEF Next

\* After a cell that ended well the session keeps, of every variable the block had, the value at
\* its end; NULL is kept as no value, whatever was kept before and whatever lines were waiting.
THEOREM CapturedAfterSuccessHolds == Spec => []CapturedAfterSuccess
<1>1. Init => CapturedAfterSuccess
  BY DEF Init, CapturedAfterSuccess
<1>2. QED
  BY <1>1, ShapeHolds, CapturedStays, PTL DEF Spec

----------------------------------------------------------------------------
(* A session stays usable.                                                  *)

NumericTypes == {"NUMBER", "PLS_INTEGER"}

\* The types a record gives its fields are among those noted for them.
FieldsNoted(its, fts) ==
  \A i \in its : i.kind = "record" /\ i.name \in Records =>
    \A f \in DOMAIN i.fields : f \in Fields /\ i.fields[f] \in fts[<<i.name, f>>]

\* What the session noted of a variable's type is what a cell declared.
Noting ==
  /\ FieldsNoted(items, fieldtypes) /\ \A p \in Records \X Fields : fieldtypes[p] \subseteq Scalars
  /\ \A x \in Vars : lets[x] \subseteq Types
  /\ \A x \in DOMAIN vtype : vtype[x] \in lets[x]
  /\ DOMAIN vrec \subseteq Vars /\ \A x \in DOMAIN vrec : vrec[x] \in lets[x] \cap Records
  /\ \A x \in Vars : x \notin DOMAIN vtype => lets[x] \subseteq {"VARCHAR2"}

\* Of a key: a cell declared its variable with a type that has it; of a value kept for it: it is
\* a number where the variable, or the field of every record the variable was, never was anything else.
Declared(ls, k) == IF k[2] = "" THEN ls[k[1]] \cap Scalars # {} ELSE ls[k[1]] \cap Records # {}
OnlyNumbers(ls, fts, k) == IF k[2] = "" THEN ls[k[1]] \subseteq NumericTypes
                           ELSE \A t \in ls[k[1]] \cap Records : fts[<<t, k[2]>>] \subseteq NumericTypes
Fits(ls, fts, k, val) == OnlyNumbers(ls, fts, k) => val \in Numeric
\* The type a value is kept with is one of its variable, or of its field, or text.
TypedAs(ls, fts, k, type) == IF k[2] = "" THEN type \in ls[k[1]]
                             ELSE type = "VARCHAR2" \/ \E t \in ls[k[1]] \cap Records : type \in fts[<<t, k[2]>>]

SnapOK == \A k \in DOMAIN snap : /\ Declared(lets, k) /\ Fits(lets, fieldtypes, k, snap[k].val)
                                 /\ TypedAs(lets, fieldtypes, k, snap[k].type)
LineOK(ls, fts, l) == l.key # Plain => /\ Declared(ls, l.key)
                                       /\ l.val # "null" => Fits(ls, fts, l.key, l.val)
BufferOK == \A i \in 1..Len(buffer) : LineOK(lets, fieldtypes, buffer[i])
Keeping == ~stale => SnapOK /\ BufferOK

\* Types are only added between two resets.
Grows(old, new) == \A x \in Vars : old[x] \subseteq new[x]
FieldsGrow(old, new) == \A p \in Records \X Fields : old[p] \subseteq new[p]

LEMMA PlainLineOK ==
  ASSUME NEW ls, NEW fts
  PROVE  LineOK(ls, fts, Line(Plain, "out"))
BY DEF LineOK, Line

\* What is true of a key and its value stays true when types are added.
LEMMA KeyStays ==
  ASSUME NEW old, NEW new, Grows(old, new), NEW oldf, NEW newf, FieldsGrow(oldf, newf), NEW k \in Keys
  PROVE  /\ Declared(old, k) => Declared(new, k)
         /\ \A val : Fits(old, oldf, k, val) => Fits(new, newf, k, val)
         /\ \A t : TypedAs(old, oldf, k, t) => TypedAs(new, newf, k, t)
<1>1. k[1] \in Vars /\ k[2] \in Parts
  BY KeysAre
<1>2. old[k[1]] \subseteq new[k[1]]
  BY <1>1 DEF Grows
<1>3. Declared(old, k) => Declared(new, k)
  BY <1>2 DEF Declared
<1>4. CASE k[2] = ""
  BY <1>2, <1>3, <1>4 DEF Fits, OnlyNumbers, TypedAs
<1>5. CASE k[2] # ""
  <2>1. k[2] \in Fields
    BY <1>1, <1>5 DEF Parts
  <2>2. \A t \in Records : oldf[<<t, k[2]>>] \subseteq newf[<<t, k[2]>>]
    BY <2>1 DEF FieldsGrow
  <2>3. OnlyNumbers(new, newf, k) => OnlyNumbers(old, oldf, k)
    BY <1>2, <1>5, <2>2 DEF OnlyNumbers
  <2>4. \A t : TypedAs(old, oldf, k, t) => TypedAs(new, newf, k, t)
    BY <1>2, <1>5, <2>2 DEF TypedAs
  <2> QED BY <1>3, <2>3, <2>4 DEF Fits
<1> QED BY <1>4, <1>5

LEMMA LineStays ==
  ASSUME NEW old, NEW new, Grows(old, new), NEW oldf, NEW newf, FieldsGrow(oldf, newf),
         NEW l, l.key \in KeyT, LineOK(old, oldf, l)
  PROVE  LineOK(new, newf, l)
<1>1. CASE l.key = Plain
  BY <1>1 DEF LineOK
<1>2. CASE l.key # Plain
  <2>1. l.key \in Keys
    BY <1>2 DEF KeyT
  <2> QED BY <1>2, <2>1, KeyStays DEF LineOK
<1> QED BY <1>1, <1>2

\* A record gives a field one of the types noted for it.
LEMMA FieldTypeIs ==
  ASSUME NEW its, NEW fts, FieldsNoted(its, fts), NEW t \in Records, NEW f \in FieldsOf(its, t)
  PROVE  f \in Fields /\ FieldType(its, t, f) \in fts[<<t, f>>]
<1> DEFINE I == {i \in RecordsNamed(its, t) : f \in DOMAIN i.fields}
           i0 == CHOOSE i \in RecordsNamed(its, t) : f \in DOMAIN i.fields
<1>1. \E i \in RecordsNamed(its, t) : f \in DOMAIN i.fields
  BY TypesAre DEF FieldsOf
<1>2. i0 \in RecordsNamed(its, t) /\ f \in DOMAIN i0.fields
  BY <1>1
<1>3. FieldType(its, t, f) = i0.fields[f]
  BY DEF FieldType
<1> HIDE DEF i0
<1>4. i0 \in its /\ i0.kind = "record" /\ i0.name = t
  BY <1>2 DEF RecordsNamed
<1> QED BY <1>2, <1>3, <1>4 DEF FieldsNoted

\* Definitions add to the types that are noted.
LEMMA DefinedIs ==
  ASSUME Noting, NEW c \in Cells, items' = Absorb(c.defs), fieldtypes' = Defined(c.defs)
  PROVE  /\ FieldsGrow(fieldtypes, fieldtypes') /\ FieldsNoted(items', fieldtypes')
         /\ \A p \in Records \X Fields : fieldtypes'[p] \subseteq Scalars
<1> DEFINE new(p) == {d.fields[p[2]] : d \in {i \in RecordsNamed(c.defs, p[1]) : p[2] \in DOMAIN i.fields}}
<1>1. \A p \in Records \X Fields : fieldtypes'[p] = fieldtypes[p] \cup new(p)
  BY DEF Defined
<1>2. ASSUME NEW d \in c.defs, d.kind = "record"
      PROVE  \A f \in DOMAIN d.fields : f \in Fields /\ d.fields[f] \in Scalars
  <2>1. PICK F \in SUBSET Fields : d.fields \in [F -> Scalars]
    BY <1>2, CellsAssumption
  <2> QED BY <2>1
<1>3. ASSUME NEW p \in Records \X Fields PROVE new(p) \subseteq Scalars
  BY <1>2 DEF RecordsNamed
<1>4. FieldsGrow(fieldtypes, fieldtypes')
  BY <1>1 DEF FieldsGrow
<1>5. ASSUME NEW i \in items', i.kind = "record", i.name \in Records, NEW f \in DOMAIN i.fields
      PROVE  f \in Fields /\ i.fields[f] \in fieldtypes'[<<i.name, f>>]
  <2>1. i \in items \/ i \in c.defs
    BY DEF Absorb
  <2>2. CASE i \in items
    <3>1. f \in Fields /\ i.fields[f] \in fieldtypes[<<i.name, f>>]
      BY <1>5, <2>2 DEF Noting, FieldsNoted
    <3> QED BY <1>4, <1>5, <3>1 DEF FieldsGrow
  <2>3. CASE i \in c.defs
    <3> DEFINE p == <<i.name, f>>
    <3>1. f \in Fields
      BY <1>2, <1>5, <2>3
    <3>2. p \in Records \X Fields /\ p[1] = i.name /\ p[2] = f
      BY <1>5, <3>1
    <3>3. i \in RecordsNamed(c.defs, i.name)
      BY <1>5, <2>3 DEF RecordsNamed
    <3> HIDE DEF p
    <3>4. i.fields[f] \in new(p)
      BY <1>5, <3>2, <3>3
    <3> QED BY <1>1, <3>1, <3>2, <3>4 DEF p
  <2> QED BY <2>1, <2>2, <2>3
<1>6. FieldsNoted(items', fieldtypes')
  BY <1>5 DEF FieldsNoted
<1> HIDE DEF new
<1>7. \A p \in Records \X Fields : fieldtypes'[p] \subseteq Scalars
  BY <1>1, <1>3 DEF Noting
<1> QED BY <1>4, <1>6, <1>7

\* The two sorts of lets that bring a kept value back.
LEMMA ReplayIs ==
  ASSUME Shape, Noting, NEW its, NEW r \in Replays(its)
  PROVE  \/ /\ <<r.var, "">> \in DOMAIN snap /\ r.type = Annot(snap[<<r.var, "">>].type)
            /\ r.val = Scalar(snap[<<r.var, "">>].val)
         \/ /\ r.var \in DOMAIN vrec /\ r.type = vrec[r.var]
            /\ \E k \in DOMAIN snap : k[1] = r.var /\ k[2] # ""
            /\ \A f \in DOMAIN r.val : \/ <<r.var, f>> \in DOMAIN snap /\ r.val[f] = snap[<<r.var, f>>].val
                                      \/ r.val[f] = "null"
<1>1. CASE \E k \in {j \in DOMAIN snap : ~IsRecordKey(j)} :
             r = [var |-> k[1], type |-> Annot(snap[k].type), val |-> Scalar(snap[k].val)]
  <2>1. PICK k \in {j \in DOMAIN snap : ~IsRecordKey(j)} :
          r = [var |-> k[1], type |-> Annot(snap[k].type), val |-> Scalar(snap[k].val)]
    BY <1>1
  <2>2. k \in Keys /\ k[2] = ""
    BY DEF IsRecordKey, Shape
  <2>3. k = <<k[1], "">>
    BY <2>2, KeysAre
  <2>4. r.var = k[1] /\ r.type = Annot(snap[k].type) /\ r.val = Scalar(snap[k].val)
    BY <2>1
  <2>5. <<r.var, "">> = k /\ k \in DOMAIN snap
    BY <2>3, <2>4
  <2> QED BY <2>4, <2>5
<1>2. CASE \E x \in {k[1] : k \in {j \in DOMAIN snap : IsRecordKey(j)}} \cap DOMAIN vrec :
             r = [var |-> x, type |-> vrec[x],
                  val |-> [f \in FieldsOf(its, vrec[x]) |->
                             IF <<x, f>> \in DOMAIN snap THEN snap[<<x, f>>].val ELSE "null"]]
  <2> DEFINE X == {k[1] : k \in {j \in DOMAIN snap : IsRecordKey(j)}}
             V(x) == [f \in FieldsOf(its, vrec[x]) |->
                        IF <<x, f>> \in DOMAIN snap THEN snap[<<x, f>>].val ELSE "null"]
  <2>1. PICK x \in X \cap DOMAIN vrec : r = [var |-> x, type |-> vrec[x], val |-> V(x)]
    BY <1>2
  <2>2. \A f \in DOMAIN V(x) : \/ <<x, f>> \in DOMAIN snap /\ V(x)[f] = snap[<<x, f>>].val
                               \/ V(x)[f] = "null"
    OBVIOUS
  <2> HIDE DEF V
  <2>3. r.var = x /\ r.type = vrec[x] /\ r.val = V(x)
    BY <2>1
  <2>4. \E k \in DOMAIN snap : k[1] = x /\ k[2] # ""
    BY <2>1 DEF IsRecordKey
  <2> QED BY <2>1, <2>2, <2>3, <2>4
<1> QED BY <1>1, <1>2 DEF Replays

LEMMA AnnotIs ==
  /\ \A t : Annot(t) \in Scalars /\ Annot(Annot(t)) = Annot(t)
  /\ \A t : Annot(t) = "NUMBER" <=> t \in NumericTypes
BY DEF Annot, Scalars, NumericTypes

\* What Prepare adds to the types of a variable.
LEMMA PrepareIs ==
  ASSUME NEW c \in Cells, Prepare(c)
  PROVE  /\ Grows(lets, lets')
         /\ \A s \in LetsOf(c.stmts) :
              /\ s.var \in Vars /\ s.type \in Types
              /\ IF s.typing = "inferred" THEN "VARCHAR2" \in lets'[s.var]
                                          ELSE s.type \in lets'[s.var]
         /\ \A x \in Vars : \A t \in lets'[x] :
              \/ t \in lets[x]
              \/ t = "VARCHAR2"
              \/ \E s \in LetsOf(c.stmts) : s.var = x /\ s.typing # "inferred" /\ t = s.type
<1> DEFINE T(s) == IF s.typing = "inferred" THEN "VARCHAR2" ELSE s.type
           new(x) == lets[x] \cup {T(s) : s \in {t \in LetsOf(c.stmts) : t.var = x}}
<1>1. lets' = [x \in Vars |-> new(x)]
  BY DEF Prepare
<1>2. \A x \in Vars : lets'[x] = new(x)
  BY <1>1
<1>3. \A s \in LetsOf(c.stmts) : s.var \in Vars /\ s.type \in Types
  BY CellsAssumption
<1>4. ASSUME NEW s \in LetsOf(c.stmts) PROVE T(s) \in lets'[s.var]
  BY <1>2, <1>3
<1>5. ASSUME NEW x \in Vars, NEW t \in lets'[x], t \notin lets[x]
      PROVE  \E s \in LetsOf(c.stmts) : s.var = x /\ t = T(s)
  BY <1>2, <1>5
<1>6. Grows(lets, lets')
  BY <1>2 DEF Grows
<1> QED BY <1>3, <1>4, <1>5, <1>6

LEMMA NotingStays ==
  ASSUME Shape, Noting, NEW c \in Cells, Prepare(c)
  PROVE  Noting'
<1> DEFINE ls == LetsOf(c.stmts)
<1>1. /\ Grows(lets, lets')
      /\ \A s \in ls : /\ s.var \in Vars /\ s.type \in Types
                       /\ IF s.typing = "inferred" THEN "VARCHAR2" \in lets'[s.var]
                                                   ELSE s.type \in lets'[s.var]
      /\ \A x \in Vars : \A t \in lets'[x] :
           \/ t \in lets[x]
           \/ t = "VARCHAR2"
           \/ \E s \in ls : s.var = x /\ s.typing # "inferred" /\ t = s.type
  BY PrepareIs
<1> DEFINE vt == vtype'
           vr == vrec'
<1>2. vt = Noted(vtype, Typed(c.stmts)) /\ vr = Noted(vrec, Named(c.stmts))
  BY DEF Prepare
<1> HIDE DEF vt, vr
<1>3. \A s \in Typed(c.stmts) : s \in ls /\ s.typing # "inferred"
  BY DEF Typed
<1>4. \A s \in Named(c.stmts) : s \in ls /\ s.typing = "annotated" /\ s.type \notin Scalars \cup {"LIST"}
  BY DEF Named
<1>5. DOMAIN vtype \subseteq Vars
  BY DEF Shape, TypesOK
<1> HIDE DEF ls
<1>6. \A x \in Vars : lets'[x] \subseteq Types
  <2>1. "VARCHAR2" \in Types
    BY TypesAre
  <2>2. \A x \in Vars : lets[x] \subseteq Types
    BY DEF Noting
  <2> QED BY <1>1, <2>1, <2>2
<1>7. ASSUME NEW x \in DOMAIN vt PROVE vt[x] \in lets'[x]
  <2>1. CASE \E s \in Typed(c.stmts) : s.var = x
    <3>1. PICK s \in Typed(c.stmts) : s.var = x /\ vt[x] = s.type
      BY <1>2, <2>1, NotedNew
    <3> QED BY <1>1, <1>3, <3>1
  <2>2. CASE ~\E s \in Typed(c.stmts) : s.var = x
    <3>1. x \in DOMAIN vtype
      <4>1. DOMAIN vt = {s.var : s \in Typed(c.stmts)} \cup DOMAIN vtype
        BY <1>2, NotedDomain
      <4> QED BY <2>2, <4>1
    <3>2. vt[x] = vtype[x]
      BY <1>2, <2>2, <3>1, NotedOld
    <3> QED BY <1>1, <1>5, <3>1, <3>2 DEF Noting, Grows
  <2> QED BY <2>1, <2>2
<1>8. ASSUME NEW x \in DOMAIN vr PROVE x \in Vars /\ vr[x] \in lets'[x] \cap Records
  <2>1. CASE \E s \in Named(c.stmts) : s.var = x
    <3>1. PICK s \in Named(c.stmts) : s.var = x /\ vr[x] = s.type
      BY <1>2, <2>1, NotedNew
    <3>2. s.typing # "inferred" /\ s.type \in Types /\ s.type \notin Scalars \cup {"LIST"}
      BY <1>1, <1>4
    <3>3. s.type \in Records
      BY <3>2, TypesAre
    <3> QED BY <1>1, <1>4, <3>1, <3>2, <3>3
  <2>2. CASE ~\E s \in Named(c.stmts) : s.var = x
    <3>1. x \in DOMAIN vrec
      <4>1. DOMAIN vr = {s.var : s \in Named(c.stmts)} \cup DOMAIN vrec
        BY <1>2, NotedDomain
      <4> QED BY <2>2, <4>1
    <3>2. vr[x] = vrec[x]
      BY <1>2, <2>2, <3>1, NotedOld
    <3> QED BY <1>1, <3>1, <3>2 DEF Noting, Grows
  <2> QED BY <2>1, <2>2
<1>9. ASSUME NEW x \in Vars, x \notin DOMAIN vt PROVE lets'[x] \subseteq {"VARCHAR2"}
  <2>1. DOMAIN vt = {s.var : s \in Typed(c.stmts)} \cup DOMAIN vtype
    BY <1>2, NotedDomain
  <2>2. \A s \in ls : s.typing # "inferred" => s \in Typed(c.stmts)
    BY DEF Typed, ls
  <2>3. lets[x] \subseteq {"VARCHAR2"}
    BY <1>9, <2>1 DEF Noting
  <2> QED BY <1>1, <1>9, <2>1, <2>2, <2>3
<1>10. DOMAIN vr \subseteq Vars
  BY <1>8
<1>11. FieldsNoted(items', fieldtypes') /\ \A p \in Records \X Fields : fieldtypes'[p] \subseteq Scalars
  BY DefinedIs DEF Prepare
<1> QED BY <1>6, <1>7, <1>8, <1>9, <1>10, <1>11 DEF Noting, vt, vr

\* The declarations of a block agree with the types the variables were declared with.
LEMMA DeclarationIs ==
  ASSUME Shape, Noting, SnapOK, NEW c \in Cells, Prepare(c), NEW d \in Declares(items', c.stmts)
  PROVE  /\ d[1] \in Vars
         /\ d[2] \in Scalars => lets'[d[1]] \cap Scalars # {}
         /\ lets'[d[1]] \subseteq NumericTypes => Annot(d[2]) = "NUMBER"
<1>1. /\ Grows(lets, lets')
      /\ \A s \in LetsOf(c.stmts) :
           /\ s.var \in Vars
           /\ IF s.typing = "inferred" THEN "VARCHAR2" \in lets'[s.var]
                                       ELSE s.type \in lets'[s.var]
  BY PrepareIs
<1>2. "VARCHAR2" \in Scalars /\ "VARCHAR2" \notin NumericTypes /\ NumericTypes \subseteq Scalars
  BY DEF Scalars, NumericTypes
<1>3. CASE \E r \in Replays(items') : d = <<r.var, r.type>>
  <2>1. PICK r \in Replays(items') : d = <<r.var, r.type>>
    BY <1>3
  <2> DEFINE k == <<r.var, "">>
             x == r.var
  <2>2. \/ k \in DOMAIN snap /\ r.type = Annot(snap[k].type)
        \/ x \in DOMAIN vrec /\ r.type = vrec[x]
    BY ReplayIs
  <2>3. d[1] = x /\ d[2] = r.type
    BY <2>1
  <2>4. CASE k \in DOMAIN snap /\ r.type = Annot(snap[k].type)
    <3>1. k[1] = x /\ k[2] = ""
      OBVIOUS
    <3>2. x \in Vars
      BY <2>4, <3>1, KeysAre DEF Shape
    <3> HIDE DEF k
    <3>3. lets[x] \cap Scalars # {} /\ snap[k].type \in lets[x]
      BY <2>4, <3>1 DEF SnapOK, Declared, TypedAs
    <3>4. lets[x] \subseteq lets'[x]
      BY <1>1, <3>2 DEF Grows
    <3>5. lets'[x] \subseteq NumericTypes => Annot(Annot(snap[k].type)) = "NUMBER"
      BY <3>3, <3>4, AnnotIs
    <3> QED BY <2>3, <2>4, <3>2, <3>3, <3>4, <3>5
  <2>5. CASE x \in DOMAIN vrec /\ r.type = vrec[x]
    <3>1. x \in Vars /\ vrec[x] \in lets[x] \cap Records
      BY <2>5 DEF Noting
    <3>2. lets[x] \subseteq lets'[x]
      BY <1>1, <3>1 DEF Grows
    <3>3. vrec[x] \notin Scalars
      BY <3>1, TypesAre
    <3> QED BY <1>2, <2>3, <2>5, <3>1, <3>2, <3>3
  <2> QED BY <2>2, <2>4, <2>5
<1>4. CASE \E s \in LetsOf(c.stmts) : d = <<s.var, s.type>>
  <2>1. PICK s \in LetsOf(c.stmts) : d = <<s.var, s.type>>
    BY <1>4
  <2>2. d[1] = s.var /\ d[2] = s.type
    BY <2>1
  <2>3. CASE s.typing = "inferred"
    BY <1>1, <1>2, <2>2, <2>3
  <2>4. CASE s.typing # "inferred"
    BY <1>1, <1>2, <2>2, <2>4, AnnotIs
  <2> QED BY <2>3, <2>4
<1> QED BY <1>3, <1>4, DeclaredIs

\* At the end of a block that converts, a variable that is a number has a number, or NULL.
LEMMA NumberIs ==
  ASSUME Shape, Noting, SnapOK, NEW c \in Cells, Prepare(c),
         NEW n \in Nat, Converts(items', c.stmts, n),
         NEW x \in DOMAIN Env(items', c.stmts, n), lets'[x] \subseteq NumericTypes,
         NEW d \in Declares(items', c.stmts), d[1] = x
  PROVE  "" \in DOMAIN Env(items', c.stmts, n)[x] => Env(items', c.stmts, n)[x][""] \in Numeric \cup {"null"}
<1> DEFINE env == Env(items', c.stmts, n)
<1>1. d[1] \in Vars /\ Annot(d[2]) = "NUMBER"
  BY DeclarationIs
<1>2. \/ \E i \in Assigns(c.stmts, n) : c.stmts[i].var = x /\ env[x] = c.stmts[i].val
      \/ x \in DOMAIN Start(items') /\ env[x] = Start(items')[x]
  BY EnvFrom
<1> HIDE DEF env
<1>3. CASE \E i \in Assigns(c.stmts, n) : c.stmts[i].var = x /\ env[x] = c.stmts[i].val
  <2>1. PICK i \in Assigns(c.stmts, n) : c.stmts[i].var = x /\ env[x] = c.stmts[i].val
    BY <1>3
  <2>2. FieldsOf(items', d[2]) = {""}
    BY <1>1, AnnotIs DEF FieldsOf, NumericTypes, Scalars
  <2>3. \A f \in FieldsOf(items', d[2]) \cap DOMAIN c.stmts[i].val :
          Holds(IF f = "" THEN d[2] ELSE FieldType(items', d[2], f), c.stmts[i].val[f])
    BY <2>1 DEF Converts
  <2>4. "" \in DOMAIN env[x] => Holds(d[2], env[x][""])
    BY <2>1, <2>2, <2>3
  <2> QED BY <1>1, <2>4 DEF Holds, env
<1>4. CASE x \in DOMAIN Start(items') /\ env[x] = Start(items')[x]
  <2>1. PICK r \in Replays(items') : r.var = x /\ Start(items')[x] = r.val
    BY <1>4 DEF Start
  <2> DEFINE k == <<x, "">>
  <2>2. \/ k \in DOMAIN snap /\ r.val = Scalar(snap[k].val)
        \/ x \in DOMAIN vrec
    BY <2>1, ReplayIs
  <2>3. lets[x] \subseteq lets'[x]
    BY <1>1, PrepareIs DEF Grows
  <2>4. x \notin DOMAIN vrec
    <3>1. ASSUME x \in DOMAIN vrec PROVE vrec[x] \in NumericTypes /\ vrec[x] \in Records
      BY <2>3, <3>1 DEF Noting
    <3>2. NumericTypes \subseteq Scalars
      BY DEF Scalars, NumericTypes
    <3> QED BY <3>1, <3>2, TypesAre
  <2>5. k[1] = x /\ k[2] = ""
    OBVIOUS
  <2> HIDE DEF k
  <2>6. snap[k].val \in Numeric
    BY <2>2, <2>3, <2>4, <2>5 DEF SnapOK, Fits, OnlyNumbers
  <2>7. Scalar(snap[k].val)[""] = snap[k].val
    BY DEF Scalar
  <2> QED BY <1>4, <2>1, <2>2, <2>4, <2>6, <2>7 DEF env
<1> QED BY <1>2, <1>3, <1>4

\* And so has a field, where every record the variable was gives it a number type.
LEMMA FieldNumberIs ==
  ASSUME Shape, Noting, SnapOK, NEW c \in Cells, Prepare(c),
         NEW n \in Nat, Converts(items', c.stmts, n),
         NEW x \in DOMAIN Env(items', c.stmts, n), x \in Vars,
         NEW d \in Declares(items', c.stmts), d[1] = x, d[2] \in lets'[x] \cap Records,
         NEW f \in FieldsOf(items', d[2]), OnlyNumbers(lets', fieldtypes', <<x, f>>),
         f \in DOMAIN Env(items', c.stmts, n)[x]
  PROVE  Env(items', c.stmts, n)[x][f] \in Numeric \cup {"null"}
<1> DEFINE env == Env(items', c.stmts, n)
           k == <<x, f>>
<1>1. /\ FieldsNoted(items', fieldtypes') /\ FieldsGrow(fieldtypes, fieldtypes') /\ Grows(lets, lets')
  BY DefinedIs, PrepareIs DEF Prepare
<1>2. \/ \E i \in Assigns(c.stmts, n) : c.stmts[i].var = x /\ env[x] = c.stmts[i].val
      \/ x \in DOMAIN Start(items') /\ env[x] = Start(items')[x]
  BY EnvFrom
<1>3. k[1] = x /\ k[2] = f /\ k = <<x, f>>
  OBVIOUS
<1>4. f \in Fields /\ f # "" /\ FieldType(items', d[2], f) \in fieldtypes'[<<d[2], f>>]
  BY <1>1, FieldTypeIs, NamesAssumption
<1>5. k \in Keys
  BY <1>4, KeysAre DEF Parts
<1> HIDE DEF env, k
<1>6. CASE \E i \in Assigns(c.stmts, n) : c.stmts[i].var = x /\ env[x] = c.stmts[i].val
  <2>1. PICK i \in Assigns(c.stmts, n) : c.stmts[i].var = x /\ env[x] = c.stmts[i].val
    BY <1>6
  <2>2. Holds(IF f = "" THEN d[2] ELSE FieldType(items', d[2], f), c.stmts[i].val[f])
    BY <2>1 DEF Converts, env
  <2>3. FieldType(items', d[2], f) \in NumericTypes
    BY <1>3, <1>4 DEF OnlyNumbers
  <2>4. Annot(FieldType(items', d[2], f)) = "NUMBER"
    BY <2>3, AnnotIs
  <2> QED BY <1>4, <2>1, <2>2, <2>4 DEF Holds, env
<1>7. CASE x \in DOMAIN Start(items') /\ env[x] = Start(items')[x]
  <2>1. PICK r \in Replays(items') : r.var = x /\ Start(items')[x] = r.val
    BY <1>7 DEF Start
  <2>2. f \in DOMAIN r.val
    BY <1>7, <2>1 DEF env
  <2>3. \A v : DOMAIN Scalar(v) = {""}
    BY DEF Scalar
  <2>4. \/ k \in DOMAIN snap /\ r.val[f] = snap[k].val
        \/ r.val[f] = "null"
    <3>1. ~\E v : r.val = Scalar(v)
      BY <1>4, <2>2, <2>3
    <3>2. \A g \in DOMAIN r.val : \/ <<r.var, g>> \in DOMAIN snap /\ r.val[g] = snap[<<r.var, g>>].val
                                  \/ r.val[g] = "null"
      BY <3>1, ReplayIs
    <3>3. <<r.var, f>> = k
      BY <1>3, <2>1
    <3> QED BY <2>2, <3>2, <3>3
  <2>5. ASSUME k \in DOMAIN snap PROVE snap[k].val \in Numeric
    <3>1. Fits(lets, fieldtypes, k, snap[k].val)
      BY <2>5 DEF SnapOK
    <3>2. Fits(lets', fieldtypes', k, snap[k].val)
      BY <1>1, <1>5, <3>1, KeyStays
    <3> QED BY <1>3, <3>2 DEF Fits
  <2> QED BY <1>7, <2>1, <2>4, <2>5 DEF env
<1> QED BY <1>2, <1>6, <1>7

\* A line with a value of the cell.
LEMMA CapturedLineOK ==
  ASSUME Shape, Noting, SnapOK, NEW c \in Cells, Prepare(c),
         Compiles(items', vtype', c.stmts), Converts(items', c.stmts, Upto(c.stmts)),
         ~Returns(c.stmts), NEW l, l.key \in AllKeys(items', vtype', c.stmts),
         l.val = FieldVal(Env(items', c.stmts, Upto(c.stmts)), l.key)
  PROVE  LineOK(lets', fieldtypes', l)
<1> DEFINE stmts == c.stmts
           n == Upto(stmts)
           env == Env(items', stmts, n)
           k == l.key
           x == k[1]
           tag == Tag(vtype', x)
<1>1. ItemsOK(items') /\ TypesOK(vtype') /\ Noting' /\ Grows(lets, lets')
  BY PreparedOK, NotingStays, PrepareIs
<1>2. k \in Keys /\ x \in Vars /\ x \in Captured(stmts) /\ k \in CaptureKeys(items', vtype', x)
  BY <1>1, AllKeysIs, KeysAre
<1>3. /\ k[2] = "" => IsScalar(tag)
      /\ k[2] # "" => x \in DOMAIN vtype' /\ vtype'[x] \in Records
  <2> DEFINE vt == vtype'
             its == items'
  <2>1. ItemsOK(its) /\ TypesOK(vt) /\ k \in CaptureKeys(its, vt, x) /\ x \in Vars
    BY <1>1, <1>2
  <2> HIDE DEF vt, its, x, k
  <2>2. /\ k[2] = "" => IsScalar(Tag(vt, x))
        /\ k[2] # "" => x \in DOMAIN vt /\ vt[x] \in Records
    BY <2>1, CaptureKeysIs
  <2> QED BY <2>2 DEF vt
<1>4. PICK d \in Declares(items', stmts) :
        d[1] = x /\ (IF tag \in Scalars \cup {""} THEN d[2] \in Scalars ELSE d[2] = tag)
  BY <1>2 DEF Compiles
<1>5. /\ d[2] \in Scalars => lets'[x] \cap Scalars # {}
  BY <1>4, DeclarationIs
<1>6. Len(stmts) \in Nat /\ DOMAIN stmts = 1..Len(stmts) /\ n = Len(stmts)
  BY CellsAssumption, UptoIs
<1>7. x \in DOMAIN env
  <2>1. \/ \E r \in Replays(items') : d = <<r.var, r.type>>
        \/ \E s \in LetsOf(c.stmts) : d = <<s.var, s.type>>
    BY <1>4 DEF Declares
  <2>2. \/ \E r \in Replays(items') : d[1] = r.var
        \/ \E s \in LetsOf(c.stmts) : d[1] = s.var
    BY <2>1
  <2>3. DOMAIN env = DOMAIN Start(items') \cup {stmts[j].var : j \in Assigns(stmts, n)}
    BY <1>6 DEF Env
  <2>4. CASE \E r \in Replays(items') : d[1] = r.var
    <3>1. x \in DOMAIN Start(items')
      BY <1>4, <2>4 DEF Start
    <3> QED BY <2>3, <3>1
  <2>5. CASE \E s \in LetsOf(c.stmts) : d[1] = s.var
    <3>1. PICK i \in DOMAIN stmts : stmts[i].op = "let" /\ stmts[i].var = x
      BY <1>4, <2>5 DEF LetsOf, IsLet
    <3>2. i \in Assigns(stmts, n)
      BY <1>6, <3>1 DEF Assigns
    <3> QED BY <2>3, <3>1, <3>2
  <2> QED BY <2>2, <2>4, <2>5
<1>8. ASSUME OnlyNumbers(lets', fieldtypes', k), l.val # "null" PROVE l.val \in Numeric
  <2>1. l.val = IF k[2] \in DOMAIN env[x] THEN env[x][k[2]] ELSE "null"
    BY DEF FieldVal
  <2>2. CASE k[2] = ""
    <3>1. lets'[x] \subseteq NumericTypes
      BY <1>8, <2>2 DEF OnlyNumbers
    <3>2. "" \in DOMAIN env[x] => env[x][""] \in Numeric \cup {"null"}
      BY <1>4, <1>6, <1>7, <3>1, NumberIs
    <3> QED BY <1>8, <2>1, <2>2, <3>2
  <2>3. CASE k[2] # ""
    <3>1. tag = vtype'[x] /\ tag \in Records /\ tag \in lets'[x] /\ d[2] = tag
      BY <1>1, <1>3, <1>4, <2>3, TypesAre DEF Tag, Noting
    <3>2. k[2] \in FieldsOf(items', d[2])
      <4>1. PICK f \in FieldsOf(items', tag) : k = <<x, f>>
        BY <1>2, <3>1, TypesAre DEF CaptureKeys
      <4>2. k[2] = f
        BY <4>1
      <4> QED BY <3>1, <4>2
    <3>3. k = <<x, k[2]>>
      BY <1>2, KeysAre
    <3>4. ASSUME k[2] \in DOMAIN env[x] PROVE env[x][k[2]] \in Numeric \cup {"null"}
      <4> DEFINE f == k[2]
      <4>1. f \in FieldsOf(items', d[2]) /\ f \in DOMAIN env[x] /\ OnlyNumbers(lets', fieldtypes', <<x, f>>)
        BY <1>8, <3>2, <3>3, <3>4
      <4>2. n \in Nat /\ d[2] \in lets'[x] \cap Records
        BY <1>6, <3>1
      <4> HIDE DEF f, x
      <4> QED BY <1>2, <1>4, <1>7, <4>1, <4>2, FieldNumberIs DEF f
    <3> QED BY <1>8, <2>1, <3>4
  <2> QED BY <2>2, <2>3
<1>9. Declared(lets', k)
  <2>1. CASE k[2] = ""
    BY <1>3, <1>4, <1>5, <2>1 DEF Declared, IsScalar
  <2>2. CASE k[2] # ""
    BY <1>1, <1>3, <2>2 DEF Declared, Noting
  <2> QED BY <2>1, <2>2
<1> QED BY <1>8, <1>9 DEF LineOK, Fits

\* What a cell keeps of its output is declared, and fits, like the lines of that output.
LEMMA KeptOK ==
  ASSUME Shape, Noting, ~stale => SnapOK /\ BufferOK, ~stale, NEW c \in Cells, CellRuns(c)
  PROVE  SnapOK'
<1> DEFINE env == Env(items', c.stmts, Upto(c.stmts))
           output == Output(c, env)
           kept == ParseSnapshot(items', vtype', output)
<1>1. /\ Prepare(c) /\ Compiles(items', vtype', c.stmts) /\ Converts(items', c.stmts, Upto(c.stmts))
      /\ snap' = kept /\ IsLines(output)
      /\ \A i \in 1..Len(output) :
           \/ i \in 1..Len(buffer) /\ output[i] = buffer[i]
           \/ output[i] = Line(Plain, "out")
           \/ /\ output[i].key \in AllKeys(items', vtype', c.stmts)
              /\ output[i].val = FieldVal(env, output[i].key) /\ ~Returns(c.stmts)
      /\ \A i \in 1..Len(output) : output[i].key \in KeyT
  BY RunIs
<1> HIDE DEF output
<1>2. Noting' /\ Grows(lets, lets') /\ FieldsGrow(fieldtypes, fieldtypes')
  BY <1>1, NotingStays, PrepareIs, DefinedIs DEF Prepare
<1>3. ASSUME NEW i \in 1..Len(output) PROVE LineOK(lets', fieldtypes', output[i])
  <2> DEFINE l == output[i]
  <2>1. CASE i \in 1..Len(buffer) /\ l = buffer[i]
    <3>1. LineOK(lets, fieldtypes, l) /\ l.key \in KeyT
      BY <2>1 DEF BufferOK, Shape
    <3> HIDE DEF l
    <3> QED BY <1>2, <3>1, LineStays DEF l
  <2>2. CASE l = Line(Plain, "out")
    BY <2>2, PlainLineOK
  <2>3. CASE /\ l.key \in AllKeys(items', vtype', c.stmts)
             /\ l.val = FieldVal(env, l.key) /\ ~Returns(c.stmts)
    <3> HIDE DEF l
    <3> QED BY <1>1, <2>3, CapturedLineOK DEF l
  <2> QED BY <1>1, <2>1, <2>2, <2>3
<1>4. /\ DOMAIN kept \subseteq Keys
      /\ \A k \in DOMAIN kept :
           \/ k \in DOMAIN snap /\ kept[k] = snap[k]
           \/ \E i \in 1..Len(output) : /\ output[i].key = k /\ k # Plain /\ output[i].val # "null"
                                        /\ kept[k] = Stored(items', vtype', k, output[i].val)
  <2>1. DOMAIN snap \subseteq Keys
    BY DEF Shape
  <2> HIDE DEF kept
  <2>2. /\ DOMAIN kept \subseteq Keys
        /\ \A k \in DOMAIN kept :
             \/ k \notin Told(output) /\ k \in DOMAIN snap /\ kept[k] = snap[k]
             \/ \E i \in 1..Len(output) : /\ output[i].key = k /\ k # Plain /\ output[i].val # "null"
                                          /\ kept[k] = Stored(items', vtype', k, output[i].val)
    BY <1>1, <2>1, ParsedIs DEF KeyT, kept
  <2> QED BY <2>2
<1> HIDE DEF kept
<1>5. ASSUME NEW k \in DOMAIN kept
      PROVE  /\ Declared(lets', k) /\ Fits(lets', fieldtypes', k, kept[k].val)
             /\ TypedAs(lets', fieldtypes', k, kept[k].type)
  <2>1. k \in Keys /\ k[1] \in Vars
    BY <1>4, KeysAre
  <2>3. CASE k \in DOMAIN snap /\ kept[k] = snap[k]
    BY <1>2, <2>1, <2>3, KeyStays DEF SnapOK
  <2>4. CASE \E i \in 1..Len(output) : /\ output[i].key = k /\ k # Plain /\ output[i].val # "null"
                                       /\ kept[k] = Stored(items', vtype', k, output[i].val)
    <3>1. PICK i \in 1..Len(output) : /\ output[i].key = k /\ k # Plain /\ output[i].val # "null"
                                      /\ kept[k] = Stored(items', vtype', k, output[i].val)
      BY <2>4
    <3>2. Declared(lets', k) /\ Fits(lets', fieldtypes', k, output[i].val)
      BY <1>3, <3>1 DEF LineOK
    <3> DEFINE ofField == k[1] \in DOMAIN vtype' /\ k[2] \in FieldsOf(items', vtype'[k[1]])
    <3>3. /\ kept[k].val = output[i].val
          /\ kept[k].type = IF k[1] \in DOMAIN vtype' /\ k[2] = "" THEN vtype'[k[1]]
                            ELSE IF ofField THEN FieldType(items', vtype'[k[1]], k[2])
                            ELSE "VARCHAR2"
      <4> DEFINE t == IF k[1] \in DOMAIN vtype' /\ k[2] = "" THEN vtype'[k[1]]
                      ELSE IF ofField THEN FieldType(items', vtype'[k[1]], k[2])
                      ELSE "VARCHAR2"
      <4>1. kept[k] = [type |-> t, val |-> output[i].val]
        BY <3>1 DEF Stored, IsRecordKey
      <4> HIDE DEF t
      <4>2. kept[k].type = t /\ kept[k].val = output[i].val
        BY <4>1
      <4> QED BY <4>2 DEF t
    <3>4. ASSUME k[2] = "" PROVE kept[k].type \in lets'[k[1]]
      <4>1. CASE k[1] \in DOMAIN vtype'
        BY <1>2, <3>3, <3>4, <4>1 DEF Noting
      <4>2. CASE k[1] \notin DOMAIN vtype'
        <5>1. lets'[k[1]] \subseteq {"VARCHAR2"} /\ kept[k].type = "VARCHAR2"
          BY <1>2, <2>1, <3>3, <4>2 DEF Noting
        <5>2. lets'[k[1]] \cap Scalars # {}
          BY <3>2, <3>4 DEF Declared
        <5> QED BY <5>1, <5>2
      <4> QED BY <4>1, <4>2
    <3>5. ASSUME k[2] # "", ofField
          PROVE  \E t \in lets'[k[1]] \cap Records : kept[k].type \in fieldtypes'[<<t, k[2]>>]
      <4> DEFINE t == vtype'[k[1]]
      <4>1. t \in lets'[k[1]] /\ t \in Types /\ FieldsNoted(items', fieldtypes')
        BY <1>2, <2>1, <3>5 DEF Noting
      <4>2. t \in Records
        BY <3>5, <4>1, TypesAre DEF FieldsOf
      <4>3. FieldType(items', t, k[2]) \in fieldtypes'[<<t, k[2]>>]
        BY <3>5, <4>1, <4>2, FieldTypeIs
      <4> QED BY <3>3, <3>5, <4>1, <4>2, <4>3
    <3>6. TypedAs(lets', fieldtypes', k, kept[k].type)
      <4>1. CASE k[2] = ""
        BY <3>4, <4>1 DEF TypedAs
      <4>2. CASE k[2] # "" /\ ofField
        BY <3>5, <4>2 DEF TypedAs
      <4>3. CASE k[2] # "" /\ ~ofField
        BY <3>3, <4>3 DEF TypedAs
      <4> QED BY <4>1, <4>2, <4>3
    <3> QED BY <3>2, <3>3, <3>6
  <2> QED BY <1>4, <2>3, <2>4
<1> QED BY <1>1, <1>5 DEF SnapOK

\* What is kept, and what waits in the buffer, stays as it should when types are added.
LEMMA KeptStays ==
  ASSUME Shape, Grows(lets, lets'), FieldsGrow(fieldtypes, fieldtypes')
  PROVE  /\ SnapOK /\ snap' = snap => SnapOK'
         /\ BufferOK /\ buffer' = buffer => BufferOK'
<1>1. ASSUME SnapOK, snap' = snap PROVE SnapOK'
  <2>1. DOMAIN snap \subseteq Keys
    BY DEF Shape
  <2> QED BY <1>1, <2>1, KeyStays DEF SnapOK
<1>2. ASSUME BufferOK, buffer' = buffer PROVE BufferOK'
  <2>1. \A i \in 1..Len(buffer) : buffer[i].key \in KeyT
    BY DEF Shape
  <2>2. ASSUME NEW i \in 1..Len(buffer) PROVE LineOK(lets', fieldtypes', buffer[i])
    <3>1. LineOK(lets, fieldtypes, buffer[i])
      BY <1>2 DEF BufferOK
    <3> QED BY <2>1, <3>1, LineStays
  <2> QED BY <1>2, <2>2 DEF BufferOK
<1> QED BY <1>1, <1>2

LEMMA KeepingStays == Shape /\ Noting /\ Keeping /\ [Next]_vars => Noting' /\ Keeping'
<1> SUFFICES ASSUME Shape, Noting, Keeping, [Next]_vars PROVE Noting' /\ Keeping'
  OBVIOUS
<1>0. IsLines(buffer) /\ Len(<<>>) = 0 /\ DOMAIN <<>> = {}
  BY DEF Shape
<1>1. ASSUME UNCHANGED <<items, snap, vtype, vrec, lets, fieldtypes, stale>>,
             buffer' = buffer \/ buffer' = <<>>
      PROVE  Noting' /\ Keeping'
  <2>1. Noting' /\ (SnapOK => SnapOK')
    BY <1>1 DEF Noting, SnapOK
  <2>2. CASE buffer' = buffer
    BY <1>1, <2>1, <2>2 DEF Keeping, BufferOK
  <2>3. CASE buffer' = <<>>
    <3>1. BufferOK'
      BY <1>0, <2>3 DEF BufferOK
    <3> QED BY <1>1, <2>1, <3>1 DEF Keeping
  <2> QED BY <1>1, <2>2, <2>3
<1>2. CASE UNCHANGED vars
  BY <1>1, <1>2 DEF vars, repl, db, history
<1>3. CASE SyntaxError \/ RawDml \/ RawRollback \/ ExecBlock \/ Connect
  BY <1>1, <1>3 DEF SyntaxError, RawDml, RawRollback, ExecBlock, Connect, repl, db
<1>4. CASE Reset
  <2>1. /\ items' = {} /\ snap' = <<>> /\ vtype' = <<>> /\ vrec' = <<>> /\ buffer' = buffer
        /\ fieldtypes' = [p \in Records \X Fields |-> {}]
        /\ lets' = [x \in Vars |-> {}] /\ stale' = \E i \in DOMAIN buffer : ~IsPlain(buffer[i])
    BY <1>4 DEF Reset, db
  <2>2. (\A x \in Vars : lets'[x] = {}) /\ \A p \in Records \X Fields : fieldtypes'[p] = {}
    BY <2>1
  <2>3. Noting'
    BY <1>0, <2>1, <2>2 DEF Noting, FieldsNoted
  <2>4. DOMAIN buffer = 1..Len(buffer)
    BY <1>0, LinesDomain
  <2>5. ~stale' => \A i \in 1..Len(buffer) : buffer[i].key = Plain
    BY <2>1, <2>4 DEF IsPlain
  <2>6. ~stale' => BufferOK'
    BY <2>1, <2>5 DEF BufferOK, LineOK
  <2>7. SnapOK'
    BY <1>0, <2>1 DEF SnapOK
  <2> QED BY <2>3, <2>6, <2>7 DEF Keeping
<1>5. CASE ExecRaises
  <2> DEFINE e == Line(Plain, "out")
             b == Append(buffer, e)
  <2>1. /\ UNCHANGED <<items, snap, vtype, vrec, lets, fieldtypes, stale>>
        /\ buffer' = buffer \/ buffer' = b
    BY <1>5 DEF ExecRaises, repl
  <2>2. LineOK(lets, fieldtypes, e)
    BY PlainLineOK
  <2> HIDE DEF e
  <2>3. \A i \in 1..Len(b) : (i \in 1..Len(buffer) /\ b[i] = buffer[i]) \/ b[i] = e
    BY <1>0, AppendIs
  <2> HIDE DEF b
  <2>4. BufferOK => BufferOK'
    BY <2>1, <2>2, <2>3 DEF BufferOK
  <2>5. Noting' /\ (SnapOK => SnapOK')
    BY <2>1 DEF Noting, SnapOK
  <2> QED BY <2>1, <2>4, <2>5 DEF Keeping
<1>6. ASSUME NEW c \in Cells, CellStops(c) \/ Load(c) PROVE Noting' /\ Keeping'
  <2>1. /\ items' = Absorb(c.defs) /\ fieldtypes' = Defined(c.defs)
        /\ UNCHANGED <<snap, vtype, vrec, buffer, lets, stale>>
    BY <1>6 DEF CellStops, Load, db
  <2>2. /\ FieldsGrow(fieldtypes, fieldtypes') /\ FieldsNoted(items', fieldtypes')
        /\ \A p \in Records \X Fields : fieldtypes'[p] \subseteq Scalars
    BY <2>1, DefinedIs
  <2>3. Noting' /\ Grows(lets, lets')
    BY <2>1, <2>2 DEF Noting, Grows
  <2>4. SnapOK /\ BufferOK => SnapOK' /\ BufferOK'
    BY <2>1, <2>2, <2>3, KeptStays
  <2> QED BY <2>1, <2>3, <2>4 DEF Keeping
<1>7. ASSUME NEW c \in Cells, CellRuns(c) PROVE Noting' /\ Keeping'
  <2>1. Prepare(c) /\ buffer' = <<>> /\ stale' = stale
    BY <1>7, RunIs
  <2>2. BufferOK'
    BY <1>0, <2>1 DEF BufferOK
  <2>3. ~stale' => SnapOK'
    BY <1>7, <2>1, KeptOK DEF Keeping
  <2> QED BY <2>1, <2>2, <2>3, NotingStays DEF Keeping
<1>8. ASSUME NEW c \in Cells, CellRaises(c) PROVE Noting' /\ Keeping'
  <2> DEFINE env == Env(items', c.stmts, Upto(c.stmts))
  <2>1. /\ Prepare(c) /\ snap' = snap /\ stale' = stale
        /\ \A i \in 1..Len(buffer') :
             \/ i \in 1..Len(buffer) /\ buffer'[i] = buffer[i]
             \/ buffer'[i] = Line(Plain, "out")
             \/ /\ buffer'[i].key \in AllKeys(items', vtype', c.stmts)
                /\ buffer'[i].val = FieldVal(env, buffer'[i].key) /\ ~Returns(c.stmts)
                /\ Compiles(items', vtype', c.stmts)
                /\ Converts(items', c.stmts, Upto(c.stmts))
    BY <1>8, RaiseIs
  <2>2. Noting' /\ Grows(lets, lets') /\ FieldsGrow(fieldtypes, fieldtypes')
    BY <2>1, NotingStays, PrepareIs, DefinedIs DEF Prepare
  <2>3. ASSUME ~stale' PROVE SnapOK' /\ BufferOK'
    <3>1. SnapOK /\ BufferOK
      BY <2>1, <2>3 DEF Keeping
    <3>3. SnapOK'
      BY <2>1, <2>2, <3>1, KeptStays
    <3>4. ASSUME NEW i \in 1..Len(buffer') PROVE LineOK(lets', fieldtypes', buffer'[i])
      <4> DEFINE l == buffer'[i]
      <4>1. CASE i \in 1..Len(buffer) /\ l = buffer[i]
        <5>1. LineOK(lets, fieldtypes, l) /\ l.key \in KeyT
          BY <3>1, <4>1 DEF BufferOK, Shape
        <5> HIDE DEF l
        <5> QED BY <2>2, <5>1, LineStays DEF l
      <4>2. CASE l = Line(Plain, "out")
        BY <4>2, PlainLineOK
      <4>3. CASE /\ l.key \in AllKeys(items', vtype', c.stmts)
                 /\ l.val = FieldVal(env, l.key) /\ ~Returns(c.stmts)
                 /\ Compiles(items', vtype', c.stmts)
                 /\ Converts(items', c.stmts, Upto(c.stmts))
        <5> HIDE DEF l
        <5> QED BY <2>1, <3>1, <4>3, CapturedLineOK DEF l
      <4> QED BY <2>1, <4>1, <4>2, <4>3
    <3> QED BY <3>3, <3>4 DEF BufferOK
  <2> QED BY <2>2, <2>3 DEF Keeping
<1> QED BY <1>2, <1>3, <1>4, <1>5, <1>6, <1>7, <1>8 DEF Next

\* Two members of a set that has not two of them are the same.
LEMMA OneOf ==
  ASSUME NEW S, IsFiniteSet(S), ~(Cardinality(S) > 1), NEW a \in S, NEW b \in S
  PROVE  a = b
<1> SUFFICES ASSUME a # b PROVE FALSE
  OBVIOUS
<1>1. IsFiniteSet({a}) /\ Cardinality({a}) = 1 /\ b \notin {a}
  BY FS_Singleton
<1>2. Cardinality({a} \cup {b}) = 1 + 1
  BY <1>1, FS_AddElement
<1>3. {a} \cup {b} \in SUBSET S
  OBVIOUS
<1>4. Cardinality({a} \cup {b}) <= Cardinality(S) /\ Cardinality(S) \in Nat
  BY <1>3, FS_Subset, FS_CardinalityType
<1> QED BY <1>2, <1>4

LEMMA TypesFinite == IsFiniteSet(Scalars) /\ IsFiniteSet(Types)
<1>1. IsFiniteSet({}) /\ {} \cup {"NUMBER"} = {"NUMBER"}
  BY FS_EmptySet
<1>2. IsFiniteSet({} \cup {"NUMBER"})
  BY <1>1, FS_AddElement
<1>3. IsFiniteSet(({} \cup {"NUMBER"}) \cup {"PLS_INTEGER"})
  BY <1>2, FS_AddElement
<1>4. IsFiniteSet((({} \cup {"NUMBER"}) \cup {"PLS_INTEGER"}) \cup {"VARCHAR2"})
  BY <1>3, FS_AddElement
<1>5. (({} \cup {"NUMBER"}) \cup {"PLS_INTEGER"}) \cup {"VARCHAR2"} = Scalars
  BY DEF Scalars
<1>6. IsFiniteSet(Scalars \cup {"LIST"})
  BY <1>4, <1>5, FS_AddElement
<1>7. IsFiniteSet((Scalars \cup {"LIST"}) \cup Records)
  BY <1>6, NamesAssumption, FS_Union
<1> QED BY <1>4, <1>5, <1>7 DEF Types

LEMMA OneType ==
  ASSUME Noting, NEW x \in Vars, ~(Cardinality(lets[x]) > 1),
         NEW a \in lets[x], NEW b \in lets[x]
  PROVE  a = b
<1>1. IsFiniteSet(lets[x])
  BY TypesFinite, FS_Subset DEF Noting
<1> QED BY <1>1, OneOf

LEMMA OneFieldType ==
  ASSUME Noting, NEW p \in Records \X Fields, ~(Cardinality(fieldtypes[p]) > 1),
         NEW a \in fieldtypes[p], NEW b \in fieldtypes[p]
  PROVE  a = b
<1>1. IsFiniteSet(fieldtypes[p])
  BY TypesFinite, FS_Subset DEF Noting
<1> QED BY <1>1, OneOf

\* A session that keeps what it should accepts a cell that only prints.
LEMMA UsableIs ==
  ASSUME Shape, Noting, SnapOK,
         \A x \in Vars : ~(Cardinality(lets[x]) > 1),
         \A p \in Records \X Fields : ~(Cardinality(fieldtypes[p]) > 1),
         \A x \in DOMAIN vtype \ DOMAIN vrec : vtype[x] \notin Records,
         \A i \in items : i.ok
  PROVE  /\ Emits(items, JustPrint) /\ Compiles(items, vtype, JustPrint)
         /\ Converts(items, JustPrint, Len(JustPrint))
<1> DEFINE decl == Declares(items, JustPrint)
<1>1. LetsOf(JustPrint) = {} /\ DOMAIN JustPrint = {1} /\ JustPrint[1].op = "print"
  <2>1. DOMAIN JustPrint = {1} /\ JustPrint[1].op = "print"
    BY DEF JustPrint
  <2> QED BY <2>1 DEF LetsOf, IsLet
<1>2. Emits(items, JustPrint)
  BY <1>1 DEF Emits
<1>3. ASSUME NEW r \in Replays(items)
      PROVE  /\ r.var \in Vars
             /\ \/ /\ r.type = Annot(snap[<<r.var, "">>].type)
                   /\ lets[r.var] \cap Scalars # {}
                \/ r.var \in DOMAIN vrec /\ r.type = vrec[r.var] /\ vrec[r.var] \in lets[r.var] \cap Records
  <2> DEFINE k == <<r.var, "">>
  <2>1. \/ k \in DOMAIN snap /\ r.type = Annot(snap[k].type)
        \/ r.var \in DOMAIN vrec /\ r.type = vrec[r.var]
    BY ReplayIs
  <2>2. k[1] = r.var /\ k[2] = ""
    OBVIOUS
  <2> HIDE DEF k
  <2>3. CASE k \in DOMAIN snap
    <3>1. r.var \in Vars
      BY <2>2, <2>3, KeysAre DEF Shape
    <3>2. lets[r.var] \cap Scalars # {}
      BY <2>2, <2>3 DEF SnapOK, Declared
    <3>3. CASE r.type = Annot(snap[k].type)
      BY <2>3, <3>1, <3>2, <3>3 DEF k
    <3>4. CASE r.var \in DOMAIN vrec /\ r.type = vrec[r.var]
      BY <3>1, <3>4 DEF Noting
    <3> QED BY <2>1, <3>3, <3>4
  <2>4. CASE r.var \in DOMAIN vrec /\ r.type = vrec[r.var]
    BY <2>4 DEF Noting
  <2> QED BY <2>1, <2>3, <2>4
<1>4. ASSUME NEW x \in Vars, NEW a \in lets[x], NEW b \in lets[x] PROVE a = b
  BY OneType
<1>5. ASSUME NEW x \in Vars, lets[x] \cap Scalars # {}, lets[x] \cap Records # {} PROVE FALSE
  BY <1>4, <1>5, TypesAre
<1>6. ASSUME NEW r \in Replays(items), NEW q \in Replays(items), r.var = q.var PROVE r.type = q.type
  <2> DEFINE x == r.var
             k == <<x, "">>
  <2>1. /\ x \in Vars
        /\ \/ r.type = Annot(snap[k].type) /\ lets[x] \cap Scalars # {}
           \/ r.type = vrec[x] /\ lets[x] \cap Records # {}
    BY <1>3
  <2>2. \/ q.type = Annot(snap[<<q.var, "">>].type) /\ lets[q.var] \cap Scalars # {}
        \/ q.type = vrec[q.var] /\ lets[q.var] \cap Records # {}
    BY <1>3
  <2>3. \/ q.type = Annot(snap[k].type) /\ lets[x] \cap Scalars # {}
        \/ q.type = vrec[x] /\ lets[x] \cap Records # {}
    BY <1>6, <2>2
  <2> HIDE DEF x, k
  <2> QED BY <1>5, <2>1, <2>3
<1>7. ASSUME NEW d \in decl, NEW e \in decl, d[1] = e[1] PROVE d = e
  <2>1. PICK r \in Replays(items) : d = <<r.var, r.type>>
    BY <1>1 DEF Declares
  <2>2. PICK q \in Replays(items) : e = <<q.var, q.type>>
    BY <1>1 DEF Declares
  <2>3. r.var = q.var
    BY <1>7, <2>1, <2>2
  <2> QED BY <1>6, <2>1, <2>2, <2>3
<1>8. ASSUME NEW k \in Replayed(items)
      PROVE  /\ LiteralFits(k)
             /\ IsRecordKey(k) => Holds(FieldType(items, vrec[k[1]], k[2]), snap[k].val)
  <2> DEFINE x == k[1]
             f == k[2]
  <2>1. k \in DOMAIN snap /\ x \in Vars /\ k = <<x, f>>
    BY KeysAre DEF Replayed, Shape
  <2>2. Fits(lets, fieldtypes, k, snap[k].val) /\ TypedAs(lets, fieldtypes, k, snap[k].type)
    BY <2>1 DEF SnapOK
  <2>3. CASE f = ""
    <3>1. snap[k].type \in lets[x] /\ (lets[x] \subseteq NumericTypes => snap[k].val \in Numeric)
      BY <2>2, <2>3 DEF Fits, OnlyNumbers, TypedAs
    <3>2. snap[k].type \in NumericTypes => lets[x] \subseteq NumericTypes
      BY <1>4, <2>1, <3>1
    <3> QED BY <2>3, <3>1, <3>2, AnnotIs DEF LiteralFits, IsRecordKey
  <2>4. CASE f # ""
    <3> DEFINE t == vrec[x]
               fts == fieldtypes[<<t, f>>]
    <3>1. x \in DOMAIN vrec /\ f \in FieldsOf(items, t)
      BY <2>4 DEF Replayed, IsRecordKey
    <3>2. t \in lets[x] /\ t \in Records /\ FieldsNoted(items, fieldtypes)
      BY <3>1 DEF Noting
    <3>3. f \in Fields /\ FieldType(items, t, f) \in fts
      BY <3>1, <3>2, FieldTypeIs
    <3>4. <<t, f>> \in Records \X Fields
      BY <3>2, <3>3
    <3>5. ASSUME NEW u \in lets[x] PROVE u = t
      BY <1>4, <2>1, <3>2
    <3>6. snap[k].type = "VARCHAR2" \/ snap[k].type \in fts
      BY <2>2, <2>4, <3>5 DEF TypedAs
    <3>7. ASSUME NEW u \in fts, u \in NumericTypes PROVE snap[k].val \in Numeric
      <4>1. ASSUME NEW v \in fts PROVE v = u
        BY <3>4, OneFieldType
      <4>2. fts \subseteq NumericTypes
        BY <3>7, <4>1
      <4>3. OnlyNumbers(lets, fieldtypes, k)
        BY <2>4, <3>5, <4>2 DEF OnlyNumbers
      <4> QED BY <2>2, <4>3 DEF Fits
    <3>8. LiteralFits(k)
      BY <3>6, <3>7, AnnotIs DEF LiteralFits, NumericTypes
    <3>9. Holds(FieldType(items, t, f), snap[k].val)
      BY <3>3, <3>7, AnnotIs DEF Holds
    <3> QED BY <3>8, <3>9
  <2> QED BY <2>3, <2>4
<1>9. ASSUME NEW x \in Captured(JustPrint), CaptureKeys(items, vtype, x) # {}
      PROVE  \E d \in decl : /\ d[1] = x
                             /\ IF Tag(vtype, x) \in Scalars \cup {""} THEN d[2] \in Scalars
                                                                       ELSE d[2] = Tag(vtype, x)
  <2>1. PICK k \in DOMAIN snap : k[1] = x
    BY <1>1 DEF Captured, Bases
  <2>2. k \in Keys /\ x \in Vars /\ k = <<x, k[2]>>
    BY <2>1, KeysAre DEF Shape
  <2>3. Declared(lets, k)
    BY <2>1 DEF SnapOK
  <2>4. CASE k[2] = ""
    <3>1. lets[x] \cap Scalars # {}
      BY <2>1, <2>3, <2>4 DEF Declared
    <3>2. Tag(vtype, x) \in Scalars \cup {""}
      <4>1. CASE x \in DOMAIN vtype
        <5>1. vtype[x] \in lets[x] /\ Tag(vtype, x) = vtype[x]
          BY <4>1 DEF Noting, Tag
        <5>2. PICK t \in lets[x] : t \in Scalars
          BY <3>1
        <5>3. t = vtype[x]
          BY <1>4, <2>2, <5>1, <5>2
        <5> QED BY <5>1, <5>2, <5>3
      <4>2. CASE x \notin DOMAIN vtype
        BY <4>2 DEF Tag
      <4> QED BY <4>1, <4>2
    <3> DEFINE r == [var |-> k[1], type |-> Annot(snap[k].type), val |-> Scalar(snap[k].val)]
    <3>3. r \in Replays(items) /\ r.var = x /\ r.type = Annot(snap[k].type)
      BY <2>1, <2>4 DEF Replays, IsRecordKey
    <3> HIDE DEF r
    <3>4. <<r.var, r.type>> \in decl /\ r.type \in Scalars
      BY <3>3, AnnotIs DEF Declares
    <3> QED BY <3>2, <3>3, <3>4
  <2>5. CASE k[2] # ""
    <3>1. lets[x] \cap Records # {}
      BY <2>1, <2>3, <2>5 DEF Declared
    <3>2. x \in DOMAIN vtype /\ vtype[x] \in lets[x]
      <4>1. "VARCHAR2" \notin Records
        BY TypesAre
      <4> QED BY <2>2, <3>1, <4>1 DEF Noting
    <3>3. vtype[x] \in Records /\ Tag(vtype, x) = vtype[x]
      BY <1>4, <2>2, <3>1, <3>2 DEF Tag
    <3>4. x \in DOMAIN vrec /\ vrec[x] = vtype[x]
      <4>1. x \in DOMAIN vrec
        BY <3>2, <3>3
      <4>2. vrec[x] \in lets[x]
        BY <4>1 DEF Noting
      <4> QED BY <1>4, <2>2, <3>2, <4>1, <4>2
    <3>5. x \in {q[1] : q \in {j \in DOMAIN snap : IsRecordKey(j)}} \cap DOMAIN vrec
      BY <2>1, <2>5, <3>4 DEF IsRecordKey
    <3>6. PICK r \in Replays(items) : r.var = x /\ r.type = vrec[x]
      <4> DEFINE X == {q[1] : q \in {j \in DOMAIN snap : IsRecordKey(j)}}
                 V(y) == [f \in FieldsOf(items, vrec[y]) |->
                            IF <<y, f>> \in DOMAIN snap THEN snap[<<y, f>>].val ELSE "null"]
                 R(y) == [var |-> y, type |-> vrec[y], val |-> V(y)]
      <4>1. \A y \in X \cap DOMAIN vrec : R(y) \in Replays(items)
        BY DEF Replays
      <4> HIDE DEF V
      <4>2. R(x).var = x /\ R(x).type = vrec[x]
        OBVIOUS
      <4> HIDE DEF R
      <4> QED BY <3>5, <4>1, <4>2
    <3>7. <<r.var, r.type>> \in decl
      BY DEF Declares
    <3>8. Tag(vtype, x) \notin Scalars \cup {""}
      BY <3>3, TypesAre
    <3> QED BY <3>3, <3>4, <3>6, <3>7, <3>8
  <2> QED BY <2>4, <2>5
<1> HIDE DEF decl
<1>10. Compiles(items, vtype, JustPrint)
  <2>1. \A k \in Replayed(items) : LiteralFits(k)
    BY <1>8
  <2>2. \A i \in DOMAIN JustPrint : JustPrint[i].op # "set"
    BY <1>1
  <2> QED BY <1>7, <1>9, <2>1, <2>2 DEF Compiles, decl
<1>11. Converts(items, JustPrint, Len(JustPrint))
  <2>1. Assigns(JustPrint, Len(JustPrint)) = {}
    BY DEF Assigns, JustPrint
  <2>2. ReplayConverts(items)
    BY <1>8 DEF ReplayConverts
  <2> QED BY <2>1, <2>2 DEF Converts
<1> QED BY <1>2, <1>10, <1>11

\* Kept variables and definitions never make every further cell fail, but in the cases the
\* property names, whatever cells succeeded, returned or raised before.
THEOREM UsableUnlessRetypedHolds == Spec => []UsableUnlessRetyped
<1> DEFINE Inv == Shape /\ Noting /\ Keeping
<1>1. Init => Inv
  <2> SUFFICES ASSUME Init PROVE Noting /\ Keeping
    BY ShapeStarts
  <2>1. /\ snap = <<>> /\ vtype = <<>> /\ vrec = <<>> /\ buffer = <<>>
        /\ items = {} /\ (\A x \in Vars : lets[x] = {}) /\ \A p \in Records \X Fields : fieldtypes[p] = {}
    BY DEF Init
  <2>2. DOMAIN <<>> = {} /\ Len(<<>>) = 0
    OBVIOUS
  <2> QED BY <2>1, <2>2 DEF Noting, FieldsNoted, Keeping, SnapOK, BufferOK
<1>2. Inv /\ [Next]_vars => Inv'
  BY ShapeStays, KeepingStays
<1>3. Inv => UsableUnlessRetyped
  <2> SUFFICES ASSUME Inv, Stuck, ~stale,
                      ~\E x \in Vars : Cardinality(lets[x]) > 1,
                      ~\E p \in Records \X Fields : Cardinality(fieldtypes[p]) > 1,
                      ~\E x \in DOMAIN vtype \ DOMAIN vrec : vtype[x] \in Records,
                      ~\E i \in items : ~i.ok
               PROVE  FALSE
    BY DEF UsableUnlessRetyped
  <2>1. SnapOK
    BY DEF Keeping
  <2>2. /\ Emits(items, JustPrint) /\ Compiles(items, vtype, JustPrint)
        /\ Converts(items, JustPrint, Len(JustPrint))
    BY <2>1, UsableIs
  <2> QED BY <2>2 DEF Stuck
<1>4. QED
  BY <1>1, <1>2, <1>3, PTL DEF Spec

\* The rows of a cell are this input's, or older.
LEMMA RowsAre ==
  ASSUME DbOK, now \in Nat, NEW stmts, NEW n
  PROVE  \A row \in Committed(stmts, n) \cup Open(stmts, n) : row[1] \in 1..(now + 1)
<1>1. \A m : \A row \in Rows(stmts, m) : row[1] = now + 1
  BY DEF Rows
<1>2. \A row \in pending \cup committed : row[1] \in 1..(now + 1)
  BY DEF DbOK
<1> QED BY <1>1, <1>2 DEF Committed, Open

\* The database side: a row is open or committed, never both, made by an input of this session;
\* without a connection there is neither a transaction nor output.
THEOREM SessionSound == Spec => []DbOK
<1> DEFINE Inv == DbOK /\ now \in Nat
<1>1. Init => Inv
  BY DEF Init, DbOK
<1>2. Inv /\ [Next]_vars => Inv'
  <2> SUFFICES ASSUME Inv, [Next]_vars PROVE Inv'
    OBVIOUS
  <2>1. CASE UNCHANGED vars
    BY <2>1 DEF vars, db, DbOK
  <2>2. CASE SyntaxError \/ Reset \/ (\E c \in Cells : CellStops(c) \/ Load(c))
    <3>1. UNCHANGED db /\ now' = now + 1
      BY <2>2 DEF SyntaxError, Reset, CellStops, Load, Input
    <3>2. QED
      BY <3>1 DEF db, DbOK
  <2>3. CASE RawDml
    BY <2>3 DEF RawDml, Input, DbOK
  <2>4. CASE RawRollback
    BY <2>4 DEF RawRollback, Input, DbOK
  <2>5. CASE ExecBlock
    BY <2>5 DEF ExecBlock, Input, DbOK
  <2>6. CASE ExecRaises
    BY <2>6 DEF ExecRaises, Input, DbOK
  <2>7. CASE Connect
    BY <2>7 DEF Connect, Input, DbOK
  <2>8. ASSUME NEW c \in Cells, CellRuns(c) PROVE Inv'
    <3> DEFINE n == Upto(c.stmts)
    <3>1. /\ conn /\ buffer' = <<>> /\ now' = now + 1 /\ conn' = conn
          /\ pending' = Open(c.stmts, n) /\ committed' = Committed(c.stmts, n)
      BY <2>8 DEF CellRuns, Prepare, Input
    <3> HIDE DEF n
    <3>2. \A row \in pending' \cup committed' : row[1] \in 1..now'
      BY <3>1, RowsAre
    <3>3. pending' \cap committed' = {}
      BY <3>1 DEF Open
    <3>4. QED
      BY <3>1, <3>2, <3>3 DEF DbOK
  <2>9. ASSUME NEW c \in Cells, CellRaises(c) PROVE Inv'
    <3>1. /\ conn /\ now' = now + 1 /\ conn' = conn
          /\ UNCHANGED <<pending, committed>> \/ \E n : Undone(c.stmts, n)
      BY <2>9 DEF CellRaises, Prepare, Input
    <3>2. CASE UNCHANGED <<pending, committed>>
      BY <3>1, <3>2 DEF DbOK
    <3>3. CASE \E n : Undone(c.stmts, n)
      <4>1. PICK n : Undone(c.stmts, n)
        BY <3>3
      <4>2. /\ committed' = Committed(c.stmts, n)
            /\ Commits(c.stmts, n) = {} => pending' = pending /\ committed' = committed
            /\ Commits(c.stmts, n) # {} => pending' = {} \/ pending' = Open(c.stmts, n)
        BY <4>1 DEF Undone, Committed
      <4>3. \A row \in pending' \cup committed' : row[1] \in 1..now'
        BY <3>1, <4>2, RowsAre DEF DbOK
      <4>4. pending' \cap committed' = {}
        BY <4>2 DEF Open, DbOK
      <4>5. QED
        BY <3>1, <4>3, <4>4 DEF DbOK
    <3>4. QED
      BY <3>1, <3>2, <3>3
  <2>10. QED
    BY <2>1, <2>2, <2>3, <2>4, <2>5, <2>6, <2>7, <2>8, <2>9 DEF Next
<1>3. QED
  BY <1>1, <1>2, PTL DEF Spec
=============================================================================
