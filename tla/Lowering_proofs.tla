-------------------------- MODULE Lowering_proofs --------------------------
(* What the proof system checks about Lowering, for every program: every set *)
(* of functions and blocks, and every number of failing statements.          *)
EXTENDS Lowering, FiniteSetTheorems, SequenceTheorems, WellFoundedInduction, TLAPS

----------------------------------------------------------------------------
(* Numbers and sequences.                                                   *)

\* A set of numbers that is not empty has a least one.
LEMMA LeastNumber ==
  ASSUME NEW S \in SUBSET Nat, S # {}
  PROVE  \E n \in S : \A m \in S : n <= m
<1>1. PICK n \in S : \A y \in S : <<y, n>> \notin OpToRel(<, Nat)
  BY WFMin, NatLessThanWellFounded
<1>2. \A m \in S : m \in Nat /\ n \in Nat /\ ~(m < n)
  BY <1>1 DEF OpToRel
<1> QED BY <1>2

\* A set of the first n numbers that is not empty has a greatest one.
LEMMA GreatestNumber ==
  ASSUME NEW n \in Nat, NEW S \in SUBSET (1..n), S # {}
  PROVE  \E x \in S : \A y \in S : x >= y
<1> DEFINE T == {n - i : i \in S}
<1>1. T \in SUBSET Nat /\ T # {}
  <2>1. \A i \in S : n - i \in Nat
    OBVIOUS
  <2>2. PICK i \in S : TRUE
    OBVIOUS
  <2>3. n - i \in T
    OBVIOUS
  <2> QED BY <2>1, <2>3
<1> HIDE DEF T
<1>2. PICK t \in T : \A m \in T : t <= m
  BY <1>1, LeastNumber
<1>3. PICK x \in S : t = n - x
  BY DEF T
<1>4. \A y \in S : n - x <= n - y
  BY <1>2, <1>3 DEF T
<1> QED BY <1>4

\* The functions that FlattenSeq may choose, up to n.
Flattens(seqs, f, n) ==
  f = [i \in 1..n |-> IF i = 1 THEN seqs[i] ELSE f[i - 1] \o seqs[i]]

\* There is one.
LEMMA FlattensExists ==
  ASSUME NEW S, NEW seqs \in Seq(Seq(S)), NEW n \in 1..Len(seqs)
  PROVE  \E f : Flattens(seqs, f, n)
<1> DEFINE bad == {k \in 1..Len(seqs) : ~\E f : Flattens(seqs, f, k)}
<1> SUFFICES ASSUME bad # {} PROVE FALSE
  OBVIOUS
<1>1. PICK k \in bad : \A m \in bad : k <= m
  <2>1. bad \in SUBSET Nat
    OBVIOUS
  <2> HIDE DEF bad
  <2> QED BY <2>1, LeastNumber
<1>0. k \in 1..Len(seqs) /\ Len(seqs) \in Nat
  OBVIOUS
<1>2. CASE k = 1
  <2> DEFINE g == [i \in 1..1 |-> seqs[i]]
  <2>1. Flattens(seqs, g, 1)
    BY DEF Flattens
  <2> QED BY <1>1, <1>2, <2>1
<1>3. CASE k > 1
  <2>1. k - 1 \in 1..Len(seqs) /\ k - 1 \notin bad
    <3>1. k - 1 \in 1..Len(seqs) /\ ~(k <= k - 1)
      BY <1>0, <1>3
    <3> QED BY <1>1, <3>1
  <2>2. PICK f : Flattens(seqs, f, k - 1)
    BY <2>1
  <2> DEFINE g == [i \in 1..k |-> IF i = k THEN f[k - 1] \o seqs[k] ELSE f[i]]
  <2>3. ASSUME NEW i \in 1..k PROVE g[i] = IF i = 1 THEN seqs[i] ELSE g[i - 1] \o seqs[i]
    <3>1. CASE i = k
      <4>1. i - 1 \in 1..k /\ i - 1 # k /\ i # 1
        BY <1>0, <1>3, <3>1
      <4> QED BY <3>1, <4>1
    <3>2. CASE i # k
      <4>1. i \in 1..(k - 1)
        BY <3>2
      <4>2. g[i] = f[i] /\ (i # 1 => g[i - 1] = f[i - 1])
        BY <3>2, <4>1
      <4> QED BY <2>2, <4>1, <4>2 DEF Flattens
    <3> QED BY <3>1, <3>2
  <2>4. g = [i \in 1..k |-> g[i]]
    OBVIOUS
  <2> HIDE DEF g
  <2>5. Flattens(seqs, g, k)
    BY <2>3, <2>4 DEF Flattens
  <2> QED BY <1>1, <2>5
<1> QED BY <1>1, <1>2, <1>3

LEMMA FlattenIs ==
  ASSUME NEW S, NEW seqs \in Seq(Seq(S)), Len(seqs) # 0
  PROVE  \E f : Flattens(seqs, f, Len(seqs)) /\ FlattenSeq(seqs) = f[Len(seqs)]
<1> DEFINE h == CHOOSE f : Flattens(seqs, f, Len(seqs))
<1>1. Flattens(seqs, h, Len(seqs))
  BY FlattensExists
<1>2. FlattenSeq(seqs) = h[Len(seqs)]
  BY Zenon DEF FlattenSeq, Flattens
<1> QED BY <1>1, <1>2
\* Place p of s lies in a copy of the sequence t that begins after place o.
Copied(s, t, o, p) ==
  /\ o < p /\ p <= o + Len(t) /\ o + Len(t) <= Len(s)
  /\ \A q \in 1..Len(t) : s[o + q] = t[q]

\* Every place of s lies in a copy of one of the first n sequences.
Segmented(s, seqs, n) ==
  \A p \in 1..Len(s) : \E i \in 1..n, o \in Nat : Copied(s, seqs[i], o, p)

LEMMA SegmentedNext ==
  ASSUME NEW S, NEW seqs \in Seq(Seq(S)), NEW n \in Nat, n + 1 <= Len(seqs),
         NEW s \in Seq(S), Segmented(s, seqs, n)
  PROVE  s \o seqs[n + 1] \in Seq(S) /\ Segmented(s \o seqs[n + 1], seqs, n + 1)
<1> DEFINE t == seqs[n + 1]
           st == s \o t
<1>1. t \in Seq(S)
  OBVIOUS
<1> HIDE DEF t
<1>2. /\ st \in Seq(S) /\ Len(st) = Len(s) + Len(t)
      /\ \A p \in 1..Len(s) : st[p] = s[p]
      /\ \A q \in 1..Len(t) : st[Len(s) + q] = t[q]
      /\ Len(s) \in Nat /\ Len(t) \in Nat
  BY <1>1
<1> HIDE DEF st
<1>3. ASSUME NEW p \in 1..Len(st)
      PROVE  \E i \in 1..(n + 1), o \in Nat : Copied(st, seqs[i], o, p)
  <2>1. CASE p <= Len(s)
    <3>1. p \in 1..Len(s)
      BY <1>2, <2>1
    <3>2. PICK i \in 1..n, o \in Nat : Copied(s, seqs[i], o, p)
      BY <3>1 DEF Segmented
    <3>3. i \in 1..(n + 1) /\ Len(seqs[i]) \in Nat
      <4>1. i \in 1..Len(seqs)
        OBVIOUS
      <4>2. seqs[i] \in Seq(S)
        BY <4>1
      <4> QED BY <4>2
    <3>4. \A q \in 1..Len(seqs[i]) : o + q \in 1..Len(s)
      BY <1>2, <3>2, <3>3 DEF Copied
    <3>5. Copied(st, seqs[i], o, p)
      <4> DEFINE u == seqs[i]
      <4>1. Copied(s, u, o, p) /\ Len(u) \in Nat /\ \A q \in 1..Len(u) : o + q \in 1..Len(s)
        BY <3>2, <3>3, <3>4
      <4> HIDE DEF u
      <4>2. \A q \in 1..Len(u) : st[o + q] = u[q]
        BY <1>2, <4>1 DEF Copied
      <4>3. Copied(st, u, o, p)
        BY <1>2, <4>1, <4>2 DEF Copied
      <4> QED BY <4>3 DEF u
    <3> QED BY <3>3, <3>5
  <2>2. CASE p > Len(s)
    <3>1. Copied(st, t, Len(s), p)
      BY <1>2, <2>2 DEF Copied
    <3> QED BY <1>2, <3>1 DEF t
  <2>3. p <= Len(s) \/ p > Len(s)
    BY <1>2
  <2> QED BY <2>1, <2>2, <2>3
<1> QED BY <1>2, <1>3 DEF Segmented, t, st

\* FlattenSeq: a sequence made of copies of its sequences.
LEMMA Segments ==
  ASSUME NEW S, NEW seqs \in Seq(Seq(S))
  PROVE  FlattenSeq(seqs) \in Seq(S) /\ Segmented(FlattenSeq(seqs), seqs, Len(seqs))
<1>1. CASE Len(seqs) = 0
  <2>1. FlattenSeq(seqs) = seqs
    BY <1>1 DEF FlattenSeq
  <2>2. seqs = <<>>
    BY <1>1
  <2>3. <<>> \in Seq(S) /\ Len(<<>>) = 0
    OBVIOUS
  <2> QED BY <2>1, <2>2, <2>3 DEF Segmented
<1>2. CASE Len(seqs) # 0
  <2>1. PICK f : Flattens(seqs, f, Len(seqs)) /\ FlattenSeq(seqs) = f[Len(seqs)]
    BY <1>2, FlattenIs
  <2> DEFINE bad == {k \in 1..Len(seqs) : ~(f[k] \in Seq(S) /\ Segmented(f[k], seqs, k))}
  <2>2. Len(seqs) \in Nat /\ Len(seqs) \in 1..Len(seqs)
    BY <1>2
  <2>3. ASSUME bad # {} PROVE FALSE
    <3>1. bad \in SUBSET Nat
      OBVIOUS
    <3>2. PICK k \in bad : \A m \in bad : k <= m
      <4> HIDE DEF bad
      <4> QED BY <2>3, <3>1, LeastNumber
    <3>3. k \in 1..Len(seqs)
      OBVIOUS
    <3>4. CASE k = 1
      <4>1. f[1] = seqs[1] /\ seqs[1] \in Seq(S)
        BY <2>1, <3>3, <3>4 DEF Flattens
      <4>2. Segmented(seqs[1], seqs, 1)
        <5>1. ASSUME NEW p \in 1..Len(seqs[1])
              PROVE  1 \in 1..1 /\ 0 \in Nat /\ Copied(seqs[1], seqs[1], 0, p)
          BY <4>1 DEF Copied
        <5> QED BY <5>1 DEF Segmented
      <4> QED BY <3>4, <4>1, <4>2
    <3>5. CASE k > 1
      <4>1. k - 1 \in 1..Len(seqs) /\ ~(k <= k - 1) /\ k - 1 \in Nat /\ (k - 1) + 1 = k /\ k # 1 /\ k <= Len(seqs)
        BY <2>2, <3>3, <3>5
      <4>2. f[k - 1] \in Seq(S) /\ Segmented(f[k - 1], seqs, k - 1)
        BY <3>2, <4>1
      <4>3. f[k] = f[k - 1] \o seqs[k]
        BY <2>1, <3>3, <4>1 DEF Flattens
      <4> DEFINE n == k - 1
      <4>4. n \in Nat /\ n + 1 = k /\ n + 1 <= Len(seqs) /\ f[n] \in Seq(S) /\ Segmented(f[n], seqs, n)
        BY <4>1, <4>2
      <4>5. f[n] \o seqs[n + 1] \in Seq(S) /\ Segmented(f[n] \o seqs[n + 1], seqs, n + 1)
        <5> HIDE DEF n
        <5> QED BY <4>4, SegmentedNext
      <4>6. f[k] \in Seq(S) /\ Segmented(f[k], seqs, k)
        BY <4>3, <4>4, <4>5
      <4> QED BY <4>6
    <3> QED BY <3>3, <3>4, <3>5
  <2> QED BY <2>1, <2>2, <2>3
<1> QED BY <1>1, <1>2

----------------------------------------------------------------------------
(* The code of a block.                                                     *)

SaveNames == {<<"pell_sp", d>> : d \in Nat} \cup {Attempt}

\* The PL/SQL statements there are.
Commits == {I("commit", NoArg)} \cup {I("flag", k) : k \in Nat}
Instr == Stmts \cup Commits \cup {I("return", NoArg), I("finally", NoArg)}
           \cup {I("call", g) : g \in Fns} \cup {I("savepoint", n) : n \in SaveNames}

\* What their arguments are.
LEMMA InstrArgs ==
  ASSUME NEW e \in Instr
  PROVE  /\ e.op = "call" => e.arg \in Fns
         /\ e.op \in {"if", "transaction"} => e.arg \in DOMAIN Block
         /\ e.op = "savepoint" => e.arg \in SaveNames
         /\ e.op = "dml" => e \in Stmts
<1>1. CASE e \in Stmts
  BY <1>1, BlockAssumption
<1>2. CASE e \notin Stmts
  BY <1>2 DEF Instr, Commits, I
<1> QED BY <1>1, <1>2

\* The COMMITs of a return are COMMITs and flags; there are none outside transaction blocks.
LEMMA CommitAllIs ==
  ASSUME NEW d \in Nat
  PROVE  CommitAll(d) \in Seq(Commits) /\ (d = 0 => CommitAll(d) = <<>>)
<1> DEFINE seqs == [k \in 1..d |-> <<I("commit", NoArg), I("flag", k)>>]
<1>1. \A k \in 1..d : <<I("commit", NoArg), I("flag", k)>> \in Seq(Commits)
  BY DEF Commits
<1>2. seqs \in Seq(Seq(Commits)) /\ Len(seqs) = d
  BY <1>1
<1>3. d = 0 => FlattenSeq(seqs) = <<>>
  BY <1>2 DEF FlattenSeq
<1> HIDE DEF seqs
<1>4. FlattenSeq(seqs) \in Seq(Commits)
  BY <1>2, Segments
<1> QED BY <1>3, <1>4 DEF CommitAll, seqs

\* x is a statement of what is emitted for the return s.
OfReturn(s, d, f, x) ==
  \/ x \in Commits /\ d > 0
  \/ x = I("return", NoArg)
  \/ x = I("finally", NoArg) /\ Def[f].finally # NoBlock
  \/ s.arg # NoArg /\ x = I("call", s.arg)

\* In a function with a finally block, no return comes before the finally block has run.
CleansUp(e, f) ==
  Def[f].finally # NoBlock =>
    \A p \in 1..Len(e) : e[p].op = "return" => \E r \in 1..(p - 1) : e[r].op = "finally"

\* What becomes of a return.
LEMMA ReturnIs ==
  ASSUME NEW s \in Stmts, s.op = "return", NEW d \in Nat, NEW f \in Fns
  PROVE  /\ EmitReturn(s, d, f) \in Seq(Instr)
         /\ \A q \in 1..Len(EmitReturn(s, d, f)) : OfReturn(s, d, f, EmitReturn(s, d, f)[q])
         /\ CleansUp(EmitReturn(s, d, f), f)
<1> DEFINE a == CommitAll(d)
           v == ReturnValue(s)
           F == {I("finally", NoArg)}
           V == {I("return", NoArg)} \cup (IF s.arg = NoArg THEN {} ELSE {I("call", s.arg)})
           e == EmitReturn(s, d, f)
<1>1. a \in Seq(Commits) /\ (d = 0 => Len(a) = 0)
  BY CommitAllIs
<1>2. RunFinally(f) \in Seq(F) /\ Len(RunFinally(f)) = (IF Def[f].finally = NoBlock THEN 0 ELSE 1)
  <2>1. CASE Def[f].finally = NoBlock
    BY <2>1 DEF RunFinally
  <2>2. CASE Def[f].finally # NoBlock
    BY <2>2 DEF RunFinally
  <2> QED BY <2>1, <2>2
<1>3. v \in Seq(V)
  <2>1. CASE s.arg = NoArg
    BY <2>1 DEF ReturnValue
  <2>2. CASE s.arg # NoArg
    BY <2>2 DEF ReturnValue
  <2> QED BY <2>1, <2>2
<1>4. e = (a \o RunFinally(f)) \o v
  BY DEF EmitReturn
<1>5. s.arg \in Fns \cup {NoArg}
  BY BlockAssumption
<1>6. Commits \subseteq Instr /\ F \subseteq Instr /\ V \subseteq Instr
  BY <1>5 DEF Instr
<1>7. \A x \in Commits : x.op \notin {"return", "finally"}
  BY DEF Commits, I
<1>8. ASSUME NEW x \in V PROVE x = I("return", NoArg) \/ (s.arg # NoArg /\ x = I("call", s.arg))
  <2>1. x = I("return", NoArg) \/ x \in (IF s.arg = NoArg THEN {} ELSE {I("call", s.arg)})
    BY <1>8
  <2>2. CASE s.arg = NoArg
    BY <2>1, <2>2
  <2>3. CASE s.arg # NoArg
    BY <2>1, <2>3
  <2> QED BY <2>2, <2>3
<1>9. \A x \in F \cup V : x.op \in {"return", "finally", "call"}
  BY DEF I
<1>10. \A x \in Commits : x.op \in {"commit", "flag"}
  BY DEF Commits, I
<1> HIDE DEF a, v, F, V, e
<1> DEFINE b == RunFinally(f)
<1> HIDE DEF b
<1>11. a \in Seq(Commits) /\ b \in Seq(F) /\ v \in Seq(V) /\ e = (a \o b) \o v
  BY <1>1, <1>2, <1>3, <1>4 DEF b
<1>12. /\ Len(e) = Len(a) + Len(b) + Len(v) /\ Len(a) \in Nat /\ Len(b) \in Nat /\ Len(v) \in Nat
       /\ \A q \in 1..Len(a) : e[q] = a[q]
       /\ \A q \in 1..Len(b) : e[Len(a) + q] = b[q]
       /\ \A q \in 1..Len(v) : e[Len(a) + Len(b) + q] = v[q]
  BY <1>11
<1>13. e \in Seq(Instr)
  BY <1>6, <1>11
<1>14. ASSUME NEW q \in 1..Len(e)
       PROVE  \/ q \in 1..Len(a) /\ e[q] \in Commits
              \/ q > Len(a) /\ e[q] \in F /\ Def[f].finally # NoBlock
              \/ q > Len(a) /\ e[q] \in V
  <2>1. CASE q <= Len(a)
    BY <1>11, <1>12, <2>1
  <2>2. CASE q > Len(a) /\ q <= Len(a) + Len(b)
    <3>1. q - Len(a) \in 1..Len(b) /\ Len(a) + (q - Len(a)) = q /\ Len(b) > 0
      BY <1>12, <2>2
    <3>2. Def[f].finally # NoBlock
      BY <1>2, <3>1 DEF b
    <3> QED BY <1>11, <1>12, <2>2, <3>1, <3>2
  <2>3. CASE q > Len(a) + Len(b)
    <3>1. q - (Len(a) + Len(b)) \in 1..Len(v) /\ Len(a) + Len(b) + (q - (Len(a) + Len(b))) = q
      BY <1>12, <2>3
    <3> QED BY <1>11, <1>12, <2>3, <3>1
  <2> QED BY <1>12, <2>1, <2>2, <2>3
<1>15. ASSUME NEW q \in 1..Len(e), e[q].op = "return", Def[f].finally # NoBlock
       PROVE  \E r \in 1..(q - 1) : e[r].op = "finally"
  <2>1. Len(b) = 1 /\ q > Len(a)
    BY <1>2, <1>7, <1>14, <1>15 DEF b
  <2>2. e[Len(a) + 1] = b[1] /\ b[1] \in F
    BY <1>11, <1>12, <2>1
  <2>3. e[Len(a) + 1].op = "finally"
    BY <2>2 DEF F, I
  <2>4. q # Len(a) + 1
    BY <1>15, <2>3
  <2> QED BY <1>12, <2>1, <2>3, <2>4
<1>16. ASSUME NEW q \in 1..Len(e) PROVE OfReturn(s, d, f, e[q])
  <2>1. CASE q \in 1..Len(a) /\ e[q] \in Commits
    BY <1>1, <1>12, <2>1 DEF OfReturn
  <2>2. CASE e[q] \in F /\ Def[f].finally # NoBlock
    BY <2>2 DEF F, OfReturn
  <2>3. CASE e[q] \in V
    BY <1>8, <2>3 DEF OfReturn
  <2> QED BY <1>14, <2>1, <2>2, <2>3
<1> QED BY <1>13, <1>15, <1>16 DEF e, CleansUp

\* All but the last element of a sequence.
LEMMA FrontIs ==
  ASSUME NEW S, NEW s \in Seq(S), s # <<>>
  PROVE  /\ Front(s) \in Seq(S) /\ Len(Front(s)) = Len(s) - 1
         /\ \A i \in 1..Len(Front(s)) : Front(s)[i] = s[i] /\ i \in 1..Len(s)
<1> DEFINE n == Len(s) - 1
           f == Front(s)
<1>1. n \in Nat /\ n <= Len(s)
  OBVIOUS
<1>2. f = SubSeq(s, 1, n)
  BY DEF Front
<1> HIDE DEF n, f
<1>3. f \in Seq(S) /\ Len(f) = n
  BY <1>1, <1>2
<1>4. \A i \in 1..n : f[i] = s[i] /\ i \in 1..Len(s)
  BY <1>1, <1>2
<1> QED BY <1>3, <1>4 DEF f, n

\* One element of a sequence replaced.
LEMMA ReplacedIs ==
  ASSUME NEW S, NEW s \in Seq(S), NEW k \in 1..Len(s), NEW e \in S, NEW t, t = [s EXCEPT ![k] = e]
  PROVE  /\ t \in Seq(S) /\ Len(t) = Len(s) /\ t[k] = e
         /\ \A i \in 1..Len(s) : i # k => t[i] = s[i]
OBVIOUS

\* The places of two sequences put one after the other.
LEMMA TwoParts ==
  ASSUME NEW S, NEW a \in Seq(S), NEW c \in Seq(S), NEW e, e = a \o c
  PROVE  /\ e \in Seq(S) /\ Len(e) = Len(a) + Len(c)
         /\ \A q \in 1..Len(a) : e[q] = a[q]
         /\ \A q \in 1..Len(c) : e[Len(a) + q] = c[q]
OBVIOUS

\* The places of three sequences put one after the other.
\* e is a, m and c in a row.
Parts(e, a, m, c) ==
  /\ Len(e) = Len(a) + Len(m) + Len(c)
  /\ Len(a) \in Nat /\ Len(m) \in Nat /\ Len(c) \in Nat
  /\ \A q \in 1..Len(a) : e[q] = a[q]
  /\ \A q \in 1..Len(m) : e[Len(a) + q] = m[q]
  /\ \A q \in 1..Len(c) : e[Len(a) + Len(m) + q] = c[q]
  /\ \A p \in 1..Len(e) : \/ p \in 1..Len(a)
                          \/ p - Len(a) \in 1..Len(m)
                          \/ p - (Len(a) + Len(m)) \in 1..Len(c)

LEMMA ThreeParts ==
  ASSUME NEW S, NEW a \in Seq(S), NEW m \in Seq(S), NEW c \in Seq(S), NEW e, e = (a \o m) \o c
  PROVE  e \in Seq(S) /\ Parts(e, a, m, c)
<1>1. e \in Seq(S) /\ Len(e) = Len(a) + Len(m) + Len(c)
  OBVIOUS
<1>2. Len(a) \in Nat /\ Len(m) \in Nat /\ Len(c) \in Nat
  OBVIOUS
<1>3. \A q \in 1..Len(a) : e[q] = a[q]
  OBVIOUS
<1>4. \A q \in 1..Len(m) : e[Len(a) + q] = m[q]
  OBVIOUS
<1>5. \A q \in 1..Len(c) : e[Len(a) + Len(m) + q] = c[q]
  OBVIOUS
<1>6. \A p \in 1..Len(e) : \/ p \in 1..Len(a)
                          \/ p - Len(a) \in 1..Len(m)
                          \/ p - (Len(a) + Len(m)) \in 1..Len(c)
  BY <1>1, <1>2
<1> QED BY <1>1, <1>2, <1>3, <1>4, <1>5, <1>6 DEF Parts

\* Places in a part of a sequence.
LEMMA PlacesBefore ==
  ASSUME NEW p \in Nat, NEW o \in Nat, NEW n \in Nat, p - o \in 1..n, NEW r \in 1..((p - o) - 1)
  PROVE  r \in 1..n /\ o + r \in 1..(p - 1)
OBVIOUS

LEMMA PlaceBelow ==
  ASSUME NEW i \in Nat \ {0}, NEW n \in Nat, NEW k \in i..n, k # i
  PROVE  /\ k - 1 \in i..n /\ k \in 2..n /\ k \in 1..n /\ k - 1 \in 1..n /\ k \in Nat
         /\ ~(k <= k - 1)
OBVIOUS

\* x is emitted for a statement of block b.
FromBlock(b, d, f, x) ==
  \/ x \in ToSet(Block[b]) /\ x.op # "return"
  \/ \E s \in ToSet(Block[b]) :
       s.op = "return" /\ OfReturn(s, d, f, x)

\* The statements of a block.
LEMMA BodyIs ==
  ASSUME NEW b \in DOMAIN Block, NEW d \in Nat, NEW f \in Fns
  PROVE  /\ EmitBody(b, d, f) \in Seq(Instr)
         /\ \A p \in 1..Len(EmitBody(b, d, f)) : FromBlock(b, d, f, EmitBody(b, d, f)[p])
         /\ CleansUp(EmitBody(b, d, f), f)
<1> DEFINE n == Len(Block[b])
           seqs == [i \in 1..n |-> EmitStmt(Block[b][i], d, f)]
           e == EmitBody(b, d, f)
<1>1. Block[b] \in Seq(Stmts) /\ n \in Nat
  BY BlockAssumption
<1>2. ASSUME NEW i \in 1..n
      PROVE  /\ Block[b][i] \in Stmts /\ Block[b][i] \in ToSet(Block[b])
             /\ Block[b][i].op = "return" =>
                  (\A q \in 1..Len(seqs[i]) : OfReturn(Block[b][i], d, f, seqs[i][q])) /\ CleansUp(seqs[i], f)
             /\ Block[b][i].op # "return" => seqs[i] = <<Block[b][i]>>
             /\ seqs[i] \in Seq(Instr)
  <2>1. Block[b][i] \in Stmts /\ Block[b][i] \in ToSet(Block[b])
    BY <1>1 DEF ToSet
  <2>2. CASE Block[b][i].op = "return"
    BY <2>1, <2>2, ReturnIs DEF EmitStmt
  <2>3. CASE Block[b][i].op # "return"
    BY <2>1, <2>3 DEF EmitStmt, Instr
  <2> QED BY <2>1, <2>2, <2>3
<1>3. seqs \in Seq(Seq(Instr)) /\ Len(seqs) = n
  BY <1>1, <1>2
<1>4. e = FlattenSeq(seqs)
  BY DEF EmitBody
<1> HIDE DEF seqs, e
<1>5. e \in Seq(Instr) /\ Segmented(e, seqs, n)
  BY <1>3, <1>4, Segments
<1>6. ASSUME NEW p \in 1..Len(e)
      PROVE  \E i \in 1..n, o \in Nat : Copied(e, seqs[i], o, p) /\ p - o \in 1..Len(seqs[i])
                                         /\ e[p] = seqs[i][p - o]
  <2>1. PICK i \in 1..n, o \in Nat : Copied(e, seqs[i], o, p)
    BY <1>5 DEF Segmented
  <2>2. Len(seqs[i]) \in Nat
    BY <1>2
  <2>3. p - o \in 1..Len(seqs[i]) /\ o + (p - o) = p
    BY <2>1, <2>2 DEF Copied
  <2> QED BY <2>1, <2>3 DEF Copied
<1>7. ASSUME NEW p \in 1..Len(e) PROVE FromBlock(b, d, f, e[p])
  <2>1. PICK i \in 1..n, o \in Nat : p - o \in 1..Len(seqs[i]) /\ e[p] = seqs[i][p - o]
    BY <1>6
  <2>2. CASE Block[b][i].op = "return"
    BY <1>2, <2>1, <2>2 DEF FromBlock
  <2>3. CASE Block[b][i].op # "return"
    BY <1>2, <2>1, <2>3 DEF FromBlock
  <2> QED BY <2>2, <2>3
<1>8. ASSUME NEW p \in 1..Len(e), Def[f].finally # NoBlock, e[p].op = "return"
      PROVE  \E r \in 1..(p - 1) : e[r].op = "finally"
  <2>1. PICK i \in 1..n, o \in Nat : Copied(e, seqs[i], o, p) /\ p - o \in 1..Len(seqs[i])
                                      /\ e[p] = seqs[i][p - o]
    BY <1>6
  <2>2. Block[b][i].op = "return"
    <3>1. CASE Block[b][i].op # "return"
      <4>1. seqs[i] = <<Block[b][i]>>
        BY <1>2, <3>1
      <4>2. e[p] = Block[b][i]
        BY <2>1, <4>1
      <4> QED BY <1>8, <3>1, <4>2
    <3> QED BY <3>1
  <2>3. PICK r \in 1..((p - o) - 1) : seqs[i][r].op = "finally"
    BY <1>2, <1>8, <2>1, <2>2 DEF CleansUp
  <2>4. r \in 1..Len(seqs[i]) /\ o + r \in 1..(p - 1)
    <3>1. seqs[i] \in Seq(Instr)
      BY <1>2
    <3>2. Len(seqs[i]) \in Nat
      BY <3>1
    <3>3. p \in Nat
      BY <1>5
    <3> QED BY <2>1, <2>3, <3>2, <3>3, PlacesBefore
  <2> QED BY <2>1, <2>3, <2>4 DEF Copied
<1> QED BY <1>5, <1>7, <1>8 DEF CleansUp, e

Kinds == {"fn", "tx", "if", "finally"}
Phases == {"body", "after", "cleanup", "raised"}
Modes == {"run", "raise", "return"}
Row == {Before} \cup {s.arg : s \in Stmts}
Durable == [level : Nat, row : Row]

FrameT ==
  [kind : Kinds, fn : Fns, blk : DOMAIN Block, depth : Nat, pc : Nat, phase : Phases,
   flag : BOOLEAN, attempt : Nat, cause : Errors \cup {NoError}, fins : Nat, level : Nat,
   work : Seq(Row), committed : Seq(Durable)]

\* Blocks are entered as their kind has it.
FrameOK(fr) ==
  /\ fr \in FrameT /\ fr.pc > 0 /\ fr.level > 0
  /\ fr.kind = "fn" => fr.blk = Def[fr.fn].body /\ fr.depth = 0
  /\ fr.kind = "tx" => fr.depth > 0
  /\ fr.phase \in {"after", "cleanup"} => fr.kind = "fn" /\ Def[fr.fn].finally # NoBlock

\* A statement of the code of fr that no statement of its block stands for.
Added(fr, p) ==
  \/ /\ fr.kind = "fn" /\ Def[fr.fn].retry > 0
     /\ p = 1 /\ Code(fr)[p] = I("savepoint", Attempt)
  \/ /\ fr.kind = "fn" /\ Def[fr.fn].autonomous /\ Def[fr.fn].finally = NoBlock
     /\ p = Len(Code(fr)) /\ Code(fr)[p] = I("commit", NoArg)
  \/ /\ fr.kind = "tx"
     /\ Code(fr)[p] \in {I("savepoint", <<"pell_sp", fr.depth>>)} \cup Commits

\* What is put around the statements of a block.
LEMMA CodeParts ==
  ASSUME NEW fr, FrameOK(fr), fr.phase # "after",
         NEW a \in Seq(Instr), NEW c \in Seq(Instr),
         Code(fr) = (a \o EmitBody(fr.blk, fr.depth, fr.fn)) \o c,
         \A q \in 1..Len(a) : a[q].op # "return", \A q \in 1..Len(c) : c[q].op # "return"
  PROVE  /\ Code(fr) \in Seq(Instr)
         /\ CleansUp(Code(fr), fr.fn)
         /\ \A p \in 1..Len(Code(fr)) :
              \/ FromBlock(fr.blk, fr.depth, fr.fn, Code(fr)[p])
              \/ p \in 1..Len(a) /\ Code(fr)[p] = a[p]
              \/ /\ p - (Len(Code(fr)) - Len(c)) \in 1..Len(c)
                 /\ Code(fr)[p] = c[p - (Len(Code(fr)) - Len(c))]
         /\ Len(a) <= Len(Code(fr)) /\ \A q \in 1..Len(a) : Code(fr)[q] = a[q]
         /\ Len(c) <= Len(Code(fr)) /\ \A q \in 1..Len(c) : Code(fr)[(Len(Code(fr)) - Len(c)) + q] = c[q]
<1> DEFINE m == EmitBody(fr.blk, fr.depth, fr.fn)
           e == Code(fr)
           FB(x) == FromBlock(fr.blk, fr.depth, fr.fn, x)
<1>1. m \in Seq(Instr) /\ CleansUp(m, fr.fn) /\ \A p \in 1..Len(m) : FB(m[p])
  BY BodyIs DEF FrameOK, FrameT
<1>2. e = (a \o m) \o c
  OBVIOUS
<1> HIDE DEF m, e, FB
<1>3. /\ e \in Seq(Instr) /\ Len(e) = Len(a) + Len(m) + Len(c)
      /\ Len(a) \in Nat /\ Len(m) \in Nat /\ Len(c) \in Nat
      /\ \A q \in 1..Len(a) : e[q] = a[q]
      /\ \A q \in 1..Len(m) : e[Len(a) + q] = m[q]
      /\ \A q \in 1..Len(c) : e[Len(a) + Len(m) + q] = c[q]
      /\ \A p \in 1..Len(e) : \/ p \in 1..Len(a)
                              \/ p - Len(a) \in 1..Len(m)
                              \/ p - (Len(a) + Len(m)) \in 1..Len(c)
  <2>1. e \in Seq(Instr) /\ Parts(e, a, m, c)
    BY <1>1, <1>2, ThreeParts
  <2> QED BY <2>1 DEF Parts
<1>4. ASSUME NEW p \in 1..Len(e), p - Len(a) \in 1..Len(m)
      PROVE  FB(e[p]) /\ e[p] = m[p - Len(a)]
  <2>1. Len(a) + (p - Len(a)) = p
    BY <1>3
  <2> QED BY <1>1, <1>3, <1>4, <2>1
<1>5. ASSUME NEW p \in 1..Len(e), p - (Len(a) + Len(m)) \in 1..Len(c)
      PROVE  /\ e[p] = c[p - (Len(a) + Len(m))]
             /\ p - (Len(e) - Len(c)) = p - (Len(a) + Len(m))
  <2>1. Len(a) + Len(m) + (p - (Len(a) + Len(m))) = p
    BY <1>3
  <2>2. Len(e) - Len(c) = Len(a) + Len(m)
    BY <1>3
  <2> QED BY <1>3, <1>5, <2>1, <2>2
<1>6. ASSUME NEW p \in 1..Len(e), e[p].op = "return", Def[fr.fn].finally # NoBlock
      PROVE  \E r \in 1..(p - 1) : e[r].op = "finally"
  <2>1. p - Len(a) \in 1..Len(m) /\ m[p - Len(a)].op = "return"
    BY <1>3, <1>4, <1>5, <1>6
  <2> DEFINE k == p - Len(a)
  <2>2. k \in 1..Len(m) /\ m[k].op = "return"
    BY <2>1
  <2>3. k = p - Len(a)
    OBVIOUS
  <2> HIDE DEF k
  <2>4. PICK r \in 1..(k - 1) : m[r].op = "finally"
    BY <1>1, <1>6, <2>2 DEF CleansUp
  <2>5. r \in 1..Len(m) /\ Len(a) + r \in 1..(p - 1)
    BY <1>3, <2>2, <2>3, <2>4
  <2> QED BY <1>3, <2>4, <2>5
<1>7. \A p \in 1..Len(e) : \/ FB(e[p])
                           \/ p \in 1..Len(a) /\ e[p] = a[p]
                           \/ p - (Len(e) - Len(c)) \in 1..Len(c) /\ e[p] = c[p - (Len(e) - Len(c))]
  BY <1>3, <1>4, <1>5
<1>8. Len(e) - Len(c) = Len(a) + Len(m) /\ Len(c) <= Len(e) /\ Len(a) <= Len(e)
  BY <1>3
<1> QED BY <1>3, <1>6, <1>7, <1>8 DEF CleansUp, e, FB

\* What the places of a block's code are.
CodeOK(fr) ==
  /\ Code(fr) \in Seq(Instr)
  /\ CleansUp(Code(fr), fr.fn)
  /\ \A p \in 1..Len(Code(fr)) : FromBlock(fr.blk, fr.depth, fr.fn, Code(fr)[p]) \/ Added(fr, p)
  /\ fr.kind = "fn" /\ Def[fr.fn].retry > 0 =>
       Len(Code(fr)) >= 1 /\ Code(fr)[1] = I("savepoint", Attempt)
  /\ fr.kind = "fn" /\ Def[fr.fn].autonomous /\ Def[fr.fn].finally = NoBlock =>
       Len(Code(fr)) >= 1 /\ Code(fr)[Len(Code(fr))] = I("commit", NoArg)

LEMMA CodeIs ==
  ASSUME NEW fr, FrameOK(fr), fr.phase # "after"
  PROVE  CodeOK(fr)
<1>1. fr.fn \in Fns /\ Def[fr.fn].retry \in Nat /\ Def[fr.fn].autonomous \in BOOLEAN
  BY DefAssumption DEF FrameOK, FrameT
<1>2. EmitBody(fr.blk, fr.depth, fr.fn) \in Seq(Instr)
  BY BodyIs DEF FrameOK, FrameT
<1>3. /\ I("commit", NoArg) \in Instr /\ I("savepoint", Attempt) \in Instr
      /\ \A d \in Nat : I("flag", d) \in Instr /\ I("savepoint", <<"pell_sp", d>>) \in Instr
  BY DEF Instr, Commits, SaveNames
<1>4. CASE fr.kind = "fn"
  <2> DEFINE a == IF Def[fr.fn].retry > 0 THEN <<I("savepoint", Attempt)>> ELSE <<>>
             c == IF Def[fr.fn].autonomous /\ Def[fr.fn].finally = NoBlock
                  THEN <<I("commit", NoArg)>> ELSE <<>>
  <2>1. Code(fr) = (a \o EmitBody(fr.blk, fr.depth, fr.fn)) \o c
    BY <1>4 DEF Code, EmitFn, FrameOK, Attempt
  <2>2. /\ a \in Seq(Instr)
        /\ Len(a) = IF Def[fr.fn].retry > 0 THEN 1 ELSE 0
        /\ \A q \in 1..Len(a) : Def[fr.fn].retry > 0 /\ q = 1 /\ a[q] = I("savepoint", Attempt)
        /\ Def[fr.fn].retry > 0 => a[1] = I("savepoint", Attempt)
    <3>1. CASE Def[fr.fn].retry > 0
      BY <1>3, <3>1
    <3>2. CASE ~(Def[fr.fn].retry > 0)
      BY <1>3, <3>2
    <3> QED BY <3>1, <3>2
  <2>3. /\ c \in Seq(Instr)
        /\ Len(c) = IF Def[fr.fn].autonomous /\ Def[fr.fn].finally = NoBlock THEN 1 ELSE 0
        /\ \A q \in 1..Len(c) : /\ Def[fr.fn].autonomous /\ Def[fr.fn].finally = NoBlock
                                /\ q = 1 /\ c[q] = I("commit", NoArg)
        /\ Def[fr.fn].autonomous /\ Def[fr.fn].finally = NoBlock => c[1] = I("commit", NoArg)
    <3>1. CASE Def[fr.fn].autonomous /\ Def[fr.fn].finally = NoBlock
      BY <1>3, <3>1
    <3>2. CASE ~(Def[fr.fn].autonomous /\ Def[fr.fn].finally = NoBlock)
      BY <1>3, <3>2
    <3> QED BY <3>1, <3>2
  <2>4. /\ \A q \in 1..Len(a) : a[q].op # "return"
        /\ \A q \in 1..Len(c) : c[q].op # "return"
    BY <2>2, <2>3 DEF I
  <2> HIDE DEF a, c
  <2> DEFINE e == Code(fr)
  <2>5. /\ e \in Seq(Instr)
        /\ CleansUp(e, fr.fn)
        /\ \A p \in 1..Len(e) :
             \/ FromBlock(fr.blk, fr.depth, fr.fn, e[p])
             \/ p \in 1..Len(a) /\ e[p] = a[p]
             \/ p - (Len(e) - Len(c)) \in 1..Len(c) /\ e[p] = c[p - (Len(e) - Len(c))]
        /\ Len(a) <= Len(e) /\ \A q \in 1..Len(a) : e[q] = a[q]
        /\ Len(c) <= Len(e) /\ \A q \in 1..Len(c) : e[(Len(e) - Len(c)) + q] = c[q]
    <3>1. a \in Seq(Instr) /\ c \in Seq(Instr)
      BY <2>2, <2>3
    <3> QED BY <2>1, <2>4, <3>1, CodeParts
  <2> HIDE DEF e
  <2>6. Len(e) \in Nat
    BY <2>5
  <2>7. ASSUME NEW p \in 1..Len(e) PROVE FromBlock(fr.blk, fr.depth, fr.fn, e[p]) \/ Added(fr, p)
    <3>1. CASE p \in 1..Len(a) /\ e[p] = a[p]
      BY <1>4, <2>2, <3>1 DEF Added, e
    <3>2. CASE p - (Len(e) - Len(c)) \in 1..Len(c) /\ e[p] = c[p - (Len(e) - Len(c))]
      <4>1. Def[fr.fn].autonomous /\ Def[fr.fn].finally = NoBlock
        BY <2>3, <3>2
      <4>2. p = Len(e) /\ e[p] = I("commit", NoArg)
        BY <2>3, <2>6, <3>2, <4>1
      <4> QED BY <1>4, <4>1, <4>2 DEF Added, e
    <3> QED BY <2>5, <3>1, <3>2
  <2>8. Def[fr.fn].retry > 0 => Len(e) >= 1 /\ e[1] = I("savepoint", Attempt)
    BY <2>2, <2>5
  <2>9. Def[fr.fn].autonomous /\ Def[fr.fn].finally = NoBlock
        => Len(e) >= 1 /\ e[Len(e)] = I("commit", NoArg)
    BY <2>3, <2>5, <2>6
  <2> QED BY <1>4, <2>5, <2>7, <2>8, <2>9 DEF CodeOK, e
<1>5. CASE fr.kind = "tx"
  <2> DEFINE a == <<I("savepoint", <<"pell_sp", fr.depth>>)>>
             c == IF EndsInReturn(fr.blk) THEN <<>> ELSE <<I("commit", NoArg), I("flag", fr.depth)>>
  <2>0. fr.depth \in Nat
    BY DEF FrameOK, FrameT
  <2>1. Code(fr) = (a \o EmitBody(fr.blk, fr.depth, fr.fn)) \o c
    BY <1>5 DEF Code, EmitTransaction
  <2>2. /\ a \in Seq(Instr)
        /\ \A q \in 1..Len(a) : a[q] = I("savepoint", <<"pell_sp", fr.depth>>)
    BY <1>3, <2>0
  <2>3. c \in Seq(Instr) /\ \A q \in 1..Len(c) : c[q] \in Commits
    <3>1. CASE EndsInReturn(fr.blk)
      BY <3>1
    <3>2. CASE ~EndsInReturn(fr.blk)
      <4>1. c = <<I("commit", NoArg), I("flag", fr.depth)>>
        BY <3>2
      <4>2. I("commit", NoArg) \in Commits /\ I("flag", fr.depth) \in Commits /\ Commits \subseteq Instr
        BY <2>0 DEF Commits, Instr
      <4> QED BY <4>1, <4>2
    <3> QED BY <3>1, <3>2
  <2>4. /\ \A q \in 1..Len(a) : a[q].op # "return"
        /\ \A q \in 1..Len(c) : c[q].op # "return"
    BY <2>2, <2>3 DEF I, Commits
  <2> HIDE DEF a, c
  <2> DEFINE e == Code(fr)
  <2>5. /\ e \in Seq(Instr)
        /\ CleansUp(e, fr.fn)
        /\ \A p \in 1..Len(e) :
             \/ FromBlock(fr.blk, fr.depth, fr.fn, e[p])
             \/ p \in 1..Len(a) /\ e[p] = a[p]
             \/ p - (Len(e) - Len(c)) \in 1..Len(c) /\ e[p] = c[p - (Len(e) - Len(c))]
    BY <2>1, <2>2, <2>3, <2>4, CodeParts
  <2>7. \A p \in 1..Len(e) : FromBlock(fr.blk, fr.depth, fr.fn, e[p]) \/ Added(fr, p)
    BY <1>5, <2>2, <2>3, <2>5 DEF Added
  <2> QED BY <1>5, <2>5, <2>7 DEF CodeOK
<1>6. CASE fr.kind \notin {"fn", "tx"}
  <2> DEFINE a == <<>>
             m == EmitBody(fr.blk, fr.depth, fr.fn)
  <2>1. Code(fr) = m
    BY <1>6 DEF Code
  <2>2. CleansUp(m, fr.fn) /\ \A p \in 1..Len(m) : FromBlock(fr.blk, fr.depth, fr.fn, m[p])
    BY BodyIs DEF FrameOK, FrameT
  <2> QED BY <1>2, <1>6, <2>1, <2>2 DEF CodeOK
<1> QED BY <1>4, <1>5, <1>6

\* After its body, a function with a finally block has only that to run.
LEMMA CodeAfter ==
  ASSUME NEW fr, fr.phase = "after"
  PROVE  Code(fr) = <<I("finally", NoArg)>>
BY DEF Code

----------------------------------------------------------------------------
(* The stack of blocks.                                                     *)

OwnTx(fr) == fr.kind = "fn" /\ Def[fr.fn].autonomous

\* Block o is the function that block i of st belongs to.
Owns(st, o, i) == st[o].kind = "fn" /\ \A k \in (o + 1)..i : st[k].kind # "fn"

\* A stack while n transactions are open: the outermost block is a function that is
\* not autonomous, a block that is not a function belongs to the one below it, and
\* each autonomous function runs in a transaction of its own.
Shape(st, n) ==
  /\ st \in Seq(FrameT)
  /\ \A i \in 1..Len(st) : FrameOK(st[i])
  /\ st = <<>> => n = 1
  /\ st # <<>> => /\ st[1].kind = "fn" /\ st[1].level = 1 /\ ~OwnTx(st[1])
                  /\ st[Len(st)].level = n
  /\ \A i \in 2..Len(st) : st[i].level = st[i - 1].level + (IF OwnTx(st[i]) THEN 1 ELSE 0)
  /\ \A i \in 1..Len(st) : \A o \in 1..i : Owns(st, o, i) => st[i].fn = st[o].fn

\* Another state of the same block.
Like(fr, g) == g.kind = fr.kind /\ g.fn = fr.fn /\ g.level = fr.level

LEMMA ShapeSame ==
  ASSUME NEW st, NEW n, Shape(st, n), NEW st2 \in Seq(FrameT), Len(st2) = Len(st),
         \A i \in 1..Len(st) : FrameOK(st2[i]) /\ Like(st[i], st2[i])
  PROVE  Shape(st2, n)
<1>1. st \in Seq(FrameT) /\ Len(st) \in Nat
  BY DEF Shape
<1>2. st2 = <<>> => n = 1
  BY <1>1 DEF Shape
<1>3. \A i \in 1..Len(st) : OwnTx(st2[i]) <=> OwnTx(st[i])
  BY DEF Like, OwnTx
<1>4. st2 # <<>> => /\ st2[1].kind = "fn" /\ st2[1].level = 1 /\ ~OwnTx(st2[1])
                    /\ st2[Len(st2)].level = n
  <2>1. ASSUME st2 # <<>> PROVE st # <<>> /\ 1 \in 1..Len(st) /\ Len(st) \in 1..Len(st)
    BY <1>1, <2>1
  <2> QED BY <1>3, <2>1 DEF Shape, Like
<1>5. \A i \in 2..Len(st) : st2[i].level = st2[i - 1].level + (IF OwnTx(st2[i]) THEN 1 ELSE 0)
  <2> SUFFICES ASSUME NEW i \in 2..Len(st)
               PROVE  st2[i].level = st2[i - 1].level + (IF OwnTx(st2[i]) THEN 1 ELSE 0)
    OBVIOUS
  <2>1. i \in 1..Len(st) /\ i - 1 \in 1..Len(st)
    BY <1>1
  <2>2. st[i].level = st[i - 1].level + (IF OwnTx(st[i]) THEN 1 ELSE 0)
    BY DEF Shape
  <2> QED BY <1>3, <2>1, <2>2 DEF Like
<1>6. ASSUME NEW i \in 1..Len(st), NEW o \in 1..i, Owns(st2, o, i)
      PROVE  st2[i].fn = st2[o].fn
  <2>1. o \in 1..Len(st) /\ \A k \in (o + 1)..i : k \in 1..Len(st)
    BY <1>1
  <2>2. Owns(st, o, i)
    BY <1>6, <2>1 DEF Owns, Like
  <2> QED BY <2>1, <2>2 DEF Shape, Like
<1> QED BY <1>2, <1>4, <1>5, <1>6 DEF Shape

LEMMA ShapePush ==
  ASSUME NEW st, NEW n \in Nat, Shape(st, n), st # <<>>, NEW fr, FrameOK(fr),
         fr.kind # "fn" => fr.fn = st[Len(st)].fn,
         fr.level = n + (IF OwnTx(fr) THEN 1 ELSE 0)
  PROVE  Shape(Append(st, fr), fr.level)
<1> DEFINE ap == Append(st, fr)
<1>1. st \in Seq(FrameT) /\ Len(st) \in Nat /\ fr \in FrameT
  BY DEF Shape, FrameOK
<1>2. /\ ap \in Seq(FrameT) /\ Len(ap) = Len(st) + 1 /\ ap # <<>>
      /\ ap[Len(st) + 1] = fr /\ \A i \in 1..Len(st) : ap[i] = st[i]
      /\ 1 \in 1..Len(st) /\ Len(st) \in 1..Len(st)
  <2>1. 1 \in 1..Len(st) /\ Len(st) \in 1..Len(st)
    BY <1>1
  <2> QED BY <1>1, <2>1, AppendProperties
<1> HIDE DEF ap
<1>3. \A i \in 1..Len(ap) : i \in 1..Len(st) \/ i = Len(st) + 1
  BY <1>1, <1>2
<1>4. \A i \in 1..Len(ap) : FrameOK(ap[i])
  BY <1>2, <1>3 DEF Shape
<1>5. ap[1].kind = "fn" /\ ap[1].level = 1 /\ ~OwnTx(ap[1]) /\ ap[Len(ap)].level = fr.level
  BY <1>2 DEF Shape
<1>6. ASSUME NEW i \in 2..Len(ap)
      PROVE  ap[i].level = ap[i - 1].level + (IF OwnTx(ap[i]) THEN 1 ELSE 0)
  <2>1. CASE i = Len(st) + 1
    <3>1. ap[i] = fr /\ ap[i - 1] = st[Len(st)] /\ st[Len(st)].level = n
      BY <1>1, <1>2, <2>1 DEF Shape
    <3> QED BY <3>1
  <2>2. CASE i # Len(st) + 1
    <3>1. i \in 2..Len(st) /\ i - 1 \in 1..Len(st) /\ i \in 1..Len(st)
      BY <1>1, <1>2, <2>2
    <3> QED BY <1>2, <3>1 DEF Shape
  <2> QED BY <2>1, <2>2
<1>7. ASSUME NEW i \in 1..Len(ap), NEW o \in 1..i, Owns(ap, o, i)
      PROVE  ap[i].fn = ap[o].fn
  <2>1. CASE i = Len(st) + 1
    <3>1. CASE o = i
      BY <3>1
    <3>2. CASE o # i
      <4>1. o \in 1..Len(st) /\ Len(st) + 1 \in (o + 1)..i
            /\ \A k \in (o + 1)..Len(st) : k \in (o + 1)..i /\ k \in 1..Len(st)
        BY <1>1, <2>1, <3>2
      <4>2. fr.kind # "fn" /\ Owns(st, o, Len(st))
        BY <1>2, <1>7, <4>1 DEF Owns
      <4> QED BY <1>2, <2>1, <4>1, <4>2 DEF Shape
    <3> QED BY <3>1, <3>2
  <2>2. CASE i # Len(st) + 1
    <3>1. i \in 1..Len(st) /\ o \in 1..Len(st) /\ \A k \in (o + 1)..i : k \in 1..Len(st)
      BY <1>1, <1>3, <2>2
    <3>2. Owns(st, o, i)
      BY <1>2, <1>7, <3>1 DEF Owns
    <3> QED BY <1>2, <3>1, <3>2 DEF Shape
  <2> QED BY <2>1, <2>2
<1> QED BY <1>2, <1>4, <1>5, <1>6, <1>7 DEF Shape, ap

LEMMA ShapePop ==
  ASSUME NEW st, NEW n \in Nat, Shape(st, n), st # <<>>
  PROVE  Shape(Front(st), n - (IF OwnTx(st[Len(st)]) THEN 1 ELSE 0))
<1> DEFINE ft == Front(st)
           m == n - (IF OwnTx(st[Len(st)]) THEN 1 ELSE 0)
<1>1. st \in Seq(FrameT) /\ Len(st) \in Nat /\ Len(st) \in 1..Len(st)
  BY DEF Shape
<1>2. /\ ft \in Seq(FrameT) /\ Len(ft) = Len(st) - 1
      /\ \A i \in 1..Len(ft) : ft[i] = st[i] /\ i \in 1..Len(st)
  BY <1>1 DEF Front
<1> HIDE DEF ft
<1>3. ft = <<>> => m = 1
  <2> SUFFICES ASSUME ft = <<>> PROVE m = 1
    OBVIOUS
  <2>1. Len(st) = 1
    BY <1>1, <1>2
  <2> QED BY <2>1 DEF Shape
<1>4. ft # <<>> => /\ ft[1].kind = "fn" /\ ft[1].level = 1 /\ ~OwnTx(ft[1])
                   /\ ft[Len(ft)].level = m
  <2> SUFFICES ASSUME ft # <<>>
               PROVE  /\ ft[1].kind = "fn" /\ ft[1].level = 1 /\ ~OwnTx(ft[1])
                      /\ ft[Len(ft)].level = m
    OBVIOUS
  <2>1. 1 \in 1..Len(ft) /\ Len(ft) \in 1..Len(ft) /\ Len(st) \in 2..Len(st)
    BY <1>1, <1>2
  <2>2. st[Len(st)].level = st[Len(st) - 1].level + (IF OwnTx(st[Len(st)]) THEN 1 ELSE 0)
    BY <2>1 DEF Shape
  <2>3. st[Len(st) - 1].level \in Nat /\ st[Len(st)].level = n
    <3>1. st[Len(st) - 1] \in FrameT
      BY <1>1, <1>2, <2>1
    <3> QED BY <3>1 DEF FrameT, Shape
  <2>4. ft[Len(ft)] = st[Len(st) - 1]
    BY <1>2, <2>1
  <2>5. ft[Len(ft)].level = m
    BY <2>2, <2>3, <2>4
  <2> QED BY <1>2, <2>1, <2>5 DEF Shape
<1>5. \A i \in 1..Len(ft) : FrameOK(ft[i])
  BY <1>2 DEF Shape
<1>6. ASSUME NEW i \in 2..Len(ft)
      PROVE  ft[i].level = ft[i - 1].level + (IF OwnTx(ft[i]) THEN 1 ELSE 0)
  <2>1. i \in 2..Len(st) /\ i \in 1..Len(ft) /\ i - 1 \in 1..Len(ft)
    BY <1>1, <1>2
  <2> QED BY <1>2, <2>1 DEF Shape
<1>7. ASSUME NEW i \in 1..Len(ft), NEW o \in 1..i, Owns(ft, o, i)
      PROVE  ft[i].fn = ft[o].fn
  <2>1. i \in 1..Len(st) /\ o \in 1..Len(ft) /\ \A k \in (o + 1)..i : k \in 1..Len(ft)
    BY <1>1, <1>2
  <2>2. Owns(st, o, i)
    BY <1>2, <1>7, <2>1 DEF Owns
  <2> QED BY <1>2, <2>1, <2>2 DEF Shape
<1> QED BY <1>2, <1>3, <1>4, <1>5, <1>6, <1>7 DEF Shape, ft

\* The function a block belongs to is the innermost one.
LEMMA OwnerOfTop ==
  ASSUME NEW n, Shape(stack, n), stack # <<>>
  PROVE  FnFrame \in 1..Len(stack) /\ Owns(stack, FnFrame, Len(stack))
<1> DEFINE S == {i \in 1..Len(stack) : stack[i].kind = "fn"}
<1>1. Len(stack) \in Nat /\ 1 \in S
  BY DEF Shape
<1>2. S \in SUBSET (1..Len(stack))
  OBVIOUS
<1>3. \E x \in S : \A y \in S : x >= y
  BY <1>1, <1>2, GreatestNumber
<1>4. FnFrame \in S /\ \A y \in S : FnFrame >= y
  BY <1>3 DEF FnFrame, Max
<1>5. \A k \in (FnFrame + 1)..Len(stack) : k \in 1..Len(stack) /\ ~(FnFrame >= k)
  BY <1>1, <1>4
<1> QED BY <1>4, <1>5 DEF Owns

----------------------------------------------------------------------------
(* Transactions.                                                            *)

SaveT == [name : SaveNames, at : Nat]
TxT == [work : Seq(Row), saves : Seq(SaveT)]

\* Savepoints are of work there is, older ones of no more, and a name is set once.
TxOK(t) ==
  /\ t \in TxT
  /\ \A i \in 1..Len(t.saves) :
       /\ t.saves[i].at <= Len(t.work)
       /\ \A j \in 1..i : /\ t.saves[j].at <= t.saves[i].at
                          /\ t.saves[j].name = t.saves[i].name => j = i

LEMMA NewTxOK == TxOK(NewTx) /\ NewTx.work = <<>> /\ NewTx.saves = <<>>
BY DEF NewTx, TxOK, TxT

LEMMA TxDml ==
  ASSUME NEW t, TxOK(t), NEW r \in Row
  PROVE  TxOK([t EXCEPT !.work = Append(@, r)])
<1> DEFINE u == [t EXCEPT !.work = Append(@, r)]
<1>1. t \in TxT /\ t.work \in Seq(Row) /\ t.saves \in Seq(SaveT)
  BY DEF TxOK, TxT
<1>2. /\ u \in TxT /\ u.saves = t.saves /\ u.work = Append(t.work, r)
      /\ Len(u.work) = Len(t.work) + 1 /\ Len(t.work) \in Nat
  BY <1>1 DEF TxT
<1> HIDE DEF u
<1>3. \A i \in 1..Len(t.saves) : t.saves[i].at \in Nat
  <2>1. \A i \in 1..Len(t.saves) : t.saves[i] \in SaveT
    BY <1>1
  <2> QED BY <2>1 DEF SaveT
<1>4. \A i \in 1..Len(t.saves) : t.saves[i].at <= Len(u.work)
  BY <1>2, <1>3 DEF TxOK
<1> QED BY <1>2, <1>4 DEF TxOK, u

\* A savepoint more, at the end of the work, whose name is set nowhere else.
LEMMA TxSave ==
  ASSUME NEW t, TxOK(t), NEW name \in SaveNames, NEW sv, sv \in Seq(SaveT),
         Len(sv) <= Len(t.saves),
         \A i \in 1..Len(sv) : sv[i].name # name,
         \E h \in [1..Len(sv) -> 1..Len(t.saves)] :
            \A i \in 1..Len(sv) : sv[i] = t.saves[h[i]] /\ \A j \in 1..(i - 1) : h[j] < h[i]
  PROVE  TxOK([t EXCEPT !.saves = Append(sv, [name |-> name, at |-> Len(t.work)])])
<1> DEFINE e == [name |-> name, at |-> Len(t.work)]
           ns == Append(sv, e)
           u == [t EXCEPT !.saves = ns]
<1>1. t \in TxT /\ t.work \in Seq(Row) /\ t.saves \in Seq(SaveT) /\ Len(t.work) \in Nat
  BY DEF TxOK, TxT
<1>2. e \in SaveT /\ e.name = name /\ e.at = Len(t.work)
  BY <1>1 DEF SaveT
<1> HIDE DEF e
<1>3. /\ ns \in Seq(SaveT) /\ Len(ns) = Len(sv) + 1 /\ Len(sv) \in Nat
      /\ ns[Len(sv) + 1] = e /\ \A i \in 1..Len(sv) : ns[i] = sv[i]
  BY <1>2
<1> HIDE DEF ns
<1>4. u \in TxT /\ u.saves = ns /\ u.work = t.work
  BY <1>1, <1>3 DEF TxT
<1> HIDE DEF u
<1>5. PICK h \in [1..Len(sv) -> 1..Len(t.saves)] :
         \A i \in 1..Len(sv) : sv[i] = t.saves[h[i]] /\ \A j \in 1..(i - 1) : h[j] < h[i]
  OBVIOUS
<1>6. \A i \in 1..Len(sv) : h[i] \in 1..Len(t.saves) /\ sv[i] = t.saves[h[i]] /\ sv[i].at <= Len(t.work)
  BY <1>5 DEF TxOK
<1>7. ASSUME NEW i \in 1..Len(sv), NEW j \in 1..i
      PROVE  sv[j].at <= sv[i].at /\ (sv[j].name = sv[i].name => j = i)
  <2>1. CASE j = i
    <3>1. sv[i] \in SaveT
      OBVIOUS
    <3> QED BY <2>1, <3>1 DEF SaveT
  <2>2. CASE j # i
    <3>1. j \in 1..(i - 1) /\ j \in 1..Len(sv) /\ i \in 1..Len(sv)
      BY <1>3, <2>2
    <3>2. h[j] < h[i] /\ h[i] \in 1..Len(t.saves) /\ h[j] \in 1..Len(t.saves)
      BY <1>5, <1>6, <3>1
    <3>3. h[j] \in 1..h[i] /\ h[j] # h[i]
      BY <3>2
    <3>4. t.saves[h[j]].at <= t.saves[h[i]].at /\ t.saves[h[j]].name # t.saves[h[i]].name
      BY <3>2, <3>3 DEF TxOK
    <3> QED BY <1>6, <3>1, <3>4
  <2> QED BY <2>1, <2>2
<1>8. ASSUME NEW i \in 1..Len(ns)
      PROVE  /\ ns[i].at <= Len(t.work)
             /\ \A j \in 1..i : ns[j].at <= ns[i].at /\ (ns[j].name = ns[i].name => j = i)
  <2>1. CASE i = Len(sv) + 1
    <3>1. ns[i].at <= Len(t.work)
      BY <1>1, <1>2, <1>3, <2>1
    <3>2. ASSUME NEW j \in 1..i PROVE ns[j].at <= ns[i].at /\ (ns[j].name = ns[i].name => j = i)
      <4>1. CASE j = i
        BY <1>1, <1>2, <1>3, <2>1, <4>1
      <4>2. CASE j # i
        <5>1. j \in 1..Len(sv)
          BY <1>3, <2>1, <4>2
        <5> QED BY <1>2, <1>3, <1>6, <2>1, <5>1
      <4> QED BY <4>1, <4>2
    <3> QED BY <3>1, <3>2
  <2>2. CASE i # Len(sv) + 1
    <3>1. i \in 1..Len(sv) /\ \A j \in 1..i : j \in 1..Len(sv)
      BY <1>3, <2>2
    <3> QED BY <1>3, <1>6, <1>7, <3>1
  <2> QED BY <2>1, <2>2
<1>9. \A i \in 1..Len(u.saves) :
        /\ u.saves[i].at <= Len(u.work)
        /\ \A j \in 1..i : u.saves[j].at <= u.saves[i].at /\ (u.saves[j].name = u.saves[i].name => j = i)
  BY <1>4, <1>8
<1>10. TxOK(u)
  BY <1>4, <1>9 DEF TxOK
<1> QED BY <1>10 DEF u, ns, e

\* Forgetting the savepoint of a name leaves the others in their order.
LEMMA UnsetIs ==
  ASSUME TxOK(Tx), NEW name \in SaveNames
  PROVE  /\ Unset(name) \in Seq(SaveT) /\ Len(Unset(name)) <= Len(Tx.saves)
         /\ \A i \in 1..Len(Unset(name)) : Unset(name)[i].name # name
         /\ \E h \in [1..Len(Unset(name)) -> 1..Len(Tx.saves)] :
              \A i \in 1..Len(Unset(name)) :
                Unset(name)[i] = Tx.saves[h[i]] /\ \A j \in 1..(i - 1) : h[j] < h[i]
<1> DEFINE sv == Tx.saves
           un == Unset(name)
<1>1. sv \in Seq(SaveT) /\ Len(sv) \in Nat
  BY DEF TxOK, TxT
<1>2. CASE Saved(name) = {}
  <2>1. un = sv /\ \A i \in 1..Len(sv) : sv[i].name # name
    BY <1>2 DEF Unset, Saved
  <2> DEFINE h == [i \in 1..Len(sv) |-> i]
  <2>2. h \in [1..Len(sv) -> 1..Len(sv)] /\ \A i \in 1..Len(sv) : sv[i] = sv[h[i]] /\ \A j \in 1..(i - 1) : h[j] < h[i]
    BY <1>1
  <2> HIDE DEF h, un
  <2> QED BY <1>1, <2>1, <2>2 DEF un
<1>3. CASE Saved(name) # {}
  <2> DEFINE k == CHOOSE i \in Saved(name) : TRUE
  <2>1. k \in 1..Len(sv) /\ sv[k].name = name
    BY <1>3 DEF Saved
  <2> DEFINE p == SubSeq(sv, 1, k - 1)
             q == SubSeq(sv, k + 1, Len(sv))
  <2>2. un = p \o q
    BY <1>3 DEF Unset, RemoveAt
  <2> HIDE DEF k, un
  <2>3. p \in Seq(SaveT) /\ Len(p) = k - 1 /\ \A i \in 1..(k - 1) : p[i] = sv[i]
    BY <1>1, <2>1
  <2>4. q \in Seq(SaveT) /\ Len(q) = Len(sv) - k /\ \A i \in 1..(Len(sv) - k) : q[i] = sv[k + i]
    BY <1>1, <2>1
  <2> HIDE DEF p, q
  <2>e. /\ un \in Seq(SaveT) /\ Len(un) = Len(p) + Len(q)
        /\ \A i \in 1..Len(p) : un[i] = p[i]
        /\ \A i \in 1..Len(q) : un[Len(p) + i] = q[i]
    <3>1. p \in Seq(SaveT) /\ q \in Seq(SaveT)
      BY <2>3, <2>4
    <3> QED BY <2>2, <3>1, TwoParts
  <2>5. un \in Seq(SaveT) /\ Len(un) = Len(sv) - 1
    BY <1>1, <2>1, <2>3, <2>4, <2>e
  <2>6. ASSUME NEW i \in 1..(Len(sv) - 1) PROVE un[i] = sv[IF i < k THEN i ELSE i + 1]
    <3>1. CASE i < k
      BY <1>1, <2>1, <2>3, <2>e, <3>1
    <3>2. CASE ~(i < k)
      <4>1. i - (k - 1) \in 1..(Len(sv) - k) /\ (k - 1) + (i - (k - 1)) = i /\ k + (i - (k - 1)) = i + 1
        BY <1>1, <2>1, <3>2
      <4>2. un[(k - 1) + (i - (k - 1))] = q[i - (k - 1)]
        BY <2>3, <2>4, <2>e, <4>1
      <4> QED BY <2>4, <3>2, <4>1, <4>2
    <3> QED BY <3>1, <3>2
  <2> DEFINE h == [i \in 1..(Len(sv) - 1) |-> IF i < k THEN i ELSE i + 1]
  <2>7. h \in [1..(Len(sv) - 1) -> 1..Len(sv)]
    BY <1>1, <2>1
  <2>8. ASSUME NEW i \in 1..(Len(sv) - 1)
        PROVE  /\ un[i] = sv[h[i]] /\ h[i] # k /\ h[i] \in 1..Len(sv)
               /\ \A j \in 1..(i - 1) : h[j] < h[i]
    <3>1. \A j \in 1..(i - 1) : j \in 1..(Len(sv) - 1)
      BY <1>1
    <3> QED BY <1>1, <2>1, <2>6, <2>7, <3>1
  <2> HIDE DEF h
  <2>9. ASSUME NEW i \in 1..(Len(sv) - 1) PROVE un[i].name # name
    <3> DEFINE x == h[i]
    <3>1. un[i] = sv[x] /\ x # k /\ x \in 1..Len(sv)
      BY <2>8
    <3> HIDE DEF x
    <3>2. CASE x < k
      <4>1. x \in 1..k
        BY <2>1, <3>1, <3>2
      <4> QED BY <2>1, <3>1, <4>1 DEF TxOK
    <3>3. CASE x > k
      <4>1. k \in 1..x
        BY <2>1, <3>1, <3>3
      <4> QED BY <2>1, <3>1, <4>1 DEF TxOK
    <3>4. x < k \/ x > k
      BY <2>1, <3>1
    <3> QED BY <3>2, <3>3, <3>4
  <2>10. h \in [1..Len(un) -> 1..Len(sv)]
         /\ \A i \in 1..Len(un) : un[i] = sv[h[i]] /\ \A j \in 1..(i - 1) : h[j] < h[i]
    BY <2>5, <2>7, <2>8
  <2>11. \A i \in 1..Len(un) : un[i].name # name
    BY <2>5, <2>9
  <2>12. Len(un) <= Len(sv)
    BY <1>1, <2>1, <2>5
  <2> QED BY <2>5, <2>10, <2>11, <2>12 DEF un
<1> QED BY <1>2, <1>3

\* Rolling back to a savepoint leaves the work up to it and the savepoints up to it.
LEMMA TxRollback ==
  ASSUME TxOK(Tx), NEW name, Saved(name) # {}
  PROVE  /\ TxOK(RolledBack(name))
         /\ \E i \in Saved(name) : /\ RolledBack(name).work = SubSeq(Tx.work, 1, Tx.saves[i].at)
                                   /\ RolledBack(name).saves = SubSeq(Tx.saves, 1, i)
<1> DEFINE i == CHOOSE j \in Saved(name) : TRUE
           at == Tx.saves[i].at
           u == RolledBack(name)
<1>1. /\ Tx \in TxT /\ Tx.saves \in Seq(SaveT) /\ Len(Tx.saves) \in Nat
      /\ Tx.work \in Seq(Row) /\ Len(Tx.work) \in Nat
  BY DEF TxOK, TxT
<1>2. i \in Saved(name) /\ i \in 1..Len(Tx.saves)
  BY DEF Saved
<1>3. u = [work |-> SubSeq(Tx.work, 1, at), saves |-> SubSeq(Tx.saves, 1, i)]
  BY DEF RolledBack
<1> HIDE DEF i, u
<1>4. at \in Nat /\ at <= Len(Tx.work)
  <2>1. Tx.saves[i] \in SaveT
    BY <1>1, <1>2
  <2> QED BY <1>2, <2>1 DEF SaveT, TxOK
<1>5. SubSeq(Tx.work, 1, at) \in Seq(Row) /\ Len(SubSeq(Tx.work, 1, at)) = at
  BY <1>1, <1>4
<1>6. /\ SubSeq(Tx.saves, 1, i) \in Seq(SaveT) /\ Len(SubSeq(Tx.saves, 1, i)) = i
      /\ \A j \in 1..i : SubSeq(Tx.saves, 1, i)[j] = Tx.saves[j] /\ j \in 1..Len(Tx.saves)
  BY <1>1, <1>2
<1>7. u \in TxT /\ u.work = SubSeq(Tx.work, 1, at) /\ u.saves = SubSeq(Tx.saves, 1, i)
  BY <1>3, <1>5, <1>6 DEF TxT
<1>8. ASSUME NEW j \in 1..i
      PROVE  /\ Tx.saves[j].at <= at
             /\ \A k \in 1..j : /\ Tx.saves[k].at <= Tx.saves[j].at
                                /\ Tx.saves[k].name = Tx.saves[j].name => k = j
  <2>1. j \in 1..Len(Tx.saves)
    BY <1>6
  <2> QED BY <1>2, <2>1 DEF TxOK
<1>9. ASSUME NEW j \in 1..Len(u.saves)
      PROVE  /\ u.saves[j].at <= Len(u.work)
             /\ \A k \in 1..j : /\ u.saves[k].at <= u.saves[j].at
                                /\ u.saves[k].name = u.saves[j].name => k = j
  <2>1. j \in 1..i /\ \A k \in 1..j : k \in 1..i
    BY <1>2, <1>6, <1>7
  <2>2. u.saves[j] = Tx.saves[j] /\ \A k \in 1..j : u.saves[k] = Tx.saves[k]
    BY <1>6, <1>7, <2>1
  <2> QED BY <1>5, <1>7, <1>8, <2>1, <2>2
<1>10. TxOK(u)
  BY <1>7, <1>9 DEF TxOK
<1>11. u.work = SubSeq(Tx.work, 1, Tx.saves[i].at)
  BY <1>7
<1> QED BY <1>2, <1>7, <1>10, <1>11 DEF u

----------------------------------------------------------------------------
(* Types.                                                                   *)

Hows == {"end", "raise", "return"}
LeftT ==
  [kind : Kinds, fn : Fns, blk : DOMAIN Block, how : Hows, err : Errors \cup {NoError},
   cause : Errors \cup {NoError}, flag : BOOLEAN, fins : Nat, level : Nat, work : Seq(Row),
   committed : Seq(Durable), remains : Seq(Row), durable : Seq(Durable)]

SessionOK ==
  /\ mode \in Modes /\ err \in Errors \cup {NoError} /\ committed \in Seq(Durable) /\ fails \in Nat
  /\ left \in LeftT \cup {NotLeft}
TxsOK ==
  /\ txs \in Seq(TxT) /\ txs # <<>>
  /\ \A k \in 1..Len(txs) : TxOK(txs[k])
TypeOK == SessionOK /\ TxsOK /\ Shape(stack, Len(txs))

\* The innermost block and its transaction.
LEMMA TopIs ==
  ASSUME TypeOK
  PROVE  /\ Tx \in TxT /\ TxOK(Tx) /\ Tx.work \in Seq(Row) /\ Len(txs) \in 1..Len(txs)
         /\ stack # <<>> => /\ Top \in FrameT /\ FrameOK(Top) /\ Top.level = Len(txs)
                            /\ Len(stack) \in 1..Len(stack) /\ stack \in Seq(FrameT)
<1>1. txs \in Seq(TxT) /\ Len(txs) \in 1..Len(txs)
  BY DEF TypeOK, TxsOK
<1>2. Tx \in TxT /\ TxOK(Tx) /\ Tx.work \in Seq(Row)
  <2>1. Tx = txs[Len(txs)] /\ Tx \in TxT /\ TxOK(txs[Len(txs)])
    BY <1>1 DEF Tx, TypeOK, TxsOK
  <2> QED BY <2>1 DEF TxT
<1>3. ASSUME stack # <<>>
      PROVE  /\ Top \in FrameT /\ FrameOK(Top) /\ Top.level = Len(txs)
             /\ Len(stack) \in 1..Len(stack) /\ stack \in Seq(FrameT)
  <2>1. stack \in Seq(FrameT) /\ Len(stack) \in 1..Len(stack)
    BY <1>3 DEF TypeOK, Shape
  <2> QED BY <1>3, <2>1 DEF TypeOK, Shape, Top
<1> QED BY <1>1, <1>2, <1>3

\* The statement to execute.
LEMMA AtIs ==
  ASSUME TypeOK, NEW op, At(op)
  PROVE  /\ stack # <<>> /\ mode = "run" /\ Top.phase \in {"body", "after"}
         /\ Top.pc \in 1..Len(Code(Top)) /\ Code(Top) \in Seq(Instr)
         /\ Code(Top)[Top.pc] \in Instr /\ Code(Top)[Top.pc].op = op
         /\ op = "finally" => Def[Top.fn].finally \in DOMAIN Block /\ Def[Top.fn].finally # NoBlock
<1>1. /\ stack # <<>> /\ mode = "run" /\ Top.phase \in {"body", "after"}
      /\ Top.pc <= Len(Code(Top)) /\ Code(Top)[Top.pc].op = op
  BY DEF At
<1>2. FrameOK(Top) /\ Top.pc \in Nat \ {0} /\ Top.fn \in Fns
  BY <1>1, TopIs DEF FrameOK, FrameT
<1>3. Code(Top) \in Seq(Instr)
  <2>1. CASE Top.phase = "after"
    <3>1. I("finally", NoArg) \in Instr
      BY DEF Instr
    <3>2. Code(Top) = <<I("finally", NoArg)>>
      BY <2>1, CodeAfter
    <3> QED BY <3>1, <3>2
  <2>2. CASE Top.phase # "after"
    BY <1>2, <2>2, CodeIs DEF CodeOK
  <2> QED BY <2>1, <2>2
<1>4. Top.pc \in 1..Len(Code(Top)) /\ Code(Top)[Top.pc] \in Instr
  BY <1>1, <1>2, <1>3
<1>5. ASSUME op = "finally" PROVE Def[Top.fn].finally # NoBlock
  <2>1. CASE Top.phase = "after"
    BY <1>2, <2>1 DEF FrameOK
  <2>2. CASE Top.phase # "after"
    <3>1. FromBlock(Top.blk, Top.depth, Top.fn, Code(Top)[Top.pc]) \/ Added(Top, Top.pc)
      BY <1>2, <1>4, <2>2, CodeIs DEF CodeOK
    <3> DEFINE x == Code(Top)[Top.pc]
    <3>0. /\ x.op = "finally" /\ \A y \in Commits : y.op \in {"commit", "flag"}
          /\ \A o, y : I(o, y).op = o
      BY <1>1, <1>5 DEF I, Commits
    <3>2. ~Added(Top, Top.pc)
      BY <3>0 DEF Added
    <3>3. ASSUME NEW y \in ToSet(Block[Top.blk]) PROVE y.op # "finally"
      <4>1. y \in Stmts
        BY <1>2, <3>3 DEF Stmts, FrameOK, FrameT
      <4> QED BY <4>1, BlockAssumption
    <3>4. PICK s : OfReturn(s, Top.depth, Top.fn, x)
      BY <3>0, <3>1, <3>2, <3>3 DEF FromBlock
    <3> QED BY <3>0, <3>4 DEF OfReturn
  <2> QED BY <2>1, <2>2
<1>6. Def[Top.fn].finally \in DOMAIN Block \cup {NoBlock}
  BY <1>2, DefAssumption
<1> QED BY <1>1, <1>3, <1>4, <1>5, <1>6

\* A block as it is entered.
LEMMA FrameIs ==
  ASSUME TypeOK, NEW kind \in Kinds, NEW f \in Fns, NEW b \in DOMAIN Block, NEW d \in Nat,
         kind = "fn" => b = Def[f].body /\ d = 0, kind = "tx" => d > 0
  PROVE  /\ FrameOK(Frame(kind, f, b, d))
         /\ Frame(kind, f, b, d).kind = kind /\ Frame(kind, f, b, d).fn = f
         /\ Frame(kind, f, b, d).level = Len(txs)
<1>1. /\ Tx.work \in Seq(Row) /\ committed \in Seq(Durable) /\ Len(txs) \in Nat /\ Len(txs) > 0
      /\ NoError \in Errors \cup {NoError}
  BY TopIs DEF TypeOK, SessionOK, TxsOK
<1>2. Frame(kind, f, b, d) \in FrameT
  BY <1>1 DEF Frame, FrameT, Phases
<1> QED BY <1>1, <1>2 DEF FrameOK, Frame

\* Steps that change only the innermost block.
LEMMA TopStep ==
  ASSUME TypeOK, stack # <<>>, NEW fr, FrameOK(fr), Like(Top, fr), SetTop(fr)
  PROVE  /\ stack' \in Seq(FrameT) /\ Len(stack') = Len(stack)
         /\ stack'[Len(stack)] = fr
         /\ \A i \in 1..Len(stack) : i # Len(stack) => stack'[i] = stack[i]
         /\ Shape(stack', Len(txs))
<1>1. stack \in Seq(FrameT) /\ Len(stack) \in 1..Len(stack) /\ fr \in FrameT
  BY TopIs DEF FrameOK
<1>2. /\ stack' \in Seq(FrameT) /\ Len(stack') = Len(stack)
      /\ stack'[Len(stack)] = fr
      /\ \A i \in 1..Len(stack) : i # Len(stack) => stack'[i] = stack[i]
  BY <1>1 DEF SetTop
<1>3. ASSUME NEW i \in 1..Len(stack) PROVE FrameOK(stack'[i]) /\ Like(stack[i], stack'[i])
  <2>1. CASE i = Len(stack)
    BY <1>2, <2>1 DEF Top
  <2>2. CASE i # Len(stack)
    BY <1>2, <2>2 DEF TypeOK, Shape, Like
  <2> QED BY <2>1, <2>2
<1>4. Shape(stack', Len(txs))
  <2>1. Shape(stack, Len(txs))
    BY DEF TypeOK
  <2> QED BY <1>2, <1>3, <2>1, ShapeSame
<1> QED BY <1>2, <1>4

\* Steps that enter a block.
LEMMA PushStep ==
  ASSUME TypeOK, stack # <<>>, NEW fr, FrameOK(fr), Like(Top, fr), NEW callee, FrameOK(callee),
         callee.kind # "fn" => callee.fn = Top.fn,
         callee.level = Len(txs) + (IF OwnTx(callee) THEN 1 ELSE 0),
         Push(fr, callee)
  PROVE  /\ stack' \in Seq(FrameT) /\ Len(stack') = Len(stack) + 1
         /\ stack'[Len(stack)] = fr /\ stack'[Len(stack) + 1] = callee
         /\ \A i \in 1..Len(stack) : i # Len(stack) => stack'[i] = stack[i]
         /\ Shape(stack', callee.level)
<1> DEFINE st == [stack EXCEPT ![Len(stack)] = fr]
<1>1. stack \in Seq(FrameT) /\ Len(stack) \in 1..Len(stack) /\ fr \in FrameT /\ callee \in FrameT
  BY TopIs DEF FrameOK
<1>2. /\ st \in Seq(FrameT) /\ Len(st) = Len(stack) /\ st # <<>>
      /\ st[Len(stack)] = fr
      /\ \A i \in 1..Len(stack) : i # Len(stack) => st[i] = stack[i]
  BY <1>1
<1>3. stack' = Append(st, callee)
  BY DEF Push
<1> HIDE DEF st
<1>4. ASSUME NEW i \in 1..Len(stack) PROVE FrameOK(st[i]) /\ Like(stack[i], st[i])
  <2>1. CASE i = Len(stack)
    BY <1>2, <2>1 DEF Top
  <2>2. CASE i # Len(stack)
    BY <1>2, <2>2 DEF TypeOK, Shape, Like
  <2> QED BY <2>1, <2>2
<1>5. Shape(st, Len(txs))
  <2>1. Shape(stack, Len(txs))
    BY DEF TypeOK
  <2> QED BY <1>2, <1>4, <2>1, ShapeSame
<1>6. callee.kind # "fn" => callee.fn = st[Len(st)].fn
  BY <1>2 DEF Like
<1>7. Shape(Append(st, callee), callee.level)
  <2>1. Len(txs) \in Nat
    BY DEF TypeOK, TxsOK
  <2> QED BY <1>2, <1>5, <1>6, <2>1, ShapePush
<1> QED BY <1>1, <1>2, <1>3, <1>7

\* g is fr but for its place, its flag and the times it ran the finally block.
Alike(fr, g) ==
  /\ Like(fr, g) /\ g.blk = fr.blk /\ g.depth = fr.depth /\ g.phase = fr.phase
  /\ g.attempt = fr.attempt /\ g.cause = fr.cause /\ g.work = fr.work
  /\ g.committed = fr.committed

\* A field of a block changes.
LEMMA FieldsOf ==
  ASSUME NEW fr, FrameOK(fr)
  PROVE  /\ fr \in FrameT /\ fr.kind \in Kinds /\ fr.fn \in Fns /\ fr.blk \in DOMAIN Block
         /\ fr.depth \in Nat /\ fr.pc \in Nat \ {0} /\ fr.pc + 1 \in Nat \ {0}
         /\ fr.phase \in Phases /\ fr.flag \in BOOLEAN /\ fr.attempt \in Nat
         /\ fr.cause \in Errors \cup {NoError} /\ fr.fins \in Nat /\ fr.fins + 1 \in Nat
         /\ fr.level \in Nat \ {0} /\ fr.work \in Seq(Row) /\ fr.committed \in Seq(Durable)
<1>1. fr \in FrameT /\ fr.pc > 0 /\ fr.level > 0
  BY DEF FrameOK
<1> QED BY <1>1 DEF FrameT

LEMMA PcChanges ==
  ASSUME NEW fr, FrameOK(fr), NEW k \in Nat \ {0}, NEW g, g = [fr EXCEPT !.pc = k]
  PROVE  FrameOK(g) /\ Alike(fr, g) /\ g.fins = fr.fins /\ g.pc = k
<1>1. fr \in FrameT
  BY DEF FrameOK
<1>2. g \in FrameT
  BY <1>1 DEF FrameT
<1>3. g.kind = fr.kind /\ g.fn = fr.fn /\ g.level = fr.level /\ g.blk = fr.blk /\ g.depth = fr.depth
      /\ g.phase = fr.phase /\ g.pc = k /\ g.fins = fr.fins
  BY <1>1 DEF FrameT
<1>4. g.attempt = fr.attempt /\ g.cause = fr.cause /\ g.work = fr.work /\ g.committed = fr.committed
  BY <1>1 DEF FrameT
<1> QED BY <1>2, <1>3, <1>4 DEF FrameOK, Alike, Like

LEMMA FinsChange ==
  ASSUME NEW fr, FrameOK(fr), NEW k \in Nat, NEW g, g = [fr EXCEPT !.fins = k]
  PROVE  FrameOK(g) /\ Alike(fr, g) /\ g.fins = k /\ g.pc = fr.pc
<1>1. fr \in FrameT
  BY DEF FrameOK
<1>2. g \in FrameT
  BY <1>1 DEF FrameT
<1>3. g.kind = fr.kind /\ g.fn = fr.fn /\ g.level = fr.level /\ g.blk = fr.blk /\ g.depth = fr.depth
      /\ g.phase = fr.phase /\ g.pc = fr.pc /\ g.fins = k
  BY <1>1 DEF FrameT
<1>4. g.attempt = fr.attempt /\ g.cause = fr.cause /\ g.work = fr.work /\ g.committed = fr.committed
  BY <1>1 DEF FrameT
<1> QED BY <1>2, <1>3, <1>4 DEF FrameOK, Alike, Like

LEMMA FlagChanges ==
  ASSUME NEW fr, FrameOK(fr), NEW b \in BOOLEAN, NEW g, g = [fr EXCEPT !.flag = b]
  PROVE  FrameOK(g) /\ Alike(fr, g) /\ g.fins = fr.fins /\ g.pc = fr.pc
<1>1. fr \in FrameT
  BY DEF FrameOK
<1>2. g \in FrameT
  BY <1>1 DEF FrameT
<1>3. g.kind = fr.kind /\ g.fn = fr.fn /\ g.level = fr.level /\ g.blk = fr.blk /\ g.depth = fr.depth
      /\ g.phase = fr.phase /\ g.pc = fr.pc /\ g.fins = fr.fins
  BY <1>1 DEF FrameT
<1>4. g.attempt = fr.attempt /\ g.cause = fr.cause /\ g.work = fr.work /\ g.committed = fr.committed
  BY <1>1 DEF FrameT
<1> QED BY <1>2, <1>3, <1>4 DEF FrameOK, Alike, Like

\* A flag is set.
LEMMA FlagStep ==
  ASSUME TypeOK, Flag
  PROVE  /\ stack' \in Seq(FrameT) /\ Len(stack') = Len(stack)
         /\ \A i \in 1..Len(stack) :
              /\ FrameOK(stack'[i]) /\ Alike(stack[i], stack'[i]) /\ stack'[i].fins = stack[i].fins
              /\ stack'[i].pc = IF i = Len(stack) THEN stack[i].pc + 1 ELSE stack[i].pc
         /\ Shape(stack', Len(txs))
<1> DEFINE o == TxFrame(Arg)
           st == [stack EXCEPT ![o].flag = TRUE]
           n == Len(stack)
<1>1. stack \in Seq(FrameT) /\ n \in 1..n /\ stack # <<>> /\ \A i \in 1..n : FrameOK(stack[i])
  BY AtIs, TopIs DEF Flag, TypeOK, Shape
<1>2. stack' = [st EXCEPT ![n].pc = @ + 1]
  BY DEF Flag
<1> HIDE DEF o
<1>3. /\ st \in Seq(FrameT) /\ Len(st) = n
      /\ \A i \in 1..n : st[i] = IF i = o THEN [stack[i] EXCEPT !.flag = TRUE] ELSE stack[i]
  <2>1. CASE o \in 1..n
    <3> DEFINE g == [stack[o] EXCEPT !.flag = TRUE]
    <3>1. g \in FrameT
      BY <1>1, <2>1, FlagChanges DEF FrameOK
    <3>2. st = [stack EXCEPT ![o] = g]
      BY <1>1, <2>1
    <3> HIDE DEF g, st
    <3>3. /\ st \in Seq(FrameT) /\ Len(st) = n /\ st[o] = g
          /\ \A i \in 1..n : i # o => st[i] = stack[i]
      BY <1>1, <2>1, <3>1, <3>2, ReplacedIs
    <3> QED BY <3>3 DEF g
  <2>2. CASE o \notin 1..n
    <3>1. st = stack
      BY <1>1, <2>2
    <3> QED BY <1>1, <2>2, <3>1
  <2> QED BY <2>1, <2>2
<1> HIDE DEF st
<1>4. ASSUME NEW i \in 1..n
      PROVE  st[i] \in FrameT /\ FrameOK(st[i]) /\ Alike(stack[i], st[i])
             /\ st[i].fins = stack[i].fins /\ st[i].pc = stack[i].pc
  <2>1. FrameOK(stack[i])
    BY <1>1
  <2>2. CASE i = o
    <3>1. st[i] = [stack[i] EXCEPT !.flag = TRUE]
      BY <1>3, <2>2
    <3>2. FrameOK(st[i]) /\ Alike(stack[i], st[i]) /\ st[i].fins = stack[i].fins /\ st[i].pc = stack[i].pc
      BY <2>1, <3>1, FlagChanges
    <3> QED BY <3>2, FieldsOf
  <2>3. CASE i # o
    <3>1. st[i] = stack[i]
      BY <1>3, <2>3
    <3> QED BY <2>1, <3>1, FieldsOf DEF Alike, Like
  <2> QED BY <2>2, <2>3
<1> DEFINE g == [st[n] EXCEPT !.pc = @ + 1]
<1>5. st[n].pc \in Nat /\ st[n].pc + 1 \in Nat \ {0}
  BY <1>1, <1>4, FieldsOf
<1>6. FrameOK(g) /\ Alike(st[n], g) /\ g.fins = st[n].fins /\ g.pc = st[n].pc + 1
  BY <1>1, <1>4, <1>5, PcChanges
<1> HIDE DEF g
<1>e. stack' = [st EXCEPT ![n] = g]
  BY <1>1, <1>2, <1>3 DEF g
<1>f. /\ stack' \in Seq(FrameT) /\ Len(stack') = n /\ stack'[n] = g
      /\ \A i \in 1..n : i # n => stack'[i] = st[i]
  BY <1>1, <1>3, <1>6, <1>e, ReplacedIs DEF FrameOK
<1>7. ASSUME NEW i \in 1..n
      PROVE  /\ FrameOK(stack'[i]) /\ Alike(stack[i], stack'[i]) /\ stack'[i].fins = stack[i].fins
             /\ stack'[i].pc = IF i = n THEN stack[i].pc + 1 ELSE stack[i].pc
  <2>1. CASE i = n
    BY <1>4, <1>6, <1>f, <2>1 DEF Alike, Like
  <2>2. CASE i # n
    BY <1>4, <1>f, <2>2
  <2> QED BY <2>1, <2>2
<1>8. Shape(stack', Len(txs))
  <2>1. Shape(stack, Len(txs)) /\ \A i \in 1..n : FrameOK(stack'[i]) /\ Like(stack[i], stack'[i])
    BY <1>7 DEF TypeOK, Alike
  <2> QED BY <1>f, <2>1, ShapeSame
<1> QED BY <1>f, <1>7, <1>8

\* The finally block is called in line.
LEMMA FinallyStep ==
  ASSUME TypeOK, Finally
  PROVE  /\ stack' \in Seq(FrameT) /\ Len(stack') = Len(stack) + 1
         /\ \A i \in 1..Len(stack) :
              /\ FrameOK(stack'[i]) /\ Alike(stack[i], stack'[i])
              /\ stack'[i].fins = IF i = FnFrame THEN stack[i].fins + 1 ELSE stack[i].fins
              /\ stack'[i].pc = IF i = Len(stack) THEN stack[i].pc + 1 ELSE stack[i].pc
         /\ stack'[Len(stack) + 1] = Frame("finally", Top.fn, Def[Top.fn].finally, 0)
         /\ Shape(stack', Len(txs))
<1> DEFINE o == FnFrame
           st == [stack EXCEPT ![Len(stack)].pc = @ + 1]
           su == [st EXCEPT ![o].fins = @ + 1]
           n == Len(stack)
           callee == Frame("finally", Top.fn, Def[Top.fn].finally, 0)
<1>1. /\ stack \in Seq(FrameT) /\ n \in 1..n /\ stack # <<>> /\ \A i \in 1..n : FrameOK(stack[i])
      /\ Def[Top.fn].finally \in DOMAIN Block /\ Top.fn \in Fns
  BY AtIs, TopIs DEF Finally, TypeOK, Shape, FrameT
<1>2. stack' = Append(su, callee)
  BY DEF Finally
<1>3. o \in 1..n
  BY <1>1, OwnerOfTop DEF TypeOK
<1>4. FrameOK(callee) /\ callee.kind = "finally" /\ callee.fn = Top.fn /\ callee.level = Len(txs)
  BY <1>1, FrameIs DEF Kinds
<1> HIDE DEF o, callee
<1> DEFINE g == [stack[n] EXCEPT !.pc = @ + 1]
<1>5. stack[n].pc + 1 \in Nat \ {0} /\ FrameOK(stack[n])
  BY <1>1, FieldsOf
<1>6. FrameOK(g) /\ Alike(stack[n], g) /\ g.fins = stack[n].fins /\ g.pc = stack[n].pc + 1
  BY <1>5, PcChanges
<1>e. st = [stack EXCEPT ![n] = g]
  BY <1>1
<1> HIDE DEF st, g
<1>7. /\ st \in Seq(FrameT) /\ Len(st) = n /\ st[n] = g
      /\ \A i \in 1..n : i # n => st[i] = stack[i]
  BY <1>1, <1>6, <1>e, ReplacedIs DEF FrameOK
<1>8. ASSUME NEW i \in 1..n
      PROVE  /\ st[i] \in FrameT /\ FrameOK(st[i]) /\ Alike(stack[i], st[i])
             /\ st[i].fins = stack[i].fins
             /\ st[i].pc = IF i = n THEN stack[i].pc + 1 ELSE stack[i].pc
  <2>1. CASE i = n
    BY <1>6, <1>7, <2>1 DEF FrameOK
  <2>2. CASE i # n
    BY <1>1, <1>7, <2>2 DEF Alike, Like
  <2> QED BY <2>1, <2>2
<1> DEFINE h == [st[o] EXCEPT !.fins = @ + 1]
<1>g. st[o].fins + 1 \in Nat /\ FrameOK(st[o])
  BY <1>3, <1>8, FieldsOf
<1>h. FrameOK(h) /\ Alike(st[o], h) /\ h.fins = st[o].fins + 1 /\ h.pc = st[o].pc
  BY <1>g, FinsChange
<1>i. su = [st EXCEPT ![o] = h]
  BY <1>3, <1>7
<1> HIDE DEF su, h
<1>9. /\ su \in Seq(FrameT) /\ Len(su) = n /\ su[o] = h
      /\ \A i \in 1..n : i # o => su[i] = st[i]
  BY <1>3, <1>7, <1>h, <1>i, ReplacedIs DEF FrameOK
<1>10. ASSUME NEW i \in 1..n
       PROVE  /\ FrameOK(su[i]) /\ Alike(stack[i], su[i])
              /\ su[i].fins = IF i = o THEN stack[i].fins + 1 ELSE stack[i].fins
              /\ su[i].pc = IF i = n THEN stack[i].pc + 1 ELSE stack[i].pc
  <2>1. CASE i = o
    BY <1>8, <1>9, <1>h, <2>1 DEF Alike, Like
  <2>2. CASE i # o
    BY <1>8, <1>9, <2>2
  <2> QED BY <2>1, <2>2
<1>11. Shape(su, Len(txs))
  <2>1. Shape(stack, Len(txs)) /\ \A i \in 1..n : FrameOK(su[i]) /\ Like(stack[i], su[i])
    BY <1>10 DEF TypeOK, Alike
  <2>2. Len(su) = Len(stack) /\ su \in Seq(FrameT)
    BY <1>9
  <2> QED BY <2>1, <2>2, ShapeSame
<1>12. Shape(Append(su, callee), Len(txs))
  <2>1. Len(txs) \in Nat /\ callee.fn = su[Len(su)].fn /\ ~OwnTx(callee)
    BY <1>1, <1>4, <1>9, <1>10 DEF TypeOK, TxsOK, Alike, Like, Top, OwnTx
  <2>2. callee.level = Len(txs) + (IF OwnTx(callee) THEN 1 ELSE 0)
    BY <1>4, <2>1
  <2>3. su # <<>>
    BY <1>1, <1>9
  <2> QED BY <1>4, <1>11, <2>1, <2>2, <2>3, ShapePush
<1>13. /\ stack' \in Seq(FrameT) /\ Len(stack') = n + 1 /\ stack'[n + 1] = callee
       /\ \A i \in 1..n : stack'[i] = su[i]
  BY <1>1, <1>2, <1>4, <1>9 DEF FrameOK
<1> QED BY <1>2, <1>10, <1>12, <1>13 DEF o, callee

LEMMA TwoOrMore ==
  ASSUME NEW n \in Nat, n \in 1..n, n # 1
  PROVE  n \in 2..n /\ n - 1 \in 1..n
OBVIOUS

\* A block is left.
LEMMA LeaveStep ==
  ASSUME TypeOK, stack # <<>>, NEW how \in Hows, LeaveWith(how)
  PROVE  TypeOK' /\ stack' = Front(stack) /\ Len(stack') = Len(stack) - 1
         /\ \A i \in 1..Len(stack') : stack'[i] = stack[i] /\ i \in 1..Len(stack)
<1>1. /\ stack' = Front(stack)
      /\ txs' = IF OwnTx(Top) THEN Front(txs) ELSE txs
      /\ UNCHANGED <<committed, fails>>
      /\ left' = [kind |-> Top.kind, fn |-> Top.fn, blk |-> Top.blk, level |-> Top.level,
                 how |-> how, err |-> err, cause |-> Top.cause, flag |-> Top.flag,
                 fins |-> Top.fins, work |-> Top.work, committed |-> Top.committed,
                 remains |-> Tx.work, durable |-> committed]
      /\ mode' \in Modes /\ err' \in {"ORA-06519", err, NoError}
  BY DEF LeaveWith, OwnTx, Modes
<1>2. /\ Tx.work \in Seq(Row) /\ Top \in FrameT /\ Top.level = Len(txs) /\ Len(stack) \in 1..Len(stack)
      /\ stack \in Seq(FrameT) /\ Len(txs) \in 1..Len(txs) /\ FrameOK(Top)
  BY TopIs
<1>3. SessionOK'
  <2>1. left' \in LeftT
    BY <1>1, <1>2 DEF LeftT, FrameT, TypeOK, SessionOK
  <2>2. err' \in Errors \cup {NoError}
    BY <1>1 DEF TypeOK, SessionOK, Errors
  <2> QED BY <1>1, <2>1, <2>2 DEF TypeOK, SessionOK
<1>4. /\ stack' \in Seq(FrameT) /\ Len(stack') = Len(stack) - 1
      /\ \A i \in 1..Len(stack') : stack'[i] = stack[i] /\ i \in 1..Len(stack)
  BY <1>1, <1>2, FrontIs
<1>5. Shape(stack', Len(txs) - (IF OwnTx(Top) THEN 1 ELSE 0))
  BY <1>1, <1>2, ShapePop DEF TypeOK, Top
<1>6. CASE OwnTx(Top)
  <2>1. Len(txs) - 1 >= 1
    <3>1. Len(stack) # 1
      BY <1>6 DEF TypeOK, Shape, Top
    <3>2. Len(stack) \in 2..Len(stack) /\ Len(stack) - 1 \in 1..Len(stack)
      <4>1. Len(stack) \in Nat
        BY <1>2
      <4> QED BY <3>1, <4>1, <1>2, TwoOrMore
    <3>3. Top.level = stack[Len(stack) - 1].level + 1 /\ FrameOK(stack[Len(stack) - 1])
      BY <1>6, <3>2 DEF TypeOK, Shape, Top
    <3>4. stack[Len(stack) - 1].level \in Nat \ {0}
      BY <3>3 DEF FrameOK, FrameT
    <3> QED BY <1>2, <3>3, <3>4
  <2>2. txs' = Front(txs) /\ txs \in Seq(TxT)
    BY <1>1, <1>6 DEF TypeOK, TxsOK
  <2>3. /\ txs' \in Seq(TxT) /\ Len(txs') = Len(txs) - 1
        /\ \A k \in 1..Len(txs') : txs'[k] = txs[k] /\ k \in 1..Len(txs)
    <3>1. txs # <<>>
      BY <1>2
    <3> QED BY <2>2, <3>1, FrontIs
  <2>4. TxsOK'
    BY <2>1, <2>3 DEF TypeOK, TxsOK
  <2>5. Shape(stack, Len(txs))'
    BY <1>5, <1>6, <2>3
  <2> QED BY <1>1, <1>3, <1>4, <2>4, <2>5 DEF TypeOK
<1>7. CASE ~OwnTx(Top)
  <2>1. TxsOK' /\ Len(txs') = Len(txs)
    BY <1>1, <1>7 DEF TypeOK, TxsOK
  <2>2. Shape(stack, Len(txs))'
    BY <1>2, <1>5, <1>7, <2>1
  <2> QED BY <1>1, <1>3, <1>4, <2>1, <2>2 DEF TypeOK
<1> QED BY <1>6, <1>7

\* What executing a statement does to the blocks there are, and to a new one.
Fresh(fr) == fr.pc = 1 /\ fr.phase = "body" /\ fr.cause = NoError /\ fr.fins = 0
Went ==
  /\ stack # <<>> /\ mode = "run" /\ mode' = "run" /\ left' = left
  /\ Top.phase \in {"body", "after"} /\ Top.pc \in 1..Len(Code(Top))
  /\ stack' \in Seq(FrameT) /\ Len(stack') \in {Len(stack), Len(stack) + 1}
  /\ \A i \in 1..Len(stack) :
       /\ Alike(stack[i], stack'[i])
       /\ stack'[i].pc = IF i = Len(stack) THEN stack[i].pc + 1 ELSE stack[i].pc
       /\ stack'[i].fins = IF Code(Top)[Top.pc].op = "finally" /\ i = FnFrame
                           THEN stack[i].fins + 1 ELSE stack[i].fins
  /\ Len(stack') = Len(stack) + 1 => Fresh(stack'[Len(stack) + 1])

\* The block goes to its next statement.
LEMMA AdvancedIs ==
  ASSUME TypeOK, stack # <<>>
  PROVE  /\ FrameOK(Advanced) /\ Alike(Top, Advanced) /\ Like(Top, Advanced)
         /\ Advanced.fins = Top.fins /\ Advanced.pc = Top.pc + 1
<1>1. FrameOK(Top) /\ Top.pc + 1 \in Nat \ {0}
  BY TopIs, FieldsOf
<1>2. Advanced = [Top EXCEPT !.pc = Top.pc + 1]
  BY DEF Advanced
<1> HIDE DEF Advanced
<1> QED BY <1>1, <1>2, PcChanges DEF Alike

LEMMA AdvanceStep ==
  ASSUME TypeOK, NEW op, op # "finally", At(op), SetTop(Advanced), mode' = mode, left' = left
  PROVE  Went /\ Shape(stack', Len(txs)) /\ Len(stack') = Len(stack)
<1>1. /\ stack # <<>> /\ mode = "run" /\ Top.phase \in {"body", "after"}
      /\ Top.pc \in 1..Len(Code(Top)) /\ Code(Top)[Top.pc].op = op
  BY AtIs
<1>2. /\ FrameOK(Advanced) /\ Alike(Top, Advanced) /\ Like(Top, Advanced)
      /\ Advanced.fins = Top.fins /\ Advanced.pc = Top.pc + 1
  BY <1>1, AdvancedIs
<1>3. /\ stack' \in Seq(FrameT) /\ Len(stack') = Len(stack)
      /\ stack'[Len(stack)] = Advanced
      /\ \A i \in 1..Len(stack) : i # Len(stack) => stack'[i] = stack[i]
      /\ Shape(stack', Len(txs))
  BY <1>1, <1>2, TopStep
<1> HIDE DEF Advanced
<1>4. ASSUME NEW i \in 1..Len(stack)
      PROVE  /\ Alike(stack[i], stack'[i]) /\ stack'[i].fins = stack[i].fins
             /\ stack'[i].pc = IF i = Len(stack) THEN stack[i].pc + 1 ELSE stack[i].pc
  <2>1. CASE i = Len(stack)
    <3>1. stack[i] = Top /\ stack'[i] = Advanced
      BY <1>3, <2>1 DEF Top
    <3> QED BY <1>2, <2>1, <3>1
  <2>2. CASE i # Len(stack)
    <3>1. stack'[i] = stack[i]
      BY <1>3, <2>2
    <3> QED BY <2>2, <3>1 DEF Alike, Like
  <2> QED BY <2>1, <2>2
<1>5. Len(stack) \in Nat
  BY DEF TypeOK, Shape
<1>6. Len(stack') # Len(stack) + 1
  BY <1>3, <1>5
<1> QED BY <1>1, <1>3, <1>4, <1>6 DEF Went

LEMMA EnterStep ==
  ASSUME TypeOK, NEW op, op # "finally", At(op), NEW callee, FrameOK(callee), Fresh(callee),
         callee.kind # "fn" => callee.fn = Top.fn,
         callee.level = Len(txs) + (IF OwnTx(callee) THEN 1 ELSE 0),
         Push(Advanced, callee), mode' = mode, left' = left
  PROVE  Went /\ Shape(stack', callee.level)
         /\ Len(stack') = Len(stack) + 1 /\ stack'[Len(stack) + 1] = callee
<1>1. /\ stack # <<>> /\ mode = "run" /\ Top.phase \in {"body", "after"}
      /\ Top.pc \in 1..Len(Code(Top)) /\ Code(Top)[Top.pc].op = op
  BY AtIs
<1>2. /\ FrameOK(Advanced) /\ Alike(Top, Advanced) /\ Like(Top, Advanced)
      /\ Advanced.fins = Top.fins /\ Advanced.pc = Top.pc + 1
  BY <1>1, AdvancedIs
<1>3. /\ stack' \in Seq(FrameT) /\ Len(stack') = Len(stack) + 1
      /\ stack'[Len(stack)] = Advanced /\ stack'[Len(stack) + 1] = callee
      /\ \A i \in 1..Len(stack) : i # Len(stack) => stack'[i] = stack[i]
      /\ Shape(stack', callee.level)
  BY <1>1, <1>2, PushStep
<1> HIDE DEF Advanced
<1>4. ASSUME NEW i \in 1..Len(stack)
      PROVE  /\ Alike(stack[i], stack'[i]) /\ stack'[i].fins = stack[i].fins
             /\ stack'[i].pc = IF i = Len(stack) THEN stack[i].pc + 1 ELSE stack[i].pc
  <2>1. CASE i = Len(stack)
    <3>1. stack[i] = Top /\ stack'[i] = Advanced
      BY <1>3, <2>1 DEF Top
    <3> QED BY <1>2, <2>1, <3>1
  <2>2. CASE i # Len(stack)
    <3>1. stack'[i] = stack[i]
      BY <1>3, <2>2
    <3> QED BY <2>2, <3>1 DEF Alike, Like
  <2> QED BY <2>1, <2>2
<1> QED BY <1>1, <1>3, <1>4 DEF Went

\* The current transaction changes.
LEMMA TxStep ==
  ASSUME TypeOK, NEW t, TxOK(t), SetTx(t)
  PROVE  /\ TxsOK' /\ Len(txs') = Len(txs) /\ txs'[Len(txs)] = t
         /\ \A k \in 1..Len(txs) : k # Len(txs) => txs'[k] = txs[k]
<1>1. /\ txs \in Seq(TxT) /\ Len(txs) \in 1..Len(txs) /\ t \in TxT
      /\ \A k \in 1..Len(txs) : TxOK(txs[k])
  BY TopIs DEF TypeOK, TxsOK, TxOK
<1>2. /\ txs' \in Seq(TxT) /\ Len(txs') = Len(txs) /\ txs'[Len(txs)] = t
      /\ \A k \in 1..Len(txs) : k # Len(txs) => txs'[k] = txs[k]
  BY <1>1 DEF SetTx
<1>3. txs' # <<>>
  BY <1>1, <1>2
<1>4. \A k \in 1..Len(txs') : TxOK(txs'[k])
  BY <1>1, <1>2
<1> QED BY <1>2, <1>3, <1>4 DEF TxsOK

----------------------------------------------------------------------------
(* Each statement.                                                          *)

LEMMA DmlStep ==
  ASSUME TypeOK, Dml
  PROVE  TypeOK' /\ Went /\ Len(stack') = Len(stack)
<1>1. At("dml") /\ SetTop(Advanced) /\ SetTx([Tx EXCEPT !.work = Append(@, Arg)])
      /\ UNCHANGED <<mode, err, committed, left, fails>>
  BY DEF Dml
<1>2. Went /\ Shape(stack', Len(txs)) /\ Len(stack') = Len(stack)
  BY <1>1, AdvanceStep
<1>3. Code(Top)[Top.pc] \in Stmts
  BY <1>1, AtIs, InstrArgs
<1>4. Arg \in Row
  BY <1>3 DEF Row, Arg
<1>5. TxOK([Tx EXCEPT !.work = Append(@, Arg)])
  BY <1>4, TopIs, TxDml
<1> DEFINE t == [Tx EXCEPT !.work = Append(@, Arg)]
<1> HIDE DEF t
<1>6. TxsOK' /\ Len(txs') = Len(txs)
  BY <1>1, <1>5, TxStep DEF t
<1>7. SessionOK'
  BY <1>1 DEF TypeOK, SessionOK
<1>8. Shape(stack, Len(txs))'
  BY <1>2, <1>6
<1> QED BY <1>2, <1>6, <1>7, <1>8 DEF TypeOK

LEMMA SavepointStep ==
  ASSUME TypeOK, Savepoint
  PROVE  TypeOK' /\ Went /\ Len(stack') = Len(stack)
<1> DEFINE t == [Tx EXCEPT !.saves = Append(Unset(Arg), [name |-> Arg, at |-> Len(Tx.work)])]
<1>1. At("savepoint") /\ SetTop(Advanced) /\ SetTx(t)
      /\ UNCHANGED <<mode, err, committed, left, fails>>
  BY DEF Savepoint
<1>2. Went /\ Shape(stack', Len(txs)) /\ Len(stack') = Len(stack)
  BY <1>1, AdvanceStep
<1>3. Arg \in SaveNames
  BY <1>1, AtIs, InstrArgs DEF Arg
<1>4. TxOK(Tx)
  BY TopIs
<1>5. TxOK(t)
  <2>1. /\ Unset(Arg) \in Seq(SaveT) /\ Len(Unset(Arg)) <= Len(Tx.saves)
        /\ \A i \in 1..Len(Unset(Arg)) : Unset(Arg)[i].name # Arg
        /\ \E h \in [1..Len(Unset(Arg)) -> 1..Len(Tx.saves)] :
             \A i \in 1..Len(Unset(Arg)) :
               Unset(Arg)[i] = Tx.saves[h[i]] /\ \A j \in 1..(i - 1) : h[j] < h[i]
    BY <1>3, <1>4, UnsetIs
  <2> QED BY <1>3, <1>4, <2>1, TxSave
<1> HIDE DEF t
<1>6. TxsOK' /\ Len(txs') = Len(txs)
  BY <1>1, <1>5, TxStep
<1>7. SessionOK'
  BY <1>1 DEF TypeOK, SessionOK
<1>8. Shape(stack, Len(txs))'
  BY <1>2, <1>6
<1> QED BY <1>2, <1>6, <1>7, <1>8 DEF TypeOK

LEMMA CommitStep ==
  ASSUME TypeOK, Commit
  PROVE  TypeOK' /\ Went /\ Len(stack') = Len(stack)
<1> DEFINE rows == [i \in DOMAIN Tx.work |-> [level |-> Len(txs), row |-> Tx.work[i]]]
<1>1. At("commit") /\ SetTop(Advanced) /\ SetTx(NewTx) /\ committed' = committed \o rows
      /\ UNCHANGED <<mode, err, left, fails>>
  BY DEF Commit
<1>3. rows \in Seq(Durable)
  <2>1. Tx.work \in Seq(Row) /\ Len(txs) \in Nat
    BY TopIs
  <2>2. DOMAIN Tx.work = 1..Len(Tx.work) /\ Len(Tx.work) \in Nat
    BY <2>1
  <2>3. \A i \in 1..Len(Tx.work) : [level |-> Len(txs), row |-> Tx.work[i]] \in Durable
    BY <2>1 DEF Durable
  <2> QED BY <2>2, <2>3
<1> HIDE DEF rows
<1>2. Went /\ Shape(stack', Len(txs)) /\ Len(stack') = Len(stack)
  BY <1>1, AdvanceStep
<1>6. TxsOK' /\ Len(txs') = Len(txs)
  BY <1>1, NewTxOK, TxStep
<1>7. SessionOK'
  BY <1>1, <1>3 DEF TypeOK, SessionOK
<1>8. Shape(stack, Len(txs))'
  BY <1>2, <1>6
<1> QED BY <1>2, <1>6, <1>7, <1>8 DEF TypeOK

\* Steps that leave the transactions alone.
LEMMA TxsSame ==
  ASSUME TypeOK, UNCHANGED txs
  PROVE  TxsOK' /\ Len(txs') = Len(txs)
BY DEF TypeOK, TxsOK

LEMMA FlagGoes ==
  ASSUME TypeOK, Flag
  PROVE  TypeOK' /\ Went /\ Len(stack') = Len(stack)
<1>1. At("flag") /\ UNCHANGED <<mode, err, txs, committed, left, fails>>
  BY DEF Flag
<1>2. /\ stack' \in Seq(FrameT) /\ Len(stack') = Len(stack)
      /\ \A i \in 1..Len(stack) :
           /\ Alike(stack[i], stack'[i]) /\ stack'[i].fins = stack[i].fins
           /\ stack'[i].pc = IF i = Len(stack) THEN stack[i].pc + 1 ELSE stack[i].pc
      /\ Shape(stack', Len(txs))
  BY FlagStep
<1>3. /\ stack # <<>> /\ mode = "run" /\ Top.phase \in {"body", "after"}
      /\ Top.pc \in 1..Len(Code(Top)) /\ Code(Top)[Top.pc].op = "flag"
  BY <1>1, AtIs
<1>4. Len(stack) \in Nat
  BY DEF TypeOK, Shape
<1>5. Len(stack') # Len(stack) + 1
  BY <1>2, <1>4
<1>6. Went
  BY <1>1, <1>2, <1>3, <1>5 DEF Went
<1>7. SessionOK'
  BY <1>1 DEF TypeOK, SessionOK
<1>8. TxsOK' /\ Shape(stack, Len(txs))'
  BY <1>1, <1>2, TxsSame
<1> QED BY <1>2, <1>6, <1>7, <1>8 DEF TypeOK

LEMMA FreshIs ==
  ASSUME TypeOK, NEW kind, NEW f, NEW b, NEW d
  PROVE  Fresh(Frame(kind, f, b, d))
BY DEF Fresh, Frame

\* A block inside a function is entered.
LEMMA BlockEntered ==
  ASSUME TypeOK, NEW op \in {"if", "transaction"}, At(op), NEW kind \in {"if", "tx"}, NEW d \in Nat,
         kind = "tx" => d > 0, Push(Advanced, Frame(kind, Top.fn, Arg, d)),
         UNCHANGED <<mode, err, txs, committed, left, fails>>
  PROVE  TypeOK' /\ Went /\ Len(stack') = Len(stack) + 1
         /\ stack'[Len(stack) + 1] = Frame(kind, Top.fn, Arg, d)
<1> DEFINE fr == Frame(kind, Top.fn, Arg, d)
<1>1. Arg \in DOMAIN Block /\ Top.fn \in Fns
  <2>1. stack # <<>> /\ Code(Top)[Top.pc] \in Instr /\ Code(Top)[Top.pc].op \in {"if", "transaction"}
    BY AtIs
  <2> QED BY <2>1, InstrArgs, TopIs, FieldsOf DEF Arg
<1>2. FrameOK(fr) /\ fr.kind = kind /\ fr.fn = Top.fn /\ fr.level = Len(txs)
  BY <1>1, FrameIs DEF Kinds
<1>3. Fresh(fr)
  BY FreshIs
<1> HIDE DEF fr
<1>4. ~OwnTx(fr) /\ Len(txs) \in Nat
  BY <1>2 DEF OwnTx, TypeOK, TxsOK
<1>5. fr.level = Len(txs) + (IF OwnTx(fr) THEN 1 ELSE 0)
  BY <1>2, <1>4
<1>6. Went /\ Shape(stack', fr.level) /\ Len(stack') = Len(stack) + 1 /\ stack'[Len(stack) + 1] = fr
  BY <1>2, <1>3, <1>5, EnterStep DEF fr
<1>7. SessionOK'
  BY DEF TypeOK, SessionOK
<1>8. TxsOK' /\ Shape(stack, Len(txs))'
  BY <1>2, <1>6, TxsSame
<1> QED BY <1>6, <1>7, <1>8 DEF TypeOK, fr
\* The frame of a call; an autonomous function has a transaction of its own.
Called(g) ==
  IF Def[g].autonomous
  THEN [Frame("fn", g, Def[g].body, 0) EXCEPT !.level = @ + 1, !.work = <<>>]
  ELSE Frame("fn", g, Def[g].body, 0)

\* The blocks that statements enter.
Pushed ==
  /\ Len(stack') = Len(stack) + 1
  /\ \/ At("if") /\ stack'[Len(stack) + 1] = Frame("if", Top.fn, Arg, Top.depth)
     \/ At("transaction") /\ stack'[Len(stack) + 1] = Frame("tx", Top.fn, Arg, Top.depth + 1)
     \/ At("call") /\ Arg \in Fns /\ stack'[Len(stack) + 1] = Called(Arg)
     \/ /\ At("finally")
        /\ stack'[Len(stack) + 1] = Frame("finally", Top.fn, Def[Top.fn].finally, 0)

LEMMA IfStep ==
  ASSUME TypeOK, If
  PROVE  TypeOK' /\ Went /\ (Len(stack') = Len(stack) \/ Pushed)
<1>1. At("if") /\ UNCHANGED <<mode, err, txs, committed, left, fails>>
  BY DEF If
<1>2. stack # <<>> /\ Top.depth \in Nat
  BY <1>1, AtIs, TopIs, FieldsOf
<1>3. CASE Push(Advanced, Frame("if", Top.fn, Arg, Top.depth))
  BY <1>1, <1>2, <1>3, BlockEntered DEF Pushed
<1>4. CASE SetTop(Advanced)
  <2>1. Went /\ Shape(stack', Len(txs)) /\ Len(stack') = Len(stack)
    BY <1>1, <1>4, AdvanceStep
  <2>2. SessionOK'
    BY <1>1 DEF TypeOK, SessionOK
  <2>3. TxsOK' /\ Shape(stack, Len(txs))'
    BY <1>1, <2>1, TxsSame
  <2> QED BY <2>1, <2>2, <2>3 DEF TypeOK
<1> QED BY <1>3, <1>4 DEF If

LEMMA TransactionStep ==
  ASSUME TypeOK, Transaction
  PROVE  TypeOK' /\ Went /\ Pushed
<1>1. /\ At("transaction") /\ UNCHANGED <<mode, err, txs, committed, left, fails>>
      /\ Push(Advanced, Frame("tx", Top.fn, Arg, Top.depth + 1))
  BY DEF Transaction
<1>2. Top.depth + 1 \in Nat /\ Top.depth + 1 > 0
  BY <1>1, AtIs, TopIs, FieldsOf
<1> QED BY <1>1, <1>2, BlockEntered DEF Pushed

LEMMA CalledIs ==
  ASSUME TypeOK, NEW g \in Fns
  PROVE  /\ FrameOK(Called(g)) /\ Fresh(Called(g))
         /\ Called(g).kind = "fn" /\ Called(g).fn = g /\ Called(g).blk = Def[g].body
         /\ Called(g).depth = 0 /\ Called(g).committed = committed
         /\ Called(g).level = Len(txs) + (IF OwnTx(Called(g)) THEN 1 ELSE 0)
         /\ Def[g].autonomous => Called(g).work = <<>>
         /\ ~Def[g].autonomous => Called(g).work = Tx.work
<1> DEFINE fr == Frame("fn", g, Def[g].body, 0)
<1>1. Def[g].body \in DOMAIN Block /\ Def[g].autonomous \in BOOLEAN
  BY DefAssumption
<1>2. FrameOK(fr) /\ fr.kind = "fn" /\ fr.fn = g /\ fr.level = Len(txs) /\ Fresh(fr)
  BY <1>1, FrameIs, FreshIs DEF Kinds
<1>3. fr.blk = Def[g].body /\ fr.depth = 0 /\ fr.committed = committed /\ fr.work = Tx.work
      /\ fr.phase = "body"
  BY DEF Frame
<1>4. fr \in FrameT /\ Len(txs) \in Nat
  BY <1>2, FieldsOf DEF TypeOK, TxsOK
<1>5. CASE Def[g].autonomous
  <2> DEFINE h == [fr EXCEPT !.level = @ + 1, !.work = <<>>]
  <2>1. Called(g) = h
    BY <1>5 DEF Called
  <2> HIDE DEF fr
  <2>2. h \in FrameT
    <3>1. fr.level + 1 \in Nat /\ <<>> \in Seq(Row)
      BY <1>2, <1>4
    <3>2. h = [fr EXCEPT !.level = fr.level + 1, !.work = <<>>]
      OBVIOUS
    <3> QED BY <1>4, <3>1, <3>2 DEF FrameT
  <2>3. /\ h.kind = "fn" /\ h.fn = g /\ h.blk = Def[g].body /\ h.depth = 0 /\ h.phase = "body"
        /\ h.level = Len(txs) + 1 /\ h.work = <<>> /\ h.committed = committed
        /\ h.pc = fr.pc /\ h.cause = fr.cause /\ h.fins = fr.fins
    BY <1>2, <1>3, <1>4 DEF FrameT
  <2> HIDE DEF h
  <2>4. FrameOK(h) /\ Fresh(h) /\ OwnTx(h)
    BY <1>2, <1>3, <1>4, <1>5, <2>2, <2>3 DEF FrameOK, Fresh, OwnTx
  <2> QED BY <1>5, <2>1, <2>3, <2>4
<1>6. CASE ~Def[g].autonomous
  <2>1. Called(g) = fr
    BY <1>6 DEF Called
  <2>2. ~OwnTx(fr)
    BY <1>2, <1>6 DEF OwnTx
  <2> HIDE DEF fr
  <2> QED BY <1>2, <1>3, <1>4, <1>6, <2>1, <2>2
<1> QED BY <1>5, <1>6

LEMMA CallStep ==
  ASSUME TypeOK, Call
  PROVE  /\ TypeOK' /\ Went /\ Pushed /\ Arg \in Fns
         /\ stack'[Len(stack) + 1] = Called(Arg)
         /\ txs' = IF Def[Arg].autonomous THEN Append(txs, NewTx) ELSE txs
<1>1. At("call") /\ UNCHANGED <<mode, err, committed, left, fails>>
  BY DEF Call
<1>2. Arg \in Fns
  BY <1>1, AtIs, InstrArgs DEF Arg
<1>3. /\ Push(Advanced, Called(Arg))
      /\ txs' = IF Def[Arg].autonomous THEN Append(txs, NewTx) ELSE txs
  BY DEF Call, Called
<1> DEFINE fr == Called(Arg)
<1>4. /\ FrameOK(fr) /\ Fresh(fr) /\ fr.kind = "fn" /\ fr.fn = Arg
      /\ fr.level = Len(txs) + (IF OwnTx(fr) THEN 1 ELSE 0)
  BY <1>2, CalledIs
<1>5. Went /\ Shape(stack', fr.level) /\ Len(stack') = Len(stack) + 1 /\ stack'[Len(stack) + 1] = fr
  <2>1. Push(Advanced, fr)
    BY <1>3
  <2> HIDE DEF fr
  <2> QED BY <1>1, <1>4, <2>1, EnterStep
<1>6. TxsOK' /\ Len(txs') = fr.level
  <2>1. /\ txs \in Seq(TxT) /\ Len(txs) \in 1..Len(txs) /\ \A k \in 1..Len(txs) : TxOK(txs[k])
        /\ NewTx \in TxT /\ TxOK(NewTx)
    BY TopIs, NewTxOK DEF TypeOK, TxsOK, TxOK
  <2>2. CASE Def[Arg].autonomous
    <3>1. /\ txs' \in Seq(TxT) /\ Len(txs') = Len(txs) + 1
          /\ txs'[Len(txs) + 1] = NewTx /\ \A k \in 1..Len(txs) : txs'[k] = txs[k]
      BY <1>3, <2>1, <2>2
    <3>2. \A k \in 1..Len(txs') : k \in 1..Len(txs) \/ k = Len(txs) + 1
      BY <2>1, <3>1
    <3>3. \A k \in 1..Len(txs') : TxOK(txs'[k])
      BY <2>1, <3>1, <3>2
    <3>4. txs' # <<>> /\ Len(txs') = fr.level
      BY <1>4, <2>1, <2>2, <3>1 DEF OwnTx
    <3> QED BY <3>1, <3>3, <3>4 DEF TxsOK
  <2>3. CASE ~Def[Arg].autonomous
    <3>1. ~OwnTx(fr)
      BY <1>4, <2>3 DEF OwnTx
    <3>2. Len(txs') = fr.level /\ txs' = txs
      BY <1>3, <1>4, <2>1, <2>3, <3>1
    <3> QED BY <3>2, TxsSame
  <2> QED BY <2>2, <2>3
<1>7. SessionOK'
  BY <1>1 DEF TypeOK, SessionOK
<1>8. Shape(stack, Len(txs))'
  BY <1>5, <1>6
<1>9. Pushed
  BY <1>1, <1>2, <1>5 DEF Pushed
<1> QED BY <1>2, <1>3, <1>5, <1>6, <1>7, <1>8, <1>9 DEF TypeOK

LEMMA FinallyGoes ==
  ASSUME TypeOK, Finally
  PROVE  TypeOK' /\ Went /\ Pushed
<1>1. At("finally") /\ UNCHANGED <<mode, err, txs, committed, left, fails>>
  BY DEF Finally
<1>2. /\ stack # <<>> /\ mode = "run" /\ Top.phase \in {"body", "after"}
      /\ Top.pc \in 1..Len(Code(Top)) /\ Code(Top)[Top.pc].op = "finally"
  BY <1>1, AtIs
<1>3. /\ stack' \in Seq(FrameT) /\ Len(stack') = Len(stack) + 1
      /\ \A i \in 1..Len(stack) :
           /\ Alike(stack[i], stack'[i])
           /\ stack'[i].fins = IF i = FnFrame THEN stack[i].fins + 1 ELSE stack[i].fins
           /\ stack'[i].pc = IF i = Len(stack) THEN stack[i].pc + 1 ELSE stack[i].pc
      /\ stack'[Len(stack) + 1] = Frame("finally", Top.fn, Def[Top.fn].finally, 0)
      /\ Shape(stack', Len(txs))
  BY FinallyStep
<1>4. Fresh(stack'[Len(stack) + 1])
  BY <1>3, FreshIs
<1>5. Went
  BY <1>1, <1>2, <1>3, <1>4 DEF Went
<1>7. SessionOK'
  BY <1>1 DEF TypeOK, SessionOK
<1>8. TxsOK' /\ Shape(stack, Len(txs))'
  BY <1>1, <1>3, TxsSame
<1>9. Pushed
  BY <1>1, <1>3 DEF Pushed
<1> QED BY <1>5, <1>7, <1>8, <1>9 DEF TypeOK

\* A statement is executed, or control starts to move another way.
Turns ==
  /\ stack # <<>> /\ mode = "run" /\ Top.phase = "body" /\ UNCHANGED <<stack, txs, committed, left>>
  /\ Top.pc \in 1..Len(Code(Top)) /\ Code(Top)[Top.pc].op \in {"dml", "err", "return"}
  /\ mode' = "raise" \/ (mode' = "return" /\ Code(Top)[Top.pc].op = "return")

LEMMA StatementStep ==
  ASSUME TypeOK, Statement
  PROVE  TypeOK' /\ ((Went /\ (Len(stack') = Len(stack) \/ Pushed)) \/ Turns)
<1>1. CASE DmlFails \/ RaiseErr \/ Return
  <2>1. \E op \in {"dml", "err", "return"} : At(op)
    BY <1>1 DEF DmlFails, RaiseErr, Return
  <2>2. stack # <<>> /\ mode = "run" /\ Top.phase = "body" /\ Top.pc \in 1..Len(Code(Top))
        /\ Code(Top)[Top.pc].op \in {"dml", "err", "return"}
    <3>1. PICK op \in {"dml", "err", "return"} : At(op)
      BY <2>1
    <3>2. Top.phase = "after" => Code(Top) = <<I("finally", NoArg)>>
      BY CodeAfter
    <3>3. Top.phase = "after" => Top.pc = 1 /\ Code(Top)[Top.pc].op = "finally"
      <4>1. Top.pc \in 1..Len(Code(Top))
        BY <3>1, AtIs
      <4>2. ASSUME Top.phase = "after" PROVE Top.pc = 1
        <5>1. Len(Code(Top)) = 1
          BY <3>2, <4>2
        <5> QED BY <4>1, <5>1
      <4>3. I("finally", NoArg).op = "finally"
        BY DEF I
      <4> QED BY <3>2, <4>2, <4>3
    <3> QED BY <3>1, <3>3, AtIs
  <2>3. UNCHANGED <<stack, txs, committed, left>> /\ mode' \in {"raise", "return"}
        /\ err' \in Errors \cup {NoError} /\ fails' \in Nat
    BY <1>1 DEF DmlFails, RaiseErr, Return, TypeOK, SessionOK, Errors
  <2>4. mode' = "return" => Top.pc \in 1..Len(Code(Top)) /\ Code(Top)[Top.pc].op = "return"
    BY <1>1, AtIs DEF DmlFails, RaiseErr, Return
  <2>5. SessionOK'
    BY <2>3 DEF TypeOK, SessionOK, Modes
  <2>6. TxsOK' /\ Shape(stack, Len(txs))'
    BY <2>3 DEF TypeOK, TxsOK
  <2> QED BY <2>2, <2>3, <2>4, <2>5, <2>6 DEF TypeOK, Turns
<1>2. CASE ~(DmlFails \/ RaiseErr \/ Return)
  BY <1>2, DmlStep, SavepointStep, CommitStep, FlagGoes, IfStep, TransactionStep, CallStep, FinallyGoes
     DEF Statement
<1> QED BY <1>1, <1>2
----------------------------------------------------------------------------
(* The ends of blocks and the handlers.                                     *)

\* g is fr in another phase.
Kept(fr, g) == Like(fr, g) /\ g.blk = fr.blk /\ g.depth = fr.depth /\ g.work = fr.work
               /\ g.committed = fr.committed /\ g.flag = fr.flag

\* fr in another phase.
PutIn(fr, ph, k, a, c, n) ==
  [fr EXCEPT !.phase = ph, !.pc = k, !.attempt = a, !.cause = c, !.fins = n]

PutOK(fr, ph, k, a, c, n) ==
  /\ FrameOK(PutIn(fr, ph, k, a, c, n)) /\ Kept(fr, PutIn(fr, ph, k, a, c, n))
  /\ PutIn(fr, ph, k, a, c, n).phase = ph /\ PutIn(fr, ph, k, a, c, n).pc = k
  /\ PutIn(fr, ph, k, a, c, n).attempt = a /\ PutIn(fr, ph, k, a, c, n).cause = c
  /\ PutIn(fr, ph, k, a, c, n).fins = n
MayBe(fr, ph) ==
  /\ ph \in Phases
  /\ ph \in {"after", "cleanup"} => fr.kind = "fn" /\ Def[fr.fn].finally # NoBlock

LEMMA PhaseChanges ==
  ASSUME NEW fr, FrameOK(fr), NEW ph, MayBe(fr, ph), NEW k \in Nat \ {0}, NEW a \in Nat,
         NEW c \in Errors \cup {NoError}, NEW n \in Nat
  PROVE  PutOK(fr, ph, k, a, c, n)
<1> USE DEF MayBe
<1> DEFINE g == PutIn(fr, ph, k, a, c, n)
<1>1. fr \in FrameT
  BY DEF FrameOK
<1> USE DEF PutIn
<1>2. g \in FrameT
  BY <1>1 DEF FrameT
<1>3. g.kind = fr.kind /\ g.fn = fr.fn /\ g.level = fr.level /\ g.blk = fr.blk /\ g.depth = fr.depth
  BY <1>1 DEF FrameT
<1>4. g.work = fr.work /\ g.committed = fr.committed /\ g.flag = fr.flag
  BY <1>1 DEF FrameT
<1>5. g.phase = ph /\ g.pc = k /\ g.attempt = a /\ g.cause = c /\ g.fins = n
  BY <1>1 DEF FrameT
<1> QED BY <1>2, <1>3, <1>4, <1>5 DEF FrameOK, Kept, Like, PutOK

\* The states a handler, or the end of the body, leaves a block in.
LEMMA PhasesAre ==
  ASSUME NEW fr, FrameOK(fr), NEW c \in Errors \cup {NoError}, NEW a \in Nat
  PROVE  /\ [fr EXCEPT !.phase = "after", !.pc = 1]
              = PutIn(fr, "after", 1, fr.attempt, fr.cause, fr.fins)
         /\ [fr EXCEPT !.phase = "raised", !.cause = c]
              = PutIn(fr, "raised", fr.pc, fr.attempt, c, fr.fins)
         /\ [[fr EXCEPT !.phase = "raised", !.cause = c] EXCEPT !.attempt = a]
              = PutIn(fr, "raised", fr.pc, a, c, fr.fins)
         /\ [fr EXCEPT !.pc = 1, !.attempt = a]
              = PutIn(fr, fr.phase, 1, a, fr.cause, fr.fins)
         /\ [fr EXCEPT !.phase = "cleanup", !.cause = c, !.fins = @ + 1]
              = PutIn(fr, "cleanup", fr.pc, fr.attempt, c, fr.fins + 1)
         /\ [fr EXCEPT !.phase = "raised"]
              = PutIn(fr, "raised", fr.pc, fr.attempt, fr.cause, fr.fins)
<1>1. fr \in FrameT
  BY DEF FrameOK
<1>2. [fr EXCEPT !.phase = "after", !.pc = 1]
        = PutIn(fr, "after", 1, fr.attempt, fr.cause, fr.fins)
  BY <1>1 DEF FrameT, PutIn
<1>3. [fr EXCEPT !.phase = "raised", !.cause = c]
        = PutIn(fr, "raised", fr.pc, fr.attempt, c, fr.fins)
  BY <1>1 DEF FrameT, PutIn
<1>4. [[fr EXCEPT !.phase = "raised", !.cause = c] EXCEPT !.attempt = a]
        = PutIn(fr, "raised", fr.pc, a, c, fr.fins)
  BY <1>1 DEF FrameT, PutIn
<1>5. [fr EXCEPT !.pc = 1, !.attempt = a]
        = PutIn(fr, fr.phase, 1, a, fr.cause, fr.fins)
  BY <1>1 DEF FrameT, PutIn
<1>6. [fr EXCEPT !.phase = "cleanup", !.cause = c, !.fins = @ + 1]
        = PutIn(fr, "cleanup", fr.pc, fr.attempt, c, fr.fins + 1)
  BY <1>1 DEF FrameT, PutIn
<1>7. [fr EXCEPT !.phase = "raised"]
        = PutIn(fr, "raised", fr.pc, fr.attempt, fr.cause, fr.fins)
  BY <1>1 DEF FrameT, PutIn
<1> QED BY <1>2, <1>3, <1>4, <1>5, <1>6, <1>7

\* The innermost block is in another state.
TopOnly ==
  /\ stack # <<>> /\ stack' \in Seq(FrameT) /\ Len(stack') = Len(stack) /\ left' = left
  /\ \A i \in 1..Len(stack) : i # Len(stack) => stack'[i] = stack[i]
  /\ Kept(Top, stack'[Len(stack)])

LEMMA TopOnlyIs ==
  ASSUME TypeOK, stack # <<>>, NEW fr, FrameOK(fr), Kept(Top, fr), SetTop(fr), left' = left
  PROVE  TopOnly /\ stack'[Len(stack)] = fr /\ Shape(stack', Len(txs))
<1>1. Like(Top, fr)
  BY DEF Kept
<1> QED BY <1>1, TopStep DEF TopOnly

LEMMA AfterBodyStep ==
  ASSUME TypeOK, AfterBody
  PROVE  /\ TypeOK' /\ TopOnly /\ mode = "run" /\ mode' = "run"
         /\ Top.kind = "fn" /\ Top.phase = "body" /\ Def[Top.fn].finally # NoBlock
         /\ stack'[Len(stack)].phase = "after" /\ stack'[Len(stack)].pc = 1
         /\ stack'[Len(stack)].cause = Top.cause /\ stack'[Len(stack)].fins = Top.fins
<1>1. /\ stack # <<>> /\ mode = "run" /\ Top.kind = "fn" /\ Top.phase = "body"
      /\ Def[Top.fn].finally # NoBlock
      /\ SetTop([Top EXCEPT !.phase = "after", !.pc = 1])
      /\ UNCHANGED <<mode, err, txs, committed, left, fails>>
  BY DEF AfterBody, AtEnd
<1>2. FrameOK(Top)
  BY <1>1, TopIs
<1> DEFINE fr == [Top EXCEPT !.phase = "after", !.pc = 1]
<1>3. Top.attempt \in Nat /\ Top.cause \in Errors \cup {NoError} /\ Top.fins \in Nat
  BY <1>2, FieldsOf
<1>4. fr = PutIn(Top, "after", 1, Top.attempt, Top.cause, Top.fins)
  BY <1>2, <1>3, PhasesAre
<1> HIDE DEF fr
<1>p. MayBe(Top, "after") /\ 1 \in Nat \ {0}
  BY <1>1 DEF Phases, MayBe
<1>q. PutOK(Top, "after", 1, Top.attempt, Top.cause, Top.fins)
  BY <1>2, <1>3, <1>p, PhaseChanges
<1>5. /\ FrameOK(fr) /\ Kept(Top, fr) /\ fr.phase = "after" /\ fr.pc = 1
      /\ fr.cause = Top.cause /\ fr.fins = Top.fins
  BY <1>4, <1>q DEF PutOK
<1>6. TopOnly /\ stack'[Len(stack)] = fr /\ Shape(stack', Len(txs))
  BY <1>1, <1>5, TopOnlyIs DEF fr
<1>7. SessionOK' /\ TxsOK' /\ Len(txs') = Len(txs)
  BY <1>1, TxsSame DEF TypeOK, SessionOK
<1>8. Shape(stack, Len(txs))'
  BY <1>6, <1>7
<1> QED BY <1>1, <1>5, <1>6, <1>7, <1>8 DEF TypeOK

\* The error goes on from the handler.
LEMMA RaisedIs ==
  ASSUME TypeOK, stack # <<>>
  PROVE  /\ FrameOK(Raised) /\ Kept(Top, Raised) /\ Raised.phase = "raised"
         /\ Raised.pc = Top.pc /\ Raised.cause = err /\ Raised.fins = Top.fins
         /\ \A a \in Nat : \A g : g = [Raised EXCEPT !.attempt = a] =>
              /\ FrameOK(g) /\ Kept(Top, g) /\ g.phase = "raised"
              /\ g.pc = Top.pc /\ g.cause = err /\ g.fins = Top.fins
<1>1. FrameOK(Top) /\ err \in Errors \cup {NoError}
  BY TopIs DEF TypeOK, SessionOK
<1>2. Top.attempt \in Nat /\ Top.cause \in Errors \cup {NoError} /\ Top.fins \in Nat
      /\ Top.pc \in Nat \ {0}
  BY <1>1, FieldsOf
<1>3. Raised = PutIn(Top, "raised", Top.pc, Top.attempt, err, Top.fins)
  BY <1>1, <1>2, PhasesAre DEF Raised
<1>4. ASSUME NEW a \in Nat
      PROVE  [Raised EXCEPT !.attempt = a]
               = PutIn(Top, "raised", Top.pc, a, err, Top.fins)
  BY <1>1 DEF Raised, FrameOK, FrameT, PutIn
<1>p. MayBe(Top, "raised")
  BY DEF Phases, MayBe
<1>q. \A a \in Nat : PutOK(Top, "raised", Top.pc, a, err, Top.fins)
  BY <1>1, <1>2, <1>p, PhaseChanges
<1>5. /\ FrameOK(Raised) /\ Kept(Top, Raised) /\ Raised.phase = "raised"
      /\ Raised.pc = Top.pc /\ Raised.cause = err /\ Raised.fins = Top.fins
  BY <1>2, <1>3, <1>q DEF PutOK
<1>6. ASSUME NEW a \in Nat, NEW g, g = [Raised EXCEPT !.attempt = a]
      PROVE  /\ FrameOK(g) /\ Kept(Top, g) /\ g.phase = "raised"
             /\ g.pc = Top.pc /\ g.cause = err /\ g.fins = Top.fins
  <2>1. g = PutIn(Top, "raised", Top.pc, a, err, Top.fins)
    BY <1>4, <1>6
  <2> QED BY <2>1, <1>q DEF PutOK
<1> QED BY <1>5, <1>6

\* A handler that ends in RAISE.
LEMMA RaisedStep ==
  ASSUME TypeOK, stack # <<>>, mode = "raise", NEW fr, SetTop(fr),
         fr = Raised \/ \E a \in Nat : fr = [Raised EXCEPT !.attempt = a],
         TxsOK', Len(txs') = Len(txs), err' \in Errors, UNCHANGED <<mode, committed, left, fails>>
  PROVE  /\ TypeOK' /\ TopOnly /\ mode' = "raise"
         /\ stack'[Len(stack)].phase = "raised" /\ stack'[Len(stack)].pc = Top.pc
         /\ stack'[Len(stack)].cause = err /\ stack'[Len(stack)].fins = Top.fins
<1>1. /\ FrameOK(fr) /\ Kept(Top, fr) /\ fr.phase = "raised"
      /\ fr.pc = Top.pc /\ fr.cause = err /\ fr.fins = Top.fins
  BY RaisedIs
<1>2. TopOnly /\ stack'[Len(stack)] = fr /\ Shape(stack', Len(txs))
  BY <1>1, TopOnlyIs
<1>3. SessionOK'
  BY DEF TypeOK, SessionOK
<1>4. Shape(stack, Len(txs))'
  BY <1>2
<1> QED BY <1>1, <1>2, <1>3, <1>4 DEF TypeOK
LEMMA TransactionHandlerStep ==
  ASSUME TypeOK, TransactionHandler
  PROVE  /\ TypeOK' /\ TopOnly /\ mode = "raise" /\ mode' = "raise" /\ Top.kind = "tx"
         /\ Top.phase = "body" /\ stack'[Len(stack)].fins = Top.fins
         /\ stack'[Len(stack)].phase = "raised" /\ stack'[Len(stack)].pc = Top.pc
<1> DEFINE name == <<"pell_sp", Top.depth>>
<1>1. /\ stack # <<>> /\ mode = "raise" /\ Top.kind = "tx" /\ Top.phase = "body" /\ SetTop(Raised)
      /\ UNCHANGED <<mode, committed, left, fails>>
  BY DEF TransactionHandler, Raising
<1>2. err \in Errors \cup {NoError} /\ TxOK(Tx)
  BY TopIs DEF TypeOK, SessionOK
<1>3. (TxsOK' /\ Len(txs') = Len(txs)) /\ (err' = err \/ err' = "ORA-01086")
  <2>1. CASE UNCHANGED txs
    <3>1. err' = err \/ err' = "ORA-01086"
      BY DEF TransactionHandler
    <3> QED BY <2>1, <3>1, TxsSame
  <2>2. CASE SetTx(RolledBack(name)) /\ Saved(name) # {} /\ err' = err
    BY <1>2, <2>2, TxRollback, TxStep
  <2>3. UNCHANGED txs \/ (SetTx(RolledBack(name)) /\ Saved(name) # {} /\ err' = err)
    BY DEF TransactionHandler
  <2> QED BY <2>1, <2>2, <2>3
<1>4. TopOnly /\ stack'[Len(stack)] = Raised /\ Shape(stack', Len(txs))
  BY <1>1, RaisedIs, TopOnlyIs
<1>5. Raised.phase = "raised" /\ Raised.pc = Top.pc /\ Raised.fins = Top.fins
  BY <1>1, RaisedIs
<1>6. SessionOK'
  BY <1>1, <1>2, <1>3 DEF TypeOK, SessionOK, Errors
<1>7. Shape(stack, Len(txs))'
  BY <1>3, <1>4
<1> QED BY <1>1, <1>3, <1>4, <1>5, <1>6, <1>7 DEF TypeOK

\* Another attempt.
Retried == [Top EXCEPT !.pc = 1, !.attempt = Counted]

LEMMA RetriedIs ==
  ASSUME TypeOK, stack # <<>>
  PROVE  /\ FrameOK(Retried) /\ Kept(Top, Retried) /\ Retried.phase = Top.phase /\ Retried.pc = 1
         /\ Retried.cause = Top.cause /\ Retried.fins = Top.fins
<1>1. FrameOK(Top)
  BY TopIs
<1>2. Top.attempt + 1 \in Nat /\ Top.cause \in Errors \cup {NoError} /\ Top.fins \in Nat
      /\ 1 \in Nat \ {0} /\ Top.phase \in Phases
  BY <1>1, FieldsOf
<1>3. Retried = PutIn(Top, Top.phase, 1, Counted, Top.cause, Top.fins)
  BY <1>1 DEF Retried, FrameOK, FrameT, PutIn
<1>4. MayBe(Top, Top.phase)
  BY <1>1, <1>2 DEF MayBe, FrameOK
<1>5. PutOK(Top, Top.phase, 1, Counted, Top.cause, Top.fins)
  BY <1>1, <1>2, <1>4, PhaseChanges DEF Counted
<1> QED BY <1>3, <1>5 DEF PutOK

LEMMA RetryHandlerStep ==
  ASSUME TypeOK, RetryHandler
  PROVE  /\ TypeOK' /\ TopOnly /\ mode = "raise"
         /\ Top.kind = "fn" /\ Top.phase = "body" /\ Def[Top.fn].retry > 0
         /\ UNCHANGED committed /\ stack'[Len(stack)].fins = Top.fins
         /\ \/ /\ mode' = "raise"
               /\ stack'[Len(stack)].phase = "raised" /\ stack'[Len(stack)].pc = Top.pc
            \/ /\ mode' = "run" /\ Saved(Attempt) # {} /\ SetTx(RolledBack(Attempt))
               /\ stack'[Len(stack)].phase = "body" /\ stack'[Len(stack)].pc = 1
<1>1. /\ stack # <<>> /\ mode = "raise" /\ Top.kind = "fn" /\ Top.phase = "body"
      /\ Def[Top.fn].retry > 0 /\ UNCHANGED <<committed, left, fails>>
  BY DEF RetryHandler, Raising
<1>2. err \in Errors \cup {NoError} /\ TxOK(Tx)
  BY TopIs DEF TypeOK, SessionOK
<1> DEFINE fr == [Raised EXCEPT !.attempt = IF err = "panic" THEN @ ELSE Counted]
<1>3. /\ FrameOK(fr) /\ Kept(Top, fr) /\ fr.phase = "raised" /\ fr.pc = Top.pc
      /\ fr.fins = Top.fins
  <2> DEFINE a == IF err = "panic" THEN Raised.attempt ELSE Counted
  <2>1. a \in Nat
    <3>1. FrameOK(Raised) /\ FrameOK(Top)
      BY <1>1, RaisedIs, TopIs
    <3>2. Raised.attempt \in Nat /\ Top.attempt \in Nat
      BY <3>1, FieldsOf
    <3> QED BY <3>2 DEF Counted
  <2>2. fr = [Raised EXCEPT !.attempt = a]
    OBVIOUS
  <2> HIDE DEF a, fr
  <2> QED BY <1>1, <2>1, <2>2, RaisedIs
<1>4. \/ SetTop(fr) /\ mode' = "raise" /\ UNCHANGED txs /\ err' \in {err, "ORA-01086"}
      \/ /\ SetTop(fr) /\ mode' = "raise" /\ Saved(Attempt) # {} /\ SetTx(RolledBack(Attempt))
         /\ err' = err
      \/ /\ SetTop(Retried) /\ mode' = "run" /\ Saved(Attempt) # {} /\ SetTx(RolledBack(Attempt))
         /\ err' = NoError
  BY <1>1 DEF RetryHandler, UndoAttempt, Retried
<1> HIDE DEF fr
<1>5. (TxsOK' /\ Len(txs') = Len(txs)) /\ err' \in Errors \cup {NoError}
  <2>1. CASE UNCHANGED txs /\ err' \in {err, "ORA-01086"}
    BY <1>2, <2>1, TxsSame DEF Errors
  <2>2. CASE SetTx(RolledBack(Attempt)) /\ Saved(Attempt) # {} /\ err' \in {err, NoError}
    BY <1>2, <2>2, TxRollback, TxStep
  <2> QED BY <1>4, <2>1, <2>2
<1>6. SessionOK'
  BY <1>1, <1>4, <1>5 DEF TypeOK, SessionOK, Modes
<1>7. ASSUME NEW g, FrameOK(g), Kept(Top, g), SetTop(g)
      PROVE  TypeOK' /\ TopOnly /\ stack'[Len(stack)] = g
  <2>1. TopOnly /\ stack'[Len(stack)] = g /\ Shape(stack', Len(txs))
    BY <1>1, <1>7, TopOnlyIs
  <2>2. Shape(stack, Len(txs))'
    BY <1>5, <2>1
  <2> QED BY <1>5, <1>6, <2>1, <2>2 DEF TypeOK
<1>8. CASE SetTop(fr) /\ mode' = "raise"
  BY <1>1, <1>3, <1>7, <1>8
<1>9. CASE SetTop(Retried) /\ mode' = "run" /\ Saved(Attempt) # {} /\ SetTx(RolledBack(Attempt))
  <2>1. FrameOK(Retried) /\ Kept(Top, Retried) /\ Retried.phase = "body" /\ Retried.pc = 1
        /\ Retried.fins = Top.fins
    BY <1>1, RetriedIs
  <2>2. TypeOK' /\ TopOnly /\ stack'[Len(stack)] = Retried
    BY <1>7, <1>9, <2>1
  <2> QED BY <1>1, <1>9, <2>1, <2>2
<1> QED BY <1>4, <1>8, <1>9

LEMMA AutonomousHandlerStep ==
  ASSUME TypeOK, AutonomousHandler
  PROVE  /\ TypeOK' /\ TopOnly /\ mode = "raise" /\ mode' = "raise" /\ UNCHANGED committed
         /\ Top.kind = "fn" /\ Top.phase = "body" /\ Def[Top.fn].finally = NoBlock
         /\ Def[Top.fn].autonomous /\ stack'[Len(stack)].fins = Top.fins
         /\ stack'[Len(stack)].phase = "raised" /\ stack'[Len(stack)].pc = Top.pc
         /\ Len(txs') = Len(txs) /\ txs'[Len(txs)] = NewTx
<1>1. /\ stack # <<>> /\ mode = "raise" /\ Top.kind = "fn" /\ Top.phase = "body"
      /\ Def[Top.fn].autonomous /\ Def[Top.fn].finally = NoBlock
      /\ SetTop(Raised) /\ SetTx(NewTx) /\ UNCHANGED <<mode, err, committed, left, fails>>
  BY DEF AutonomousHandler, Raising
<1>3. TxsOK' /\ Len(txs') = Len(txs) /\ txs'[Len(txs)] = NewTx
  BY <1>1, NewTxOK, TxStep
<1>4. TopOnly /\ stack'[Len(stack)] = Raised /\ Shape(stack', Len(txs))
  BY <1>1, RaisedIs, TopOnlyIs
<1>5. Raised.phase = "raised" /\ Raised.pc = Top.pc /\ Raised.fins = Top.fins
  BY <1>1, RaisedIs
<1>6. SessionOK'
  BY <1>1 DEF TypeOK, SessionOK
<1>7. Shape(stack, Len(txs))'
  BY <1>3, <1>4
<1> QED BY <1>1, <1>3, <1>4, <1>5, <1>6, <1>7 DEF TypeOK

LEMMA ReraiseStep ==
  ASSUME TypeOK, Reraise
  PROVE  /\ TypeOK' /\ TopOnly /\ mode = "run" /\ mode' = "raise" /\ err' = Top.cause
         /\ Top.phase = "cleanup" /\ Top.kind = "fn" /\ Def[Top.fn].finally # NoBlock
         /\ stack'[Len(stack)].phase = "raised" /\ stack'[Len(stack)].pc = Top.pc
         /\ stack'[Len(stack)].cause = Top.cause /\ stack'[Len(stack)].fins = Top.fins
         /\ UNCHANGED <<committed, txs>>
<1> DEFINE fr == [Top EXCEPT !.phase = "raised"]
<1>1. /\ stack # <<>> /\ mode = "run" /\ Top.phase = "cleanup" /\ SetTop(fr)
      /\ mode' = "raise" /\ err' = Top.cause /\ UNCHANGED <<txs, committed, left, fails>>
  BY DEF Reraise
<1>2. FrameOK(Top)
  BY <1>1, TopIs
<1>3. Top.attempt \in Nat /\ Top.cause \in Errors \cup {NoError} /\ Top.fins \in Nat
      /\ Top.pc \in Nat \ {0}
  BY <1>2, FieldsOf
<1>4. fr = PutIn(Top, "raised", Top.pc, Top.attempt, Top.cause, Top.fins)
  BY <1>2 DEF FrameOK, FrameT, PutIn
<1> HIDE DEF fr
<1>5. PutOK(Top, "raised", Top.pc, Top.attempt, Top.cause, Top.fins)
  <2>1. MayBe(Top, "raised")
    BY DEF MayBe, Phases
  <2> QED BY <1>2, <1>3, <2>1, PhaseChanges
<1>6. /\ FrameOK(fr) /\ Kept(Top, fr) /\ fr.phase = "raised" /\ fr.pc = Top.pc
      /\ fr.cause = Top.cause /\ fr.fins = Top.fins
  BY <1>4, <1>5 DEF PutOK
<1>7. TopOnly /\ stack'[Len(stack)] = fr /\ Shape(stack', Len(txs))
  BY <1>1, <1>6, TopOnlyIs
<1>8. SessionOK'
  BY <1>1, <1>3 DEF TypeOK, SessionOK, Modes
<1>9. TxsOK' /\ Shape(stack, Len(txs))'
  BY <1>1, <1>7, TxsSame
<1>10. Top.kind = "fn" /\ Def[Top.fn].finally # NoBlock
  BY <1>1, <1>2 DEF FrameOK
<1> QED BY <1>1, <1>6, <1>7, <1>8, <1>9, <1>10 DEF TypeOK
LEMMA FinallyHandlerStep ==
  ASSUME TypeOK, FinallyHandler
  PROVE  /\ TypeOK' /\ stack # <<>> /\ mode = "raise" /\ mode' = "run"
         /\ Top.kind = "fn" /\ Top.phase = "body" /\ Def[Top.fn].finally # NoBlock
         /\ stack' \in Seq(FrameT) /\ Len(stack') = Len(stack) + 1
         /\ \A i \in 1..Len(stack) : i # Len(stack) => stack'[i] = stack[i]
         /\ Kept(Top, stack'[Len(stack)])
         /\ stack'[Len(stack)].phase = "cleanup" /\ stack'[Len(stack)].pc = Top.pc
         /\ stack'[Len(stack)].fins = Top.fins + 1
         /\ stack'[Len(stack) + 1] = Frame("finally", Top.fn, Def[Top.fn].finally, 0)
         /\ UNCHANGED <<txs, committed, left>>
<1> DEFINE fr == [Top EXCEPT !.phase = "cleanup", !.cause = err, !.fins = @ + 1]
           callee == Frame("finally", Top.fn, Def[Top.fn].finally, 0)
<1>1. /\ stack # <<>> /\ mode = "raise" /\ Top.kind = "fn" /\ Top.phase = "body"
      /\ Def[Top.fn].finally # NoBlock /\ Push(fr, callee) /\ mode' = "run" /\ err' = NoError
      /\ UNCHANGED <<txs, committed, left, fails>>
  BY DEF FinallyHandler, Raising
<1>2. FrameOK(Top) /\ err \in Errors \cup {NoError}
  BY <1>1, TopIs DEF TypeOK, SessionOK
<1>3. Top.attempt \in Nat /\ Top.fins + 1 \in Nat /\ Top.pc \in Nat \ {0} /\ Top.fn \in Fns
  BY <1>2, FieldsOf
<1>4. fr = PutIn(Top, "cleanup", Top.pc, Top.attempt, err, Top.fins + 1)
  BY <1>2 DEF FrameOK, FrameT, PutIn
<1>5. PutOK(Top, "cleanup", Top.pc, Top.attempt, err, Top.fins + 1)
  <2>1. MayBe(Top, "cleanup")
    BY <1>1 DEF MayBe, Phases
  <2> QED BY <1>2, <1>3, <2>1, PhaseChanges
<1> HIDE DEF fr
<1>6. /\ FrameOK(fr) /\ Kept(Top, fr) /\ fr.phase = "cleanup" /\ fr.pc = Top.pc
      /\ fr.fins = Top.fins + 1
  BY <1>4, <1>5 DEF PutOK
<1>7. Def[Top.fn].finally \in DOMAIN Block
  BY <1>1, <1>3, DefAssumption
<1>8. FrameOK(callee) /\ callee.kind = "finally" /\ callee.fn = Top.fn /\ callee.level = Len(txs)
  BY <1>3, <1>7, FrameIs DEF Kinds
<1> HIDE DEF callee
<1>9. ~OwnTx(callee) /\ Len(txs) \in Nat /\ Like(Top, fr)
  BY <1>6, <1>8 DEF OwnTx, TypeOK, TxsOK, Kept
<1>10. callee.level = Len(txs) + (IF OwnTx(callee) THEN 1 ELSE 0)
  BY <1>8, <1>9
<1>11. /\ stack' \in Seq(FrameT) /\ Len(stack') = Len(stack) + 1
       /\ stack'[Len(stack)] = fr /\ stack'[Len(stack) + 1] = callee
       /\ \A i \in 1..Len(stack) : i # Len(stack) => stack'[i] = stack[i]
       /\ Shape(stack', callee.level)
  BY <1>1, <1>6, <1>8, <1>9, <1>10, PushStep
<1>12. SessionOK'
  BY <1>1 DEF TypeOK, SessionOK, Modes
<1>13. TxsOK' /\ Shape(stack, Len(txs))'
  BY <1>1, <1>8, <1>11, TxsSame
<1>14. TypeOK'
  BY <1>12, <1>13 DEF TypeOK
<1> QED BY <1>1, <1>6, <1>11, <1>14 DEF callee

\* The ways a block is left.
Leaves(how) ==
  /\ stack # <<>> /\ LeaveWith(how)
  /\ how = "end" => /\ mode = "run" /\ Top.pc > Len(Code(Top))
                    /\ Top.phase = "after" \/ Top.kind # "fn" \/ Def[Top.fn].finally = NoBlock
  /\ how = "return" => mode = "return"
  /\ how = "raise" => /\ mode = "raise"
                      /\ \/ Top.phase # "body" \/ Top.kind \in {"if", "finally"}
                         \/ /\ Top.kind = "fn" /\ Def[Top.fn].retry = 0
                            /\ Def[Top.fn].finally = NoBlock /\ ~Def[Top.fn].autonomous

LEMMA LeavesStep ==
  ASSUME TypeOK, FallOut \/ Returning \/ Unwind
  PROVE  TypeOK' /\ \E how \in Hows : Leaves(how)
<1>1. \E how \in Hows : Leaves(how)
  <2>1. FallOut => Leaves("end")
    BY DEF FallOut, AtEnd, Leaves
  <2>2. Returning => Leaves("return")
    BY DEF Returning, Leaves
  <2>3. Unwind => Leaves("raise")
    BY DEF Unwind, Leaves
  <2> QED BY <2>1, <2>2, <2>3 DEF Hows
<1>2. PICK how \in Hows : Leaves(how)
  BY <1>1
<1> QED BY <1>1, <1>2, LeaveStep DEF Leaves

LEMMA TypeInit == Init => TypeOK
<1> SUFFICES ASSUME Init PROVE TypeOK
  OBVIOUS
<1>1. PICK f \in Mains :
        /\ stack = <<[kind |-> "fn", fn |-> f, blk |-> Def[f].body, depth |-> 0, pc |-> 1,
                      phase |-> "body", flag |-> FALSE, attempt |-> 0, cause |-> NoError,
                      fins |-> 0, level |-> 1, work |-> <<Before>>, committed |-> <<>>]>>
        /\ ~Def[f].autonomous
  BY DEF Init
<1> DEFINE fr == [kind |-> "fn", fn |-> f, blk |-> Def[f].body, depth |-> 0, pc |-> 1,
                  phase |-> "body", flag |-> FALSE, attempt |-> 0, cause |-> NoError,
                  fins |-> 0, level |-> 1, work |-> <<Before>>, committed |-> <<>>]
<1>2. f \in Fns /\ Def[f].body \in DOMAIN Block
  BY MainsAssumption, DefAssumption
<1>3. <<Before>> \in Seq(Row) /\ <<>> \in Seq(Row)
  BY DEF Row
<1>4. fr \in FrameT
  BY <1>2, <1>3 DEF FrameT, Kinds, Phases
<1>5. fr.kind = "fn" /\ fr.fn = f /\ fr.blk = Def[f].body /\ fr.depth = 0 /\ fr.pc = 1
      /\ fr.phase = "body" /\ fr.level = 1
  OBVIOUS
<1>6. stack = <<fr>>
  BY <1>1
<1> HIDE DEF fr
<1>7. FrameOK(fr) /\ ~OwnTx(fr)
  BY <1>1, <1>4, <1>5 DEF FrameOK, OwnTx
<1>8. stack \in Seq(FrameT) /\ Len(stack) = 1 /\ stack[1] = fr /\ stack # <<>>
  BY <1>4, <1>6
<1>9. Shape(stack, 1)
  <2>1. \A i \in 1..Len(stack) : FrameOK(stack[i])
    BY <1>7, <1>8
  <2>2. \A i \in 1..Len(stack) : \A o \in 1..i : o = i
    BY <1>8
  <2>3. \A i \in 2..Len(stack) : FALSE
    BY <1>8
  <2>4. stack[1].kind = "fn" /\ stack[1].level = 1 /\ ~OwnTx(stack[1]) /\ stack[Len(stack)].level = 1
    BY <1>5, <1>7, <1>8
  <2>5. \A i \in 1..Len(stack) : \A o \in 1..i : Owns(stack, o, i) => stack[i].fn = stack[o].fn
    BY <2>2
  <2> QED BY <1>8, <2>1, <2>3, <2>4, <2>5 DEF Shape
<1>10. TxsOK /\ Len(txs) = 1
  <2> DEFINE t == [work |-> <<Before>>, saves |-> <<>>]
  <2>1. t \in TxT /\ t.saves = <<>>
    BY <1>3 DEF TxT
  <2>2. txs = <<t>>
    BY DEF Init
  <2> HIDE DEF t
  <2>3. TxOK(t)
    BY <2>1 DEF TxOK
  <2>4. txs \in Seq(TxT) /\ Len(txs) = 1 /\ txs[1] = t /\ txs # <<>>
    BY <2>1, <2>2
  <2> QED BY <2>3, <2>4 DEF TxsOK
<1>11. SessionOK
  BY <1>3 DEF Init, SessionOK, Modes
<1> QED BY <1>9, <1>10, <1>11 DEF TypeOK

LEMMA TypeStep == TypeOK /\ [Next]_vars => TypeOK'
<1> SUFFICES ASSUME TypeOK, [Next]_vars PROVE TypeOK'
  OBVIOUS
<1>1. CASE Statement
  BY <1>1, StatementStep
<1>2. CASE AfterBody
  BY <1>2, AfterBodyStep
<1>3. CASE FallOut \/ Returning \/ Unwind
  BY <1>3, LeavesStep
<1>4. CASE TransactionHandler
  BY <1>4, TransactionHandlerStep
<1>5. CASE RetryHandler
  BY <1>5, RetryHandlerStep
<1>6. CASE FinallyHandler
  BY <1>6, FinallyHandlerStep
<1>7. CASE Reraise
  BY <1>7, ReraiseStep
<1>8. CASE AutonomousHandler
  BY <1>8, AutonomousHandlerStep
<1>9. CASE UNCHANGED vars
  BY <1>9 DEF vars, TypeOK, SessionOK, TxsOK
<1> QED BY <1>1, <1>2, <1>3, <1>4, <1>5, <1>6, <1>7, <1>8, <1>9 DEF Next, Handler, Finished

\* The stack of blocks, the transactions with their savepoints and the record of the
\* block left last always have their types: each block is entered as its kind has it,
\* there is one transaction per autonomous function that is running, and savepoints are
\* of work there is, in order, each name set once.
THEOREM TypeCorrect == Spec => []TypeOK
<1>1. Init => TypeOK
  BY TypeInit
<1>2. TypeOK /\ [Next]_vars => TypeOK'
  BY TypeStep
<1> QED BY <1>1, <1>2, PTL DEF Spec
----------------------------------------------------------------------------
(* Finally blocks.                                                          *)

Guarded(fr) == fr.kind = "fn" /\ Def[fr.fn].finally # NoBlock

\* The block has called its function's finally block.
Ran(fr) == \E p \in 1..(fr.pc - 1) : p \in 1..Len(Code(fr)) /\ Code(fr)[p].op = "finally"

\* Every owner of block i has run its finally block.
OwnerRan(st, i) == \A o \in 1..i : Owns(st, o, i) => st[o].fins > 0

RanInv(st) == \A i \in 1..Len(st) : Ran(st[i]) => OwnerRan(st, i)

\* A return is past the finally block of its function.
ReturnInv(st, m) ==
  m = "return" /\ st # <<>> /\ Def[st[Len(st)].fn].finally # NoBlock => OwnerRan(st, Len(st))

\* What the phase of a function with a finally block says about it: the handler is
\* running the block, or has run it and raises again what it caught.
PhaseIs(st, m, e, i) ==
  /\ st[i].phase \in {"body", "after"} => st[i].cause = NoError
  /\ st[i].phase = "after" /\ st[i].pc = 1 => i = Len(st) /\ m = "run"
  /\ st[i].phase = "cleanup" =>
       /\ st[i].fins > 0
       /\ i = Len(st) => m = "run"
       /\ i # Len(st) => st[i + 1].kind = "finally"
  /\ st[i].phase = "raised" => st[i].fins > 0 /\ i = Len(st) /\ m = "raise" /\ e = st[i].cause
PhaseInv(st, m, e) == \A i \in 1..Len(st) : Guarded(st[i]) => PhaseIs(st, m, e, i)

FinallyInv ==
  RanInv(stack) /\ ReturnInv(stack, mode) /\ PhaseInv(stack, mode, err) /\ FinallyRuns

LEMMA CodeSame ==
  ASSUME NEW fr, NEW g
  PROVE  /\ Alike(fr, g) => Code(g) = Code(fr)
         /\ Kept(fr, g) /\ fr.phase # "after" /\ g.phase # "after" => Code(g) = Code(fr)
BY DEF Alike, Kept, Like, Code

\* The blocks below the innermost one keep their owners.
LEMMA OwnersSame ==
  ASSUME NEW st, NEW su, NEW n \in Nat,
         \A i \in 1..n : su[i].kind = st[i].kind /\ su[i].fins >= st[i].fins
                         /\ su[i].fins \in Nat /\ st[i].fins \in Nat
  PROVE  \A i \in 1..n : OwnerRan(st, i) => OwnerRan(su, i)
<1> SUFFICES ASSUME NEW i \in 1..n, OwnerRan(st, i), NEW o \in 1..i, Owns(su, o, i)
             PROVE  su[o].fins > 0
  BY DEF OwnerRan
<1>1. o \in 1..n /\ \A k \in (o + 1)..i : k \in 1..n
  OBVIOUS
<1>2. Owns(st, o, i)
  BY <1>1 DEF Owns
<1>3. st[o].fins > 0
  BY <1>2 DEF OwnerRan
<1> QED BY <1>1, <1>3

\* A function is the owner of itself only.
LEMMA OwnsItself ==
  ASSUME NEW st, NEW i \in Nat \ {0}, st[i].kind = "fn"
  PROVE  /\ Owns(st, i, i)
         /\ OwnerRan(st, i) <=> st[i].fins > 0
<1>1. Owns(st, i, i)
  BY DEF Owns
<1>2. ASSUME NEW o \in 1..i, Owns(st, o, i) PROVE o = i
  <2>1. o # i => i \in (o + 1)..i
    OBVIOUS
  <2> QED BY <1>2, <2>1 DEF Owns
<1>3. i \in 1..i
  OBVIOUS
<1> QED BY <1>1, <1>2, <1>3 DEF OwnerRan

\* The innermost block has one owner.
LEMMA OneOwner ==
  ASSUME NEW n, Shape(stack, n), stack # <<>>, NEW o \in 1..Len(stack), Owns(stack, o, Len(stack))
  PROVE  o = FnFrame
<1>1. FnFrame \in 1..Len(stack) /\ Owns(stack, FnFrame, Len(stack)) /\ Len(stack) \in Nat
  BY OwnerOfTop DEF Shape
<1>2. o < FnFrame => FnFrame \in (o + 1)..Len(stack)
  BY <1>1
<1>3. FnFrame < o => o \in (FnFrame + 1)..Len(stack)
  BY <1>1
<1> HIDE DEF FnFrame
<1> QED BY <1>1, <1>2, <1>3 DEF Owns

\* Executing a statement keeps the record of the finally blocks that ran.
LEMMA RanWent ==
  ASSUME TypeOK, TypeOK', Went, RanInv(stack)
  PROVE  RanInv(stack')
<1> DEFINE n == Len(stack)
<1>1. /\ n \in Nat /\ n \in 1..n /\ stack # <<>> /\ Len(stack') \in {n, n + 1}
      /\ \A i \in 1..n : FrameOK(stack[i]) /\ i \in 1..Len(stack')
      /\ \A i \in 1..Len(stack') : FrameOK(stack'[i])
  BY TopIs DEF Went, TypeOK, Shape
<1>2. ASSUME NEW i \in 1..n
      PROVE  /\ stack'[i].kind = stack[i].kind /\ Code(stack'[i]) = Code(stack[i])
             /\ stack'[i].fins \in Nat /\ stack[i].fins \in Nat /\ stack[i].pc \in Nat
             /\ stack'[i].fins >= stack[i].fins
             /\ stack'[i].pc = IF i = n THEN stack[i].pc + 1 ELSE stack[i].pc
  <2>1. Alike(stack[i], stack'[i])
    BY DEF Went
  <2>2. stack'[i].fins \in Nat /\ stack[i].fins \in Nat /\ stack[i].pc \in Nat
    BY <1>1, FieldsOf
  <2>3. stack'[i].fins = stack[i].fins + 1 \/ stack'[i].fins = stack[i].fins
    BY DEF Went
  <2>4. stack'[i].pc = IF i = n THEN stack[i].pc + 1 ELSE stack[i].pc
    BY DEF Went
  <2> QED BY <2>1, <2>2, <2>3, <2>4, CodeSame DEF Alike, Like
<1>3. \A i \in 1..n : OwnerRan(stack, i) => OwnerRan(stack', i)
  BY <1>1, <1>2, OwnersSame
<1>4. ASSUME NEW i \in 1..Len(stack'), Ran(stack'[i]) PROVE OwnerRan(stack', i)
  <2>1. CASE i \in 1..n /\ Ran(stack[i])
    BY <1>3, <2>1 DEF RanInv
  <2>2. CASE i \in 1..n /\ ~Ran(stack[i])
    <3>1. PICK p \in 1..(stack'[i].pc - 1) :
             p \in 1..Len(Code(stack'[i])) /\ Code(stack'[i])[p].op = "finally"
      BY <1>4 DEF Ran
    <3>2. i = n
      <4>1. CASE i # n
        BY <1>2, <2>2, <3>1, <4>1 DEF Ran
      <4> QED BY <4>1
    <3>3. p \in 1..stack[n].pc /\ ~(p \in 1..(stack[n].pc - 1))
      <4>1. stack'[n].pc = stack[n].pc + 1 /\ Code(stack'[n]) = Code(stack[n]) /\ stack[n].pc \in Nat
        BY <1>1, <1>2
      <4>2. p \in 1..stack[n].pc
        BY <3>1, <3>2, <4>1
      <4>3. p \in 1..Len(Code(stack[n])) /\ Code(stack[n])[p].op = "finally" /\ ~Ran(stack[n])
        BY <2>2, <3>1, <3>2, <4>1
      <4> QED BY <4>2, <4>3 DEF Ran
    <3>4. p = stack[n].pc /\ Code(stack[n])[stack[n].pc].op = "finally"
      BY <1>2, <2>2, <3>1, <3>2, <3>3
    <3>5. FnFrame \in 1..n /\ stack'[FnFrame].fins = stack[FnFrame].fins + 1
      <4>1. FnFrame \in 1..n
        BY <1>1, OwnerOfTop DEF TypeOK
      <4> HIDE DEF FnFrame
      <4> QED BY <3>4, <4>1 DEF Went, Top
    <3>6. stack'[FnFrame].fins > 0
      BY <1>2, <3>5
    <3>7. ASSUME NEW o \in 1..n, Owns(stack', o, n) PROVE stack'[o].fins > 0
      <4>1. Owns(stack, o, n)
        <5>1. \A k \in (o + 1)..n : k \in 1..n
          BY <1>1
        <5> QED BY <1>2, <3>7, <5>1 DEF Owns
      <4>2. o = FnFrame
        BY <1>1, <4>1, OneOwner DEF TypeOK
      <4> QED BY <3>6, <4>2
    <3> QED BY <3>2, <3>7 DEF OwnerRan
  <2>3. CASE i \notin 1..n
    <3>1. i = n + 1 /\ Len(stack') = n + 1
      BY <1>1, <2>3
    <3>2. stack'[i].pc = 1
      BY <3>1 DEF Went, Fresh
    <3> QED BY <1>4, <3>2 DEF Ran
  <2> QED BY <2>1, <2>2, <2>3
<1> QED BY <1>4 DEF RanInv
LEMMA FinallyWent ==
  ASSUME TypeOK, TypeOK', Went, FinallyInv
  PROVE  FinallyInv'
<1> DEFINE n == Len(stack)
<1>1. /\ n \in Nat /\ n \in 1..n /\ stack # <<>> /\ Len(stack') \in {n, n + 1}
      /\ mode = "run" /\ mode' = "run" /\ left' = left
      /\ stack[n].phase \in {"body", "after"}
      /\ \A i \in 1..n : FrameOK(stack[i]) /\ Alike(stack[i], stack'[i])
                         /\ stack'[i].pc = IF i = n THEN stack[i].pc + 1 ELSE stack[i].pc
      /\ \A i \in 1..Len(stack') : FrameOK(stack'[i])
  BY TopIs DEF Went, TypeOK, Shape, Top
<1>2. RanInv(stack') /\ ReturnInv(stack', mode')
  BY <1>1, RanWent DEF FinallyInv, ReturnInv
<1>3. ASSUME NEW i \in 1..Len(stack'), Guarded(stack'[i]) PROVE PhaseIs(stack', mode', err', i)
  <2>1. CASE i \in 1..n
    <3>1. /\ Alike(stack[i], stack'[i]) /\ Guarded(stack[i]) /\ stack[i].pc \in Nat \ {0}
          /\ stack[i].fins \in Nat /\ stack'[i].fins \in Nat
      BY <1>1, <1>3, <2>1, FieldsOf DEF Guarded, Alike, Like
    <3>2. PhaseIs(stack, mode, err, i)
      BY <2>1, <3>1 DEF FinallyInv, PhaseInv
    <3>3. stack'[i].fins >= stack[i].fins
      <4>1. stack'[i].fins = stack[i].fins + 1 \/ stack'[i].fins = stack[i].fins
        BY <2>1 DEF Went
      <4> QED BY <3>1, <4>1
    <3>4. /\ stack'[i].phase = stack[i].phase /\ stack'[i].cause = stack[i].cause
          /\ stack'[i].pc = IF i = n THEN stack[i].pc + 1 ELSE stack[i].pc
      BY <1>1, <2>1, <3>1 DEF Alike
    <3>5. stack[i].phase = "cleanup" => i # n /\ i # Len(stack') /\ stack'[i].fins > 0
      BY <1>1, <2>1, <3>1, <3>2, <3>3 DEF PhaseIs
    <3>6. stack[i].phase = "cleanup" => stack'[i + 1].kind = "finally"
      <4>1. i # n => i + 1 \in 1..n
        BY <1>1, <2>1
      <4> QED BY <1>1, <3>2, <3>5, <4>1 DEF PhaseIs, Alike, Like
    <3>7. ~(stack[i].phase = "after" /\ stack'[i].pc = 1)
      BY <1>1, <3>1, <3>2, <3>4 DEF PhaseIs
    <3>8. stack[i].phase # "raised"
      BY <1>1, <3>2 DEF PhaseIs
    <3> QED BY <3>2, <3>4, <3>5, <3>6, <3>7, <3>8 DEF PhaseIs
  <2>2. CASE i \notin 1..n
    <3>1. i = n + 1 /\ Len(stack') = n + 1
      BY <1>1, <2>2
    <3>2. Fresh(stack'[i])
      BY <3>1 DEF Went
    <3> QED BY <3>2 DEF Fresh, PhaseIs
  <2> QED BY <2>1, <2>2
<1>4. PhaseInv(stack', mode', err')
  BY <1>3 DEF PhaseInv
<1>5. FinallyRuns'
  BY <1>1 DEF FinallyInv, FinallyRuns
<1> QED BY <1>2, <1>4, <1>5 DEF FinallyInv

LEMMA FinallyTurns ==
  ASSUME TypeOK, Turns, FinallyInv
  PROVE  FinallyInv'
<1>1. /\ stack # <<>> /\ stack' = stack /\ left' = left /\ stack[Len(stack)].phase = "body"
      /\ FrameOK(Top) /\ Len(stack) \in 1..Len(stack)
  BY TopIs DEF Turns, Top
<1>2. ASSUME mode' = "return" PROVE Def[Top.fn].finally # NoBlock => OwnerRan(stack, Len(stack))
  <2>1. Top.pc \in 1..Len(Code(Top)) /\ Code(Top)[Top.pc].op = "return"
    BY <1>2 DEF Turns
  <2>2. CleansUp(Code(Top), Top.fn) /\ Code(Top) \in Seq(Instr)
    BY <1>1, CodeIs DEF CodeOK, Top
  <2>3. ASSUME Def[Top.fn].finally # NoBlock PROVE Ran(Top)
    <3>1. PICK r \in 1..(Top.pc - 1) : Code(Top)[r].op = "finally"
      BY <2>1, <2>2, <2>3 DEF CleansUp
    <3>2. r \in 1..Len(Code(Top))
      BY <2>1, <2>2
    <3> QED BY <3>1, <3>2 DEF Ran
  <2> QED BY <1>1, <2>3 DEF FinallyInv, RanInv, Top
<1>3. ReturnInv(stack', mode')
  BY <1>1, <1>2 DEF ReturnInv, Top
<1>4. ASSUME NEW i \in 1..Len(stack), Guarded(stack[i]) PROVE PhaseIs(stack', mode', err', i)
  <2>1. PhaseIs(stack, mode, err, i)
    BY <1>4 DEF FinallyInv, PhaseInv
  <2> QED BY <1>1, <2>1 DEF PhaseIs
<1> QED BY <1>1, <1>3, <1>4 DEF FinallyInv, RanInv, PhaseInv, FinallyRuns

\* A handler, or the end of a body, that leaves the blocks below alone.
LEMMA FinallyTop ==
  ASSUME TypeOK, TypeOK', TopOnly, FinallyInv, mode' \in {"run", "raise"},
         \/ stack'[Len(stack)].pc = 1
         \/ /\ stack'[Len(stack)].pc = Top.pc /\ Top.phase # "after"
            /\ stack'[Len(stack)].phase # "after",
         Top.kind = "fn" => stack'[Len(stack)].fins >= Top.fins,
         Guarded(Top) => PhaseIs(stack', mode', err', Len(stack))
  PROVE  FinallyInv'
<1> DEFINE n == Len(stack)
<1>1. /\ n \in Nat /\ n \in 1..n /\ stack # <<>> /\ Len(stack') = n /\ left' = left
      /\ \A i \in 1..n : FrameOK(stack[i]) /\ FrameOK(stack'[i])
      /\ \A i \in 1..n : i # n => stack'[i] = stack[i]
      /\ Kept(stack[n], stack'[n])
  BY TopIs DEF TopOnly, TypeOK, Shape, Top
<1>2. ASSUME NEW i \in 1..n, Ran(stack'[i]) PROVE OwnerRan(stack', i)
  <2>1. Ran(stack[i])
    <3>1. CASE i = n
      <4>1. stack'[n].pc # 1
        BY <1>2, <3>1 DEF Ran
      <4>2. stack'[n].pc = stack[n].pc /\ Code(stack'[n]) = Code(stack[n])
        BY <1>1, <4>1, CodeSame DEF Top
      <4> QED BY <1>2, <3>1, <4>2 DEF Ran
    <3>2. CASE i # n
      BY <1>1, <1>2, <3>2
    <3> QED BY <3>1, <3>2
  <2>2. OwnerRan(stack, i)
    BY <2>1 DEF FinallyInv, RanInv
  <2>3. ASSUME NEW o \in 1..i, Owns(stack', o, i) PROVE stack'[o].fins > 0
    <3>1. o \in 1..n /\ \A k \in (o + 1)..i : k \in 1..n
      BY <1>1
    <3>2. \A k \in 1..n : stack'[k].kind = stack[k].kind
      BY <1>1 DEF Kept, Like
    <3>3. Owns(stack, o, i)
      BY <2>3, <3>1, <3>2 DEF Owns
    <3>4. stack[o].fins > 0 /\ stack[o].fins \in Nat /\ stack'[o].fins \in Nat
      BY <1>1, <2>2, <3>1, <3>3, FieldsOf DEF OwnerRan
    <3>5. o = n => stack[n].kind = "fn"
      BY <3>3 DEF Owns
    <3> QED BY <1>1, <3>1, <3>4, <3>5 DEF Top
  <2> QED BY <2>3 DEF OwnerRan
<1>3. RanInv(stack') /\ ReturnInv(stack', mode')
  BY <1>1, <1>2 DEF RanInv, ReturnInv
<1>4. ASSUME NEW i \in 1..n, Guarded(stack'[i]) PROVE PhaseIs(stack', mode', err', i)
  <2>1. CASE i = n
    BY <1>1, <1>4, <2>1 DEF Guarded, Kept, Like, Top
  <2>2. CASE i # n
    <3>1. stack'[i] = stack[i] /\ PhaseIs(stack, mode, err, i)
      BY <1>1, <1>4, <2>2 DEF FinallyInv, PhaseInv
    <3>2. i + 1 \in 1..n /\ \A k \in 1..n : stack'[k].kind = stack[k].kind
      BY <1>1, <2>2 DEF Kept, Like
    <3> QED BY <1>1, <2>2, <3>1, <3>2 DEF PhaseIs
  <2> QED BY <2>1, <2>2
<1>5. FinallyRuns'
  BY <1>1 DEF FinallyInv, FinallyRuns
<1> QED BY <1>1, <1>3, <1>4, <1>5 DEF FinallyInv, PhaseInv
LEMMA FinallyHandles ==
  ASSUME TypeOK, TypeOK', FinallyHandler, FinallyInv
  PROVE  FinallyInv'
<1> DEFINE n == Len(stack)
<1>1. /\ n \in Nat /\ n \in 1..n /\ stack # <<>> /\ Len(stack') = n + 1 /\ left' = left
      /\ mode' = "run" /\ Top.kind = "fn" /\ Top.phase = "body"
      /\ \A i \in 1..n : i # n => stack'[i] = stack[i]
      /\ Kept(stack[n], stack'[n]) /\ stack'[n].phase = "cleanup" /\ stack'[n].pc = stack[n].pc
      /\ stack'[n].fins = stack[n].fins + 1
      /\ stack'[n + 1] = Frame("finally", Top.fn, Def[Top.fn].finally, 0)
      /\ \A i \in 1..n : FrameOK(stack[i])
      /\ \A i \in 1..(n + 1) : FrameOK(stack'[i])
  <2>1. /\ stack # <<>> /\ Len(stack') = n + 1 /\ left' = left
        /\ mode' = "run" /\ Top.kind = "fn" /\ Top.phase = "body"
        /\ \A i \in 1..n : i # n => stack'[i] = stack[i]
        /\ Kept(Top, stack'[n]) /\ stack'[n].phase = "cleanup" /\ stack'[n].pc = Top.pc
        /\ stack'[n].fins = Top.fins + 1
        /\ stack'[n + 1] = Frame("finally", Top.fn, Def[Top.fn].finally, 0)
    BY FinallyHandlerStep
  <2>2. n \in Nat /\ n \in 1..n /\ \A i \in 1..n : FrameOK(stack[i])
    BY <2>1, TopIs DEF TypeOK, Shape
  <2>3. \A i \in 1..Len(stack') : FrameOK(stack'[i])
    BY DEF TypeOK, Shape
  <2> QED BY <2>1, <2>2, <2>3 DEF Top
<1>2. stack'[n].fins > 0 /\ stack'[n].kind = "fn" /\ stack[n].fins \in Nat
  <2>1. stack[n].fins \in Nat
    BY <1>1, FieldsOf
  <2> QED BY <1>1, <2>1 DEF Kept, Like, Top
<1>3. Fresh(stack'[n + 1]) /\ stack'[n + 1].kind = "finally"
  BY <1>1, FreshIs DEF Frame
<1>4. ASSUME NEW i \in 1..n
      PROVE  /\ stack'[i].kind = stack[i].kind /\ stack'[i].fins >= stack[i].fins
             /\ stack'[i].fins \in Nat /\ stack[i].fins \in Nat
  <2>1. FrameOK(stack[i]) /\ FrameOK(stack'[i])
    BY <1>1
  <2>2. stack'[i].fins \in Nat /\ stack[i].fins \in Nat
    BY <2>1, FieldsOf
  <2>3. CASE i = n
    <3>1. stack'[n].kind = stack[n].kind
      BY <1>1 DEF Kept, Like
    <3>2. stack'[n].fins = stack[n].fins + 1 /\ stack[n].fins \in Nat
      BY <1>1, <1>2
    <3> QED BY <2>2, <2>3, <3>1, <3>2
  <2>4. CASE i # n
    BY <1>1, <2>2, <2>4
  <2> QED BY <2>3, <2>4
<1>5. ASSUME NEW i \in 1..(n + 1), Ran(stack'[i]) PROVE OwnerRan(stack', i)
  <2>1. CASE i = n + 1
    BY <1>3, <1>5, <2>1 DEF Ran, Fresh
  <2>2. CASE i = n
    BY <1>1, <1>2, <2>2, OwnsItself
  <2>3. CASE i # n /\ i # n + 1
    <3>1. i \in 1..n /\ Ran(stack[i])
      BY <1>1, <1>5, <2>3
    <3>2. OwnerRan(stack, i)
      BY <3>1 DEF FinallyInv, RanInv
    <3> QED BY <1>1, <1>4, <3>1, <3>2, OwnersSame
  <2> QED BY <2>1, <2>2, <2>3
<1>6. ASSUME NEW i \in 1..(n + 1), Guarded(stack'[i]) PROVE PhaseIs(stack', mode', err', i)
  <2>1. CASE i = n + 1
    BY <1>3, <1>6, <2>1 DEF Guarded
  <2>2. CASE i = n
    BY <1>1, <1>2, <1>3, <2>2 DEF PhaseIs
  <2>3. CASE i # n /\ i # n + 1
    <3>1. i \in 1..n /\ stack'[i] = stack[i] /\ i + 1 \in 1..n
      BY <1>1, <2>3
    <3>2. PhaseIs(stack, mode, err, i)
      BY <1>6, <3>1 DEF FinallyInv, PhaseInv
    <3>3. stack'[i + 1].kind = stack[i + 1].kind
      BY <1>4, <3>1
    <3> QED BY <1>1, <2>3, <3>1, <3>2, <3>3 DEF PhaseIs
  <2> QED BY <2>1, <2>2, <2>3
<1>7. FinallyRuns'
  BY <1>1 DEF FinallyInv, FinallyRuns
<1>8. ReturnInv(stack', mode')
  BY <1>1 DEF ReturnInv
<1> QED BY <1>1, <1>5, <1>6, <1>7, <1>8 DEF FinallyInv, RanInv, PhaseInv

\* A function with a finally block that is left has run it, and its error is its own.
LEMMA FinallyLeft ==
  ASSUME TypeOK, FinallyInv, NEW how \in Hows, Leaves(how)
  PROVE  FinallyRuns'
<1> DEFINE n == Len(stack)
<1>1. /\ left'.kind = Top.kind /\ left'.fn = Top.fn /\ left'.fins = Top.fins
      /\ left'.cause = Top.cause /\ left'.how = how /\ left'.err = err
  BY DEF Leaves, LeaveWith
<1>2. stack # <<>> /\ n \in 1..n /\ n \in Nat \ {0} /\ FrameOK(Top) /\ Top = stack[n]
      /\ Top.pc \in Nat \ {0}
  BY TopIs, FieldsOf DEF Leaves, Top
<1> SUFFICES ASSUME Guarded(Top)
             PROVE  Top.fins > 0 /\ (Top.cause # NoError => how = "raise" /\ err = Top.cause)
  BY <1>1 DEF FinallyRuns, Guarded
<1>3. PhaseIs(stack, mode, err, n)
  BY <1>2 DEF FinallyInv, PhaseInv
<1>4. Ran(Top) => Top.fins > 0
  BY <1>2, OwnsItself DEF FinallyInv, RanInv, Guarded
<1>5. ASSUME Top.phase = "after", Top.pc > 1 PROVE Ran(Top)
  <2>1. Code(Top) = <<I("finally", NoArg)>>
    BY <1>5, CodeAfter
  <2>2. 1 \in 1..Len(Code(Top)) /\ Code(Top)[1].op = "finally"
    BY <2>1 DEF I
  <2>3. 1 \in 1..(Top.pc - 1)
    BY <1>2, <1>5
  <2> QED BY <2>2, <2>3 DEF Ran
<1>6. Top.phase \in Phases
  BY <1>2, FieldsOf
<1>7. CASE how = "end"
  <2>1. mode = "run" /\ Top.phase = "after" /\ Top.pc > Len(Code(Top))
    BY <1>7 DEF Leaves, Guarded
  <2>2. Len(Code(Top)) = 1
    BY <2>1, CodeAfter
  <2> QED BY <1>2, <1>3, <1>4, <1>5, <2>1, <2>2 DEF PhaseIs
<1>8. CASE how = "return"
  <2>1. mode = "return"
    BY <1>8 DEF Leaves
  <2>2. OwnerRan(stack, n)
    BY <1>2, <2>1 DEF FinallyInv, ReturnInv, Guarded
  <2>3. Top.fins > 0
    BY <1>2, <2>2, OwnsItself DEF Guarded
  <2>4. Top.phase # "cleanup" /\ Top.phase # "raised"
    BY <1>2, <1>3, <2>1 DEF PhaseIs
  <2> QED BY <1>2, <1>3, <1>6, <2>3, <2>4 DEF PhaseIs, Phases
<1>9. CASE how = "raise"
  <2>1. mode = "raise" /\ Top.phase # "body"
    BY <1>9 DEF Leaves, Guarded
  <2>2. CASE Top.phase = "after"
    BY <1>2, <1>3, <1>4, <1>5, <2>1, <2>2 DEF PhaseIs
  <2>3. CASE Top.phase = "cleanup"
    BY <1>2, <1>3, <2>1, <2>3 DEF PhaseIs
  <2>4. CASE Top.phase = "raised"
    BY <1>2, <1>3, <1>9, <2>4 DEF PhaseIs
  <2> QED BY <1>6, <2>1, <2>2, <2>3, <2>4 DEF Phases
<1> QED BY <1>7, <1>8, <1>9 DEF Hows

LEMMA FinallyLeaves ==
  ASSUME TypeOK, FinallyInv, NEW how \in Hows, Leaves(how)
  PROVE  FinallyInv'
<1> DEFINE n == Len(stack)
<1>1. /\ stack # <<>> /\ n \in 1..n /\ n \in Nat /\ Top = stack[n] /\ Len(stack') = n - 1
      /\ \A i \in 1..(n - 1) : stack'[i] = stack[i] /\ i \in 1..n
  <2>1. stack # <<>> /\ n \in 1..n /\ n \in Nat /\ Top = stack[n]
    BY TopIs DEF Leaves, Top
  <2> QED BY <2>1, LeaveStep DEF Leaves
<1>2. ASSUME NEW i \in 1..(n - 1)
      PROVE  OwnerRan(stack, i) => OwnerRan(stack', i)
  <2>1. \A o \in 1..i : o \in 1..(n - 1) /\ \A k \in (o + 1)..i : k \in 1..(n - 1)
    BY <1>1
  <2>2. \A o \in 1..i : Owns(stack', o, i) => Owns(stack, o, i)
    BY <1>1, <2>1 DEF Owns
  <2> QED BY <1>1, <2>1, <2>2 DEF OwnerRan
<1>3. RanInv(stack')
  BY <1>1, <1>2 DEF FinallyInv, RanInv
<1>4. ASSUME mode' = "return", stack' # <<>>, Def[stack'[n - 1].fn].finally # NoBlock
      PROVE  OwnerRan(stack', n - 1)
  <2>1. mode = "return" /\ Top.kind \notin {"fn", "finally"}
    BY <1>4 DEF Leaves, LeaveWith
  <2>2. n - 1 \in 1..(n - 1)
    BY <1>1, <1>4, LeaveStep DEF Leaves, TypeOK, Shape
  <2>3. ASSUME NEW o \in 1..(n - 1), Owns(stack', o, n - 1) PROVE stack'[o].fins > 0
    <3>1. \A k \in (o + 1)..n : k = n \/ (k \in (o + 1)..(n - 1) /\ k \in 1..(n - 1))
      <4>1. n \in Nat /\ o \in Nat /\ o >= 1
        BY <1>1
      <4> HIDE DEF n
      <4> QED BY <4>1
    <3>2. Owns(stack, o, n) /\ Owns(stack, o, n - 1)
      <4>1. stack[o].kind = "fn" /\ \A k \in (o + 1)..(n - 1) : stack'[k].kind # "fn"
        BY <1>1, <2>3 DEF Owns
      <4>2. \A k \in (o + 1)..(n - 1) : k \in 1..(n - 1)
        BY <1>1
      <4>3. \A k \in (o + 1)..(n - 1) : stack[k].kind # "fn"
        BY <1>1, <4>1, <4>2
      <4>4. stack[n].kind # "fn"
        BY <1>1, <2>1
      <4> HIDE DEF n
      <4> QED BY <3>1, <4>1, <4>3, <4>4 DEF Owns
    <3>3. stack[n].fn = stack[o].fn /\ stack[n - 1].fn = stack[o].fn
      <4>1. o \in 1..n /\ n - 1 \in 1..n /\ o \in 1..(n - 1)
        BY <1>1, <2>2
      <4> QED BY <1>1, <3>2, <4>1 DEF TypeOK, Shape
    <3>4. OwnerRan(stack, n)
      BY <1>1, <1>4, <2>1, <2>2, <3>3 DEF FinallyInv, ReturnInv
    <3> QED BY <1>1, <3>2, <3>4 DEF OwnerRan
  <2> QED BY <2>3 DEF OwnerRan
<1>5. ReturnInv(stack', mode')
  BY <1>1, <1>4 DEF ReturnInv
<1>6. ASSUME NEW i \in 1..(n - 1), Guarded(stack'[i]) PROVE PhaseIs(stack', mode', err', i)
  <2>1. stack'[i] = stack[i] /\ i # n /\ i \in 1..n
    BY <1>1
  <2>2. PhaseIs(stack, mode, err, i)
    BY <1>6, <2>1 DEF FinallyInv, PhaseInv
  <2>3. CASE i # n - 1
    <3>1. i + 1 \in 1..(n - 1)
      BY <1>1, <2>3
    <3> QED BY <1>1, <2>1, <2>2, <2>3, <3>1 DEF PhaseIs
  <2>4. CASE i = n - 1
    <3>1. ASSUME stack[i].phase = "cleanup" PROVE mode' = "run"
      <4>1. i + 1 = n
        BY <1>1, <2>4
      <4>2. Top.kind = "finally" /\ stack[Len(stack) - 1].phase = "cleanup"
        BY <1>1, <2>1, <2>2, <2>4, <3>1, <4>1 DEF PhaseIs
      <4> QED BY <4>2 DEF Leaves, LeaveWith, CleanupQuiet
    <3> QED BY <1>1, <2>1, <2>2, <2>4, <3>1 DEF PhaseIs
  <2> QED BY <2>3, <2>4
<1>7. FinallyRuns'
  BY FinallyLeft
<1> QED BY <1>1, <1>3, <1>5, <1>6, <1>7 DEF FinallyInv, PhaseInv

LEMMA FinallyInit == Init => FinallyInv
<1> SUFFICES ASSUME Init PROVE FinallyInv
  OBVIOUS
<1>1. PICK f \in Mains :
        stack = <<[kind |-> "fn", fn |-> f, blk |-> Def[f].body, depth |-> 0, pc |-> 1,
                   phase |-> "body", flag |-> FALSE, attempt |-> 0, cause |-> NoError,
                   fins |-> 0, level |-> 1, work |-> <<Before>>, committed |-> <<>>]>>
  BY DEF Init
<1>2. /\ Len(stack) = 1 /\ stack[1].pc = 1 /\ stack[1].phase = "body" /\ stack[1].cause = NoError
  BY <1>1
<1>3. mode = "run" /\ left.kind = "none"
  BY DEF Init, NotLeft
<1>4. \A i \in 1..Len(stack) : i = 1
  BY <1>2
<1>5. RanInv(stack)
  BY <1>2, <1>4 DEF RanInv, Ran
<1>6. PhaseInv(stack, mode, err)
  BY <1>2, <1>4 DEF PhaseInv, PhaseIs
<1>7. ReturnInv(stack, mode) /\ FinallyRuns
  BY <1>3 DEF ReturnInv, FinallyRuns
<1> QED BY <1>5, <1>6, <1>7 DEF FinallyInv

LEMMA FinallyNext == TypeOK /\ FinallyInv /\ [Next]_vars => FinallyInv'
<1> SUFFICES ASSUME TypeOK, FinallyInv, [Next]_vars PROVE FinallyInv'
  OBVIOUS
<1>0. TypeOK'
  BY TypeStep
<1>1. CASE Statement
  BY <1>0, <1>1, StatementStep, FinallyWent, FinallyTurns
<1>2. CASE AfterBody
  <2>1. Len(stack') = Len(stack) /\ PhaseIs(stack, mode, err, Len(stack)) /\ FrameOK(Top)
    <3>1. Guarded(stack[Len(stack)]) /\ Len(stack) \in 1..Len(stack) /\ FrameOK(Top)
      BY <1>2, AfterBodyStep, TopIs DEF Guarded, Top, TopOnly
    <3> QED BY <1>2, <3>1, AfterBodyStep DEF FinallyInv, PhaseInv, TopOnly
  <2>2. PhaseIs(stack', mode', err', Len(stack))
    BY <1>2, <2>1, AfterBodyStep DEF PhaseIs, Top
  <2>3. Top.fins >= Top.fins
    BY <2>1, FieldsOf
  <2> QED BY <1>0, <1>2, <2>2, <2>3, AfterBodyStep, FinallyTop
<1>3. CASE FallOut \/ Returning \/ Unwind
  BY <1>3, LeavesStep, FinallyLeaves
<1>4. CASE TransactionHandler
  <2>1. ~Guarded(Top) /\ Top.kind # "fn"
    BY <1>4, TransactionHandlerStep DEF Guarded
  <2> QED BY <1>0, <1>4, <2>1, TransactionHandlerStep, FinallyTop
<1>5. CASE RetryHandler
  <2>1. Top.fins >= Top.fins /\ Top.fn \in Fns
    BY <1>5, RetryHandlerStep, TopIs, FieldsOf DEF TopOnly
  <2>2. ~Guarded(Top)
    BY <1>5, <2>1, RetryHandlerStep, RejectedAssumption DEF Guarded
  <2> QED BY <1>0, <1>5, <2>1, <2>2, RetryHandlerStep, FinallyTop
<1>6. CASE FinallyHandler
  BY <1>0, <1>6, FinallyHandles
<1>7. CASE Reraise
  <2>1. Guarded(Top) /\ Len(stack) \in 1..Len(stack) /\ FrameOK(Top) /\ Len(stack') = Len(stack)
    BY <1>7, ReraiseStep, TopIs DEF Guarded, TopOnly
  <2>2. PhaseIs(stack, mode, err, Len(stack))
    BY <2>1 DEF FinallyInv, PhaseInv, Top
  <2>3. PhaseIs(stack', mode', err', Len(stack))
    BY <1>7, <2>1, <2>2, ReraiseStep DEF PhaseIs, Top
  <2>4. Top.fins >= Top.fins
    BY <2>1, FieldsOf
  <2> QED BY <1>0, <1>7, <2>3, <2>4, ReraiseStep, FinallyTop
<1>8. CASE AutonomousHandler
  <2>1. Top.fins >= Top.fins
    BY <1>8, AutonomousHandlerStep, TopIs, FieldsOf DEF TopOnly
  <2>2. ~Guarded(Top)
    BY <1>8, AutonomousHandlerStep DEF Guarded
  <2> QED BY <1>0, <1>8, <2>1, <2>2, AutonomousHandlerStep, FinallyTop
<1>9. CASE UNCHANGED vars
  BY <1>9 DEF vars, FinallyInv, FinallyRuns
<1> QED BY <1>1, <1>2, <1>3, <1>4, <1>5, <1>6, <1>7, <1>8, <1>9 DEF Next, Handler, Finished

\* A function with a finally block is never left without having run it, by its end, by a
\* return out of any block in it or by an error, and the error that comes out of it is the
\* one that went in, whatever the finally block raised.
THEOREM FinallyRunsHolds == Spec => []FinallyRuns
<1>1. Init => TypeOK /\ FinallyInv
  BY TypeInit, FinallyInit
<1>2. TypeOK /\ FinallyInv /\ [Next]_vars => TypeOK' /\ FinallyInv'
  BY TypeStep, FinallyNext
<1>3. FinallyInv => FinallyRuns
  BY DEF FinallyInv
<1> QED BY <1>1, <1>2, <1>3, PTL DEF Spec
----------------------------------------------------------------------------
(* The blocks that a block runs.                                            *)

\* The sets that Reached goes through, up to the n-th.
Growing(g, b, n) == g = [k \in 0..n |-> IF k = 0 THEN {b} ELSE Grown(g[k - 1])]

LEMMA GrowingExists ==
  ASSUME NEW b, NEW n \in Nat
  PROVE  \E g : Growing(g, b, n)
<1> DEFINE bad == {k \in Nat : ~\E g : Growing(g, b, k)}
<1> SUFFICES ASSUME bad # {} PROVE FALSE
  OBVIOUS
<1>1. PICK k \in bad : \A m \in bad : k <= m
  <2>1. bad \in SUBSET Nat
    OBVIOUS
  <2> HIDE DEF bad
  <2> QED BY <2>1, LeastNumber
<1>0. k \in Nat
  OBVIOUS
<1>2. CASE k = 0
  <2> DEFINE g == [i \in 0..0 |-> {b}]
  <2>1. g = [i \in 0..0 |-> IF i = 0 THEN {b} ELSE Grown(g[i - 1])]
    OBVIOUS
  <2> HIDE DEF g
  <2> QED BY <1>2, <2>1 DEF Growing
<1>3. CASE k # 0
  <2>1. k - 1 \in Nat /\ k - 1 \notin bad
    BY <1>0, <1>1, <1>3
  <2>2. PICK f : Growing(f, b, k - 1)
    BY <2>1
  <2> DEFINE g == [i \in 0..k |-> IF i < k THEN f[i] ELSE Grown(f[k - 1])]
  <2>3. ASSUME NEW i \in 0..k PROVE g[i] = IF i = 0 THEN {b} ELSE Grown(g[i - 1])
    <3>1. CASE i = 0
      <4>1. 0 \in 0..(k - 1) /\ f[0] = {b}
        BY <1>0, <1>3, <2>2 DEF Growing
      <4> QED BY <1>0, <1>3, <3>1, <4>1
    <3>2. CASE i # 0 /\ i < k
      <4>1. i \in 0..(k - 1) /\ f[i] = Grown(f[i - 1])
        <5>1. i \in 0..(k - 1)
          BY <1>0, <3>2
        <5>2. f[i] = IF i = 0 THEN {b} ELSE Grown(f[i - 1])
          BY <2>2, <5>1 DEF Growing
        <5> QED BY <3>2, <5>1, <5>2
      <4>2. g[i] = f[i] /\ g[i - 1] = f[i - 1]
        BY <1>0, <3>2
      <4> QED BY <3>2, <4>1, <4>2
    <3>3. CASE i = k
      <4>1. g[k] = Grown(f[k - 1]) /\ g[k - 1] = f[k - 1]
        BY <1>0, <1>3
      <4> QED BY <1>3, <3>3, <4>1
    <3> QED BY <3>1, <3>2, <3>3
  <2>4. g = [i \in 0..k |-> g[i]]
    OBVIOUS
  <2> HIDE DEF g
  <2>5. g = [i \in 0..k |-> IF i = 0 THEN {b} ELSE Grown(g[i - 1])]
    BY <2>3, <2>4
  <2> QED BY <2>5 DEF Growing
<1> QED BY <1>2, <1>3

LEMMA ReachedIs ==
  ASSUME NEW b \in DOMAIN Block
  PROVE  \E g : Growing(g, b, Cardinality(DOMAIN Block)) /\ Reached[b] = g[Cardinality(DOMAIN Block)]
<1> DEFINE n == Cardinality(DOMAIN Block)
           g == CHOOSE h : h = [k \in 0..n |-> IF k = 0 THEN {b} ELSE Grown(h[k - 1])]
<1>1. n \in Nat
  BY BlockAssumption, FS_CardinalityType
<1>2. Growing(g, b, n)
  <2>1. \E h : Growing(h, b, n)
    BY <1>1, GrowingExists
  <2>2. \E h : h = [k \in 0..n |-> IF k = 0 THEN {b} ELSE Grown(h[k - 1])]
    BY <2>1, Zenon DEF Growing
  <2>3. g = [k \in 0..n |-> IF k = 0 THEN {b} ELSE Grown(g[k - 1])]
    BY <2>2, Zenon
  <2> QED BY <2>3, Zenon DEF Growing
<1>3. Reached[b] = g[n]
  BY DEF Reached
<1> QED BY <1>2, <1>3

\* What is said of, and called by, blocks of the program.
LEMMA GrownIs ==
  ASSUME NEW bs \in SUBSET DOMAIN Block
  PROVE  /\ bs \subseteq Grown(bs) /\ Grown(bs) \subseteq DOMAIN Block
         /\ StmtsOf(bs) \subseteq Stmts /\ Calls(bs) \subseteq Fns
<1>1. StmtsOf(bs) \subseteq Stmts
  BY DEF StmtsOf, Stmts
<1>2. Inner(bs) \subseteq DOMAIN Block
  BY <1>1, BlockAssumption DEF Inner
<1>3. Calls(bs) \subseteq Fns
  BY <1>1, BlockAssumption DEF Calls
<1>4. \A f \in Calls(bs) : Bodies(f) \subseteq DOMAIN Block
  BY <1>3, DefAssumption DEF Bodies
<1> QED BY <1>1, <1>2, <1>3, <1>4 DEF Grown

\* A set of blocks with all that the blocks run in their transaction.
ClosedSet(bs) == Inner(bs) \subseteq bs /\ \A f \in Calls(bs) : Bodies(f) \subseteq bs

LEMMA ReachedClosed ==
  ASSUME NEW b \in DOMAIN Block
  PROVE  b \in Reached[b] /\ Reached[b] \in SUBSET DOMAIN Block /\ ClosedSet(Reached[b])
<1> DEFINE D == DOMAIN Block
           n == Cardinality(D)
<1>1. PICK g : Growing(g, b, n) /\ Reached[b] = g[n]
  BY ReachedIs
<1>2. n \in Nat /\ IsFiniteSet(D)
  BY BlockAssumption, FS_CardinalityType
<1> HIDE DEF n, D
<1>3. g[0] = {b} /\ \A k \in 1..n : g[k] = Grown(g[k - 1])
  <2>1. \A k \in 0..n : g[k] = IF k = 0 THEN {b} ELSE Grown(g[k - 1])
    BY <1>1 DEF Growing
  <2>2. 0 \in 0..n /\ \A k \in 1..n : k \in 0..n /\ k # 0
    BY <1>2
  <2> QED BY <2>1, <2>2
<1>4. \A k \in 0..n : g[k] \in SUBSET D /\ b \in g[k]
  <2> DEFINE bad == {k \in 0..n : ~(g[k] \in SUBSET D /\ b \in g[k])}
  <2> SUFFICES ASSUME bad # {} PROVE FALSE
    OBVIOUS
  <2>1. PICK k \in bad : \A m \in bad : k <= m
    <3>1. bad \in SUBSET Nat
      OBVIOUS
    <3> HIDE DEF bad
    <3> QED BY <3>1, LeastNumber
  <2>2. k \in 0..n /\ k # 0
    BY <1>3 DEF D
  <2>3. k \in 1..n /\ k - 1 \in 0..n /\ k - 1 \notin bad
    BY <1>2, <2>1, <2>2
  <2>4. g[k - 1] \in SUBSET D /\ b \in g[k - 1] /\ g[k] = Grown(g[k - 1])
    BY <1>3, <2>3
  <2>5. g[k] \in SUBSET D /\ b \in g[k]
    BY <2>4, GrownIs DEF D
  <2> QED BY <2>5
<1>5. \A k \in 0..n : IsFiniteSet(g[k]) /\ Cardinality(g[k]) \in Nat /\ Cardinality(g[k]) <= n
  BY <1>2, <1>4, FS_Subset, FS_CardinalityType DEF n
<1>6. \A k \in 0..n : Grown(g[k]) = g[k] \/ Cardinality(g[k]) >= k + 1
  <2> DEFINE bad == {k \in 0..n : ~(Grown(g[k]) = g[k] \/ Cardinality(g[k]) >= k + 1)}
  <2> SUFFICES ASSUME bad # {} PROVE FALSE
    OBVIOUS
  <2>1. PICK k \in bad : \A m \in bad : k <= m
    <3>1. bad \in SUBSET Nat
      OBVIOUS
    <3> HIDE DEF bad
    <3> QED BY <3>1, LeastNumber
  <2>2. k # 0
    <3>1. Cardinality({b}) = 1
      BY FS_Singleton
    <3>2. Cardinality(g[0]) >= 0 + 1
      BY <1>3, <3>1
    <3>3. 0 \notin bad
      BY <3>2
    <3> QED BY <2>1, <3>3
  <2>3. k \in 1..n /\ k - 1 \in 0..n /\ k \in 0..n /\ k - 1 \notin bad
    BY <1>2, <2>1, <2>2
  <2>4. g[k] = Grown(g[k - 1]) /\ g[k - 1] \subseteq g[k]
    BY <1>3, <1>4, <2>3, GrownIs DEF D
  <2>5. CASE g[k] = g[k - 1]
    BY <2>4, <2>5
  <2>6. CASE g[k] # g[k - 1]
    <3>1. Cardinality(g[k - 1]) >= k
      BY <2>3, <2>4, <2>6
    <3>2. Cardinality(g[k - 1]) < Cardinality(g[k])
      BY <1>5, <2>3, <2>4, <2>6, FS_Subset
    <3>3. Cardinality(g[k]) >= k + 1
      BY <1>5, <2>3, <3>1, <3>2
    <3> QED BY <3>3
  <2> QED BY <2>5, <2>6
<1>7. Grown(g[n]) = g[n]
  <2>1. n \in 0..n
    BY <1>2
  <2> QED BY <1>2, <1>5, <1>6, <2>1
<1>8. Reached[b] \in SUBSET D /\ b \in Reached[b] /\ Grown(Reached[b]) = Reached[b]
  BY <1>1, <1>2, <1>4, <1>7
<1>9. ClosedSet(Reached[b])
  BY <1>8 DEF Grown, ClosedSet
<1> QED BY <1>8, <1>9 DEF D
----------------------------------------------------------------------------
(* Regions: what a function runs in the transaction it is called in.        *)

PlainFn(fr) == fr.kind = "fn" /\ Def[fr.fn].finally = NoBlock /\ Def[fr.fn].body \in Plain
Region(fr) == Reached[Def[fr.fn].body]

\* A block of the region.
Within(bs, g) ==
  g.blk \in bs /\ g.kind # "tx" /\ g.depth = 0 /\ Def[g.fn].finally \in bs \cup {NoBlock}
Under(bs, g) == Within(bs, g) /\ ~OwnTx(g) /\ (g.kind = "fn" => g.fn \in Calls(bs))

\* The blocks above a plain function in its transaction are of its region.
RegionInv(st) ==
  \A i \in 1..Len(st) : PlainFn(st[i]) =>
    /\ Within(Region(st[i]), st[i])
    /\ \A j \in (i + 1)..Len(st) : st[j].level = st[i].level => Under(Region(st[i]), st[j])

\* The statements of a block of a region: no transaction block, a COMMIT only at the end
\* of an autonomous function, a savepoint only at the start of an attempt.
StmtIs(bs, fr, p, x) ==
  \/ x \in StmtsOf(bs) /\ x.op \notin {"return", "transaction"}
  \/ x = I("return", NoArg) /\ \E s \in StmtsOf(bs) : s.op = "return"
  \/ x = I("finally", NoArg) /\ Def[fr.fn].finally # NoBlock
  \/ fr.kind = "fn" /\ Def[fr.fn].retry > 0 /\ p = 1 /\ x = I("savepoint", Attempt)
  \/ /\ OwnTx(fr) /\ Def[fr.fn].finally = NoBlock
     /\ p = Len(Code(fr)) /\ x = I("commit", NoArg)

LEMMA RegionCode ==
  ASSUME NEW fr, FrameOK(fr), NEW b \in Plain, Within(Reached[b], fr), NEW p \in 1..Len(Code(fr))
  PROVE  StmtIs(Reached[b], fr, p, Code(fr)[p])
<1> DEFINE x == Code(fr)[p]
<1>1. CASE fr.phase = "after"
  <2>1. Code(fr) = <<I("finally", NoArg)>> /\ Def[fr.fn].finally # NoBlock
    BY <1>1, CodeAfter DEF FrameOK
  <2>2. p = 1
    <3>1. Len(Code(fr)) = 1
      BY <2>1
    <3> QED BY <3>1
  <2> QED BY <2>1, <2>2 DEF StmtIs
<1>2. CASE fr.phase # "after"
  <2>1. FromBlock(fr.blk, fr.depth, fr.fn, x) \/ Added(fr, p)
    BY <1>2, CodeIs DEF CodeOK
  <2>2. fr.depth = 0 /\ fr.blk \in Reached[b] /\ fr.kind # "tx"
    BY DEF Within
  <2>3. CASE Added(fr, p)
    BY <2>2, <2>3 DEF Added, StmtIs, OwnTx
  <2>4. CASE FromBlock(fr.blk, fr.depth, fr.fn, x)
    <3>1. ToSet(Block[fr.blk]) \subseteq StmtsOf(Reached[b])
      BY <2>2 DEF StmtsOf
    <3>2. \A s \in StmtsOf(Reached[b]) : s.op # "transaction" /\ (s.op = "return" => s.arg = NoArg)
      BY DEF Plain
    <3>3. CASE x \in ToSet(Block[fr.blk]) /\ x.op # "return"
      BY <3>1, <3>2, <3>3 DEF StmtIs
    <3>4. CASE ~(x \in ToSet(Block[fr.blk]) /\ x.op # "return")
      <4>1. PICK s \in ToSet(Block[fr.blk]) : s.op = "return" /\ OfReturn(s, fr.depth, fr.fn, x)
        BY <2>4, <3>4 DEF FromBlock
      <4>2. s.arg = NoArg /\ s \in StmtsOf(Reached[b])
        BY <3>1, <3>2, <4>1
      <4> QED BY <2>2, <4>1, <4>2 DEF OfReturn, StmtIs
    <3> QED BY <3>3, <3>4
  <2> QED BY <2>1, <2>3, <2>4
<1> QED BY <1>1, <1>2

\* Transactions are nested as the blocks are.
LEMMA Levels ==
  ASSUME NEW st, NEW n, Shape(st, n), NEW i \in 1..Len(st), NEW j \in i..Len(st)
  PROVE  st[i].level \in Nat /\ st[j].level \in Nat /\ st[i].level <= st[j].level
<1>1. Len(st) \in Nat /\ \A k \in 1..Len(st) : st[k].level \in Nat
  <2>1. \A k \in 1..Len(st) : FrameOK(st[k])
    BY DEF Shape
  <2> QED BY <2>1, FieldsOf DEF Shape
<1> DEFINE bad == {k \in i..Len(st) : ~(st[i].level <= st[k].level)}
<1>2. bad = {}
  <2> SUFFICES ASSUME bad # {} PROVE FALSE
    OBVIOUS
  <2>1. PICK k \in bad : \A m \in bad : k <= m
    <3>1. bad \in SUBSET Nat
      BY <1>1
    <3> HIDE DEF bad
    <3> QED BY <3>1, LeastNumber
  <2>2. k \in i..Len(st) /\ k # i
    BY <1>1, <2>1
  <2>3. k - 1 \in i..Len(st) /\ k \in 2..Len(st) /\ k \in 1..Len(st) /\ k - 1 \in 1..Len(st)
        /\ k - 1 \notin bad
    <3>1. i \in Nat \ {0}
      BY <1>1
    <3>2. /\ k - 1 \in i..Len(st) /\ k \in 2..Len(st) /\ k \in 1..Len(st) /\ k - 1 \in 1..Len(st)
          /\ ~(k <= k - 1)
      BY <1>1, <2>2, <3>1, PlaceBelow
    <3> QED BY <2>1, <3>2
  <2>4. st[k].level = st[k - 1].level + (IF OwnTx(st[k]) THEN 1 ELSE 0)
    BY <2>3 DEF Shape
  <2>5. st[k - 1].level <= st[k].level /\ st[i].level <= st[k - 1].level
    BY <1>1, <2>3, <2>4
  <2> QED BY <1>1, <2>1, <2>3, <2>5
<1> QED BY <1>1, <1>2

\* The same block of the program at the same place.
SamePlace(fr, g) ==
  g.kind = fr.kind /\ g.fn = fr.fn /\ g.level = fr.level /\ g.blk = fr.blk /\ g.depth = fr.depth

LEMMA SamePlaceIs ==
  ASSUME NEW fr, NEW g, SamePlace(fr, g)
  PROVE  /\ PlainFn(g) <=> PlainFn(fr)
         /\ Region(g) = Region(fr) /\ g.level = fr.level
         /\ \A bs : (Within(bs, g) <=> Within(bs, fr)) /\ (Under(bs, g) <=> Under(bs, fr))
BY DEF SamePlace, PlainFn, Region, Within, Under, OwnTx

LEMMA RegionSame ==
  ASSUME NEW st, NEW su, Len(su) \in Nat, Len(su) <= Len(st), Len(st) \in Nat, RegionInv(st),
         \A i \in 1..Len(su) : SamePlace(st[i], su[i])
  PROVE  RegionInv(su)
<1> SUFFICES ASSUME NEW i \in 1..Len(su), PlainFn(su[i])
             PROVE  /\ Within(Region(su[i]), su[i])
                    /\ \A j \in (i + 1)..Len(su) :
                         su[j].level = su[i].level => Under(Region(su[i]), su[j])
  BY DEF RegionInv
<1>1. SamePlace(st[i], su[i]) /\ i \in 1..Len(st)
  OBVIOUS
<1>2. PlainFn(st[i]) /\ Region(su[i]) = Region(st[i]) /\ su[i].level = st[i].level
  BY <1>1, SamePlaceIs
<1>3. Within(Region(su[i]), su[i])
  BY <1>1, <1>2, SamePlaceIs DEF RegionInv
<1>4. ASSUME NEW j \in (i + 1)..Len(su), su[j].level = su[i].level
      PROVE  Under(Region(su[i]), su[j])
  <2>1. j \in 1..Len(su) /\ j \in (i + 1)..Len(st)
    OBVIOUS
  <2>2. SamePlace(st[j], su[j])
    BY <2>1
  <2>3. Under(Region(st[i]), st[j])
    BY <1>1, <1>2, <1>4, <2>1, <2>2 DEF RegionInv, SamePlace
  <2> QED BY <1>2, <2>2, <2>3, SamePlaceIs
<1> QED BY <1>3, <1>4
LEMMA RegionPush ==
  ASSUME NEW st, NEW su, Len(st) \in Nat, Len(su) = Len(st) + 1, RegionInv(st),
         \A i \in 1..Len(st) : SamePlace(st[i], su[i]), FrameOK(su[Len(st) + 1]),
         \A i \in 1..Len(st) : PlainFn(st[i]) /\ su[Len(st) + 1].level = st[i].level
                                 => Under(Region(st[i]), su[Len(st) + 1])
  PROVE  RegionInv(su)
<1> DEFINE n == Len(st)
           c == su[Len(st) + 1]
<1> SUFFICES ASSUME NEW i \in 1..(n + 1), PlainFn(su[i])
             PROVE  /\ Within(Region(su[i]), su[i])
                    /\ \A j \in (i + 1)..(n + 1) :
                         su[j].level = su[i].level => Under(Region(su[i]), su[j])
  BY DEF RegionInv
<1>1. CASE i = n + 1
  <2>1. FrameOK(c) /\ PlainFn(c) /\ su[i] = c
    BY <1>1
  <2> HIDE DEF c
  <2>2. c.fn \in Fns /\ Def[c.fn].body \in DOMAIN Block /\ c.blk = Def[c.fn].body /\ c.depth = 0
        /\ c.kind = "fn" /\ Def[c.fn].finally = NoBlock
    BY <2>1, FieldsOf, DefAssumption DEF FrameOK, PlainFn
  <2>3. Within(Region(c), c)
    BY <2>2, ReachedClosed DEF Within, Region
  <2>4. \A j \in (i + 1)..(n + 1) : FALSE
    BY <1>1
  <2> QED BY <2>1, <2>3, <2>4
<1>2. CASE i \in 1..n
  <2>1. /\ PlainFn(st[i]) /\ Region(su[i]) = Region(st[i]) /\ su[i].level = st[i].level
        /\ SamePlace(st[i], su[i])
    BY <1>2, SamePlaceIs
  <2>2. Within(Region(su[i]), su[i])
    BY <1>2, <2>1, SamePlaceIs DEF RegionInv
  <2>3. ASSUME NEW j \in (i + 1)..(n + 1), su[j].level = su[i].level
        PROVE  Under(Region(su[i]), su[j])
    <3>1. CASE j = n + 1
      BY <1>2, <2>1, <2>3, <3>1
    <3>2. CASE j # n + 1
      <4>1. j \in 1..n /\ j \in (i + 1)..n
        BY <1>2, <3>2
      <4>2. SamePlace(st[j], su[j])
        BY <4>1
      <4>3. st[j].level = st[i].level
        BY <2>1, <2>3, <4>2 DEF SamePlace
      <4>4. Under(Region(st[i]), st[j])
        BY <1>2, <2>1, <4>1, <4>3 DEF RegionInv
      <4> QED BY <2>1, <4>2, <4>4, SamePlaceIs
    <3> QED BY <3>1, <3>2
  <2> QED BY <2>2, <2>3
<1> QED BY <1>1, <1>2

\* The innermost block, seen from a plain function of its transaction.
LEMMA TopWithin ==
  ASSUME TypeOK, RegionInv(stack), NEW i \in 1..Len(stack), PlainFn(stack[i]),
         stack[i].level = Len(txs)
  PROVE  /\ stack # <<>> /\ FrameOK(Top) /\ Within(Region(stack[i]), Top)
         /\ i # Len(stack) => Under(Region(stack[i]), Top)
         /\ Def[stack[i].fn].body \in Plain /\ ClosedSet(Region(stack[i]))
         /\ Region(stack[i]) \in SUBSET DOMAIN Block
         /\ \A p \in 1..Len(Code(Top)) : StmtIs(Region(stack[i]), Top, p, Code(Top)[p])
<1>1. /\ stack # <<>> /\ FrameOK(Top) /\ Len(stack) \in 1..Len(stack) /\ Top = stack[Len(stack)]
      /\ Top.level = Len(txs) /\ Len(stack) \in Nat
  <2>1. stack # <<>>
    BY DEF TypeOK, Shape
  <2> QED BY <2>1, TopIs DEF Top, TypeOK, Shape
<1>4. Within(Region(stack[i]), Top) /\ (i # Len(stack) => Under(Region(stack[i]), Top))
  <2>1. CASE i = Len(stack)
    BY <1>1, <2>1 DEF RegionInv
  <2>2. CASE i # Len(stack)
    <3>1. Len(stack) \in (i + 1)..Len(stack)
      BY <1>1, <2>2
    <3>2. Under(Region(stack[i]), stack[Len(stack)])
      BY <1>1, <3>1 DEF RegionInv
    <3> QED BY <1>1, <3>2 DEF Under
  <2> QED BY <2>1, <2>2
<1>5. Def[stack[i].fn].body \in Plain /\ Def[stack[i].fn].body \in DOMAIN Block
  BY DEF PlainFn, Plain
<1>6. \A p \in 1..Len(Code(Top)) : StmtIs(Region(stack[i]), Top, p, Code(Top)[p])
  BY <1>1, <1>4, <1>5, RegionCode DEF Region
<1>7. ClosedSet(Region(stack[i])) /\ Region(stack[i]) \in SUBSET DOMAIN Block
  BY <1>5, ReachedClosed DEF Region
<1> QED BY <1>1, <1>4, <1>5, <1>6, <1>7

\* A finally block that is entered belongs to the region.
LEMMA RegionFinally ==
  ASSUME TypeOK, RegionInv(stack), NEW i \in 1..Len(stack), PlainFn(stack[i]),
         stack[i].level = Len(txs), Def[Top.fn].finally # NoBlock
  PROVE  Under(Region(stack[i]), Frame("finally", Top.fn, Def[Top.fn].finally, 0))
<1> DEFINE c == Frame("finally", Top.fn, Def[Top.fn].finally, 0)
<1>1. c.kind = "finally" /\ c.fn = Top.fn /\ c.blk = Def[Top.fn].finally /\ c.depth = 0
  BY DEF Frame
<1> HIDE DEF c
<1>2. Within(Region(stack[i]), Top)
  BY TopWithin
<1>3. Def[Top.fn].finally \in Region(stack[i])
  BY <1>2 DEF Within
<1>4. Under(Region(stack[i]), c)
  BY <1>1, <1>3 DEF Under, Within, OwnTx
<1> QED BY <1>4 DEF c

\* What statements enter belongs to the regions around it.
LEMMA RegionPushed ==
  ASSUME TypeOK, RegionInv(stack), Pushed, NEW i \in 1..Len(stack), PlainFn(stack[i]),
         stack'[Len(stack) + 1].level = stack[i].level
  PROVE  /\ Under(Region(stack[i]), stack'[Len(stack) + 1]) /\ stack[i].level = Len(txs)
<1> DEFINE c == stack'[Len(stack) + 1]
           bs == Region(stack[i])
<1>1. stack[i].level \in Nat /\ stack[i].level <= Len(txs) /\ Len(txs) \in Nat
  <2>1. Len(stack) \in i..Len(stack) /\ stack # <<>> /\ Len(stack) \in 1..Len(stack)
    BY DEF TypeOK, Shape
  <2>2. stack[Len(stack)].level = Len(txs)
    BY <2>1 DEF TypeOK, Shape
  <2> QED BY <2>1, <2>2, Levels DEF TypeOK
<1>2. CASE At("if") /\ c = Frame("if", Top.fn, Arg, Top.depth)
  <2>1. /\ c.kind = "if" /\ c.fn = Top.fn /\ c.blk = Arg /\ c.depth = Top.depth /\ c.level = Len(txs)
    BY <1>2 DEF Frame
  <2> HIDE DEF c
  <2>2. stack[i].level = Len(txs)
    BY <2>1 DEF c
  <2>3. /\ Within(bs, Top) /\ StmtIs(bs, Top, Top.pc, Code(Top)[Top.pc]) /\ ClosedSet(bs)
        /\ Code(Top)[Top.pc].op = "if"
    BY <1>2, <2>2, AtIs, TopWithin
  <2>4. Code(Top)[Top.pc] \in StmtsOf(bs)
    BY <2>3 DEF StmtIs, I
  <2>5. Arg \in bs
    BY <2>3, <2>4 DEF ClosedSet, Inner, Arg
  <2>6. Under(bs, c)
    BY <2>1, <2>3, <2>5 DEF Under, Within, OwnTx
  <2> QED BY <2>2, <2>6 DEF c
<1>3. CASE At("transaction") /\ c = Frame("tx", Top.fn, Arg, Top.depth + 1)
  <2>1. c.level = Len(txs)
    BY <1>3 DEF Frame
  <2>2. stack[i].level = Len(txs)
    BY <2>1
  <2>3. StmtIs(bs, Top, Top.pc, Code(Top)[Top.pc]) /\ Code(Top)[Top.pc].op = "transaction"
    BY <1>3, <2>2, AtIs, TopWithin
  <2> QED BY <2>3 DEF StmtIs, I
<1>4. CASE At("call") /\ Arg \in Fns /\ c = Called(Arg)
  <2> DEFINE g == Arg
  <2>1. /\ g \in Fns /\ c.kind = "fn" /\ c.fn = g /\ c.blk = Def[g].body /\ c.depth = 0
        /\ c.level = Len(txs) + (IF OwnTx(c) THEN 1 ELSE 0)
    BY <1>4, CalledIs
  <2> HIDE DEF c
  <2>2. ~OwnTx(c) /\ stack[i].level = Len(txs)
    <3>1. c.level = stack[i].level
      BY DEF c
    <3> QED BY <1>1, <2>1, <3>1
  <2>3. /\ StmtIs(bs, Top, Top.pc, Code(Top)[Top.pc]) /\ ClosedSet(bs)
        /\ Code(Top)[Top.pc].op = "call"
    BY <1>4, <2>2, AtIs, TopWithin
  <2>4. Code(Top)[Top.pc] \in StmtsOf(bs)
    BY <2>3 DEF StmtIs, I
  <2>5. g \in Calls(bs)
    BY <2>3, <2>4 DEF Calls, Arg
  <2> HIDE DEF g
  <2>6. Bodies(g) \subseteq bs /\ ~Def[g].autonomous
    BY <2>1, <2>2, <2>3, <2>5 DEF ClosedSet, OwnTx
  <2>7. Def[g].body \in bs /\ Def[g].finally \in bs \cup {NoBlock}
    BY <2>6 DEF Bodies
  <2>8. Under(bs, c)
    BY <2>1, <2>2, <2>5, <2>7 DEF Under, Within
  <2> QED BY <2>2, <2>8 DEF c
<1>5. CASE At("finally") /\ c = Frame("finally", Top.fn, Def[Top.fn].finally, 0)
  <2>1. c.level = Len(txs)
    BY <1>5 DEF Frame
  <2>2. stack[i].level = Len(txs)
    BY <2>1
  <2>3. StmtIs(bs, Top, Top.pc, Code(Top)[Top.pc]) /\ Code(Top)[Top.pc].op = "finally"
    BY <1>5, <2>2, AtIs, TopWithin
  <2>4. Code(Top)[Top.pc] \in StmtsOf(bs) => Code(Top)[Top.pc].op # "finally"
    <3>1. bs \in SUBSET DOMAIN Block
      BY <2>2, TopWithin
    <3> QED BY <3>1, GrownIs, BlockAssumption
  <2>5. Def[Top.fn].finally # NoBlock
    BY <2>3, <2>4 DEF StmtIs, I
  <2> QED BY <1>5, <2>2, <2>5, RegionFinally
<1> QED BY <1>2, <1>3, <1>4, <1>5 DEF Pushed
LEMMA PlacesSame ==
  ASSUME NEW fr, NEW g
  PROVE  (Alike(fr, g) => SamePlace(fr, g)) /\ (Kept(fr, g) => SamePlace(fr, g)) /\ SamePlace(fr, fr)
BY DEF Alike, Kept, Like, SamePlace

\* A step that does not enter or leave a block keeps each at its place.
LEMMA TopOnlyPlaces ==
  ASSUME TypeOK, TopOnly
  PROVE  /\ Len(stack') = Len(stack) /\ Len(stack) \in Nat
         /\ \A i \in 1..Len(stack) : SamePlace(stack[i], stack'[i])
<1>1. Len(stack') = Len(stack) /\ Len(stack) \in Nat
  BY DEF TopOnly, TypeOK, Shape
<1>2. ASSUME NEW i \in 1..Len(stack) PROVE SamePlace(stack[i], stack'[i])
  <2>1. CASE i = Len(stack)
    BY <2>1, PlacesSame DEF TopOnly, Top
  <2>2. CASE i # Len(stack)
    BY <2>2, PlacesSame DEF TopOnly
  <2> QED BY <2>1, <2>2
<1> QED BY <1>1, <1>2

\* Leaving a block takes it off the stack.
LEMMA LeavesPlaces ==
  ASSUME TypeOK, NEW how \in Hows, Leaves(how)
  PROVE  /\ Len(stack) \in Nat \ {0} /\ Len(stack') = Len(stack) - 1
         /\ \A i \in 1..Len(stack') : stack'[i] = stack[i]
<1>1. stack # <<>> /\ Len(stack) \in Nat \ {0}
  BY DEF Leaves, TypeOK, Shape
<1> QED BY <1>1, LeaveStep DEF Leaves

LEMMA RegionInit == Init => RegionInv(stack)
<1> SUFFICES ASSUME Init PROVE RegionInv(stack)
  OBVIOUS
<1>1. TypeOK /\ Len(stack) = 1
  BY TypeInit DEF Init
<1>2. FrameOK(stack[1])
  BY <1>1 DEF TypeOK, Shape
<1> DEFINE e == <<>>
<1>3. Len(e) = 0 /\ RegionInv(e)
  BY DEF RegionInv
<1> HIDE DEF e
<1>4. Len(stack) = Len(e) + 1 /\ Len(e) \in Nat /\ FrameOK(stack[Len(e) + 1])
      /\ \A i \in 1..Len(e) : FALSE
  BY <1>1, <1>2, <1>3
<1> QED BY <1>3, <1>4, RegionPush

LEMMA RegionNext == TypeOK /\ RegionInv(stack) /\ [Next]_vars => RegionInv(stack')
<1> SUFFICES ASSUME TypeOK, RegionInv(stack), [Next]_vars PROVE RegionInv(stack')
  OBVIOUS
<1>0. Len(stack) \in Nat /\ TypeOK'
  BY TypeStep DEF TypeOK, Shape
<1>1. CASE Statement
  <2>1. (Went /\ (Len(stack') = Len(stack) \/ Pushed)) \/ Turns
    BY <1>1, StatementStep
  <2>2. CASE Turns
    BY <2>2 DEF Turns
  <2>3. CASE Went
    <3>1. \A i \in 1..Len(stack) : SamePlace(stack[i], stack'[i])
      BY <2>3, PlacesSame DEF Went
    <3>2. CASE Len(stack') = Len(stack)
      BY <1>0, <3>1, <3>2, RegionSame
    <3>3. CASE Pushed
      <4>1. Len(stack') = Len(stack) + 1
        BY <3>3 DEF Pushed
      <4>2. FrameOK(stack'[Len(stack) + 1])
        <5>1. Len(stack) + 1 \in 1..Len(stack')
          BY <1>0, <4>1
        <5> QED BY <1>0, <5>1 DEF TypeOK, Shape
      <4>3. \A i \in 1..Len(stack) : PlainFn(stack[i]) /\ stack'[Len(stack) + 1].level = stack[i].level
                                       => Under(Region(stack[i]), stack'[Len(stack) + 1])
        BY <3>3, RegionPushed
      <4> QED BY <1>0, <3>1, <4>1, <4>2, <4>3, RegionPush
    <3> QED BY <2>1, <2>3, <3>2, <3>3 DEF Turns, Went
  <2> QED BY <2>1, <2>2, <2>3
<1>2. CASE AfterBody \/ TransactionHandler \/ RetryHandler \/ Reraise \/ AutonomousHandler
  <2>1. TopOnly
    BY <1>2, AfterBodyStep, TransactionHandlerStep, RetryHandlerStep, ReraiseStep, AutonomousHandlerStep
  <2> QED BY <2>1, TopOnlyPlaces, RegionSame
<1>3. CASE FinallyHandler
  <2> DEFINE c == Frame("finally", Top.fn, Def[Top.fn].finally, 0)
  <2>1. /\ stack # <<>> /\ Def[Top.fn].finally # NoBlock /\ Len(stack') = Len(stack) + 1
        /\ \A i \in 1..Len(stack) : i # Len(stack) => stack'[i] = stack[i]
        /\ Kept(Top, stack'[Len(stack)]) /\ stack'[Len(stack) + 1] = c
    BY <1>3, FinallyHandlerStep
  <2>2. ASSUME NEW i \in 1..Len(stack) PROVE SamePlace(stack[i], stack'[i])
    <3>1. CASE i = Len(stack)
      BY <2>1, <3>1, PlacesSame DEF Top
    <3>2. CASE i # Len(stack)
      BY <2>1, <3>2, PlacesSame
    <3> QED BY <3>1, <3>2
  <2>3. FrameOK(stack'[Len(stack) + 1])
    <3>1. Len(stack) + 1 \in 1..Len(stack')
      BY <1>0, <2>1
    <3> QED BY <1>0, <3>1 DEF TypeOK, Shape
  <2>4. c.level = Len(txs)
    BY DEF Frame
  <2> HIDE DEF c
  <2>5. ASSUME NEW i \in 1..Len(stack), PlainFn(stack[i]), stack'[Len(stack) + 1].level = stack[i].level
        PROVE  Under(Region(stack[i]), stack'[Len(stack) + 1])
    <3>1. stack[i].level = Len(txs)
      BY <2>1, <2>4, <2>5
    <3>2. Under(Region(stack[i]), Frame("finally", Top.fn, Def[Top.fn].finally, 0))
      BY <2>1, <2>5, <3>1, RegionFinally
    <3> QED BY <2>1, <3>2 DEF c
  <2> QED BY <1>0, <2>1, <2>2, <2>3, <2>5, RegionPush
<1>4. CASE FallOut \/ Returning \/ Unwind
  <2>1. PICK how \in Hows : Leaves(how)
    BY <1>4, LeavesStep
  <2>2. /\ Len(stack) \in Nat \ {0} /\ Len(stack') = Len(stack) - 1
        /\ \A i \in 1..Len(stack') : SamePlace(stack[i], stack'[i])
    BY <2>1, LeavesPlaces, PlacesSame
  <2>3. Len(stack') \in Nat /\ Len(stack') <= Len(stack)
    BY <2>2
  <2> QED BY <1>0, <2>2, <2>3, RegionSame
<1>5. CASE UNCHANGED vars
  BY <1>5 DEF vars
<1> QED BY <1>1, <1>2, <1>3, <1>4, <1>5 DEF Next, Handler, Finished
----------------------------------------------------------------------------
(* Autonomous functions that close their transaction.                       *)

Closes(fr) == fr.kind = "fn" /\ fr.fn \in Closing

\* A function that closes its transaction, in a session with the work w in its current
\* transaction and the rows cm committed: nothing above it runs in another transaction,
\* and until its COMMIT, or after its handler, it has committed nothing.
ClosesIs(st, m, w, cm, i) ==
  /\ m # "return"
  /\ \A j \in i..Len(st) : st[j].level = st[i].level
  /\ st[i].phase = "body" =>
       IF st[i].pc <= Len(Code(st[i])) THEN cm = st[i].committed
       ELSE i = Len(st) /\ m = "run" /\ w = <<>>
  /\ st[i].phase = "raised" =>
       i = Len(st) /\ m = "raise" /\ w = <<>> /\ cm = st[i].committed
ClosingInv(st, m, w, cm) == \A i \in 1..Len(st) : Closes(st[i]) => ClosesIs(st, m, w, cm, i)

\* What such a function is.
LEMMA ClosesBasics ==
  ASSUME NEW fr, FrameOK(fr), Closes(fr)
  PROVE  /\ PlainFn(fr) /\ OwnTx(fr) /\ fr.fn \in Fns /\ Def[fr.fn].retry = 0
         /\ fr.phase \in {"body", "raised"}
         /\ \A s \in StmtsOf(Region(fr)) : s.op # "return"
         /\ \A g \in Calls(Region(fr)) : ~Def[g].autonomous
<1>1. /\ fr.kind = "fn" /\ fr.fn \in Fns /\ Def[fr.fn].autonomous /\ Def[fr.fn].finally = NoBlock
      /\ Def[fr.fn].body \in Plain
      /\ \A s \in StmtsOf(Reached[Def[fr.fn].body]) : s.op # "return"
      /\ \A g \in Calls(Reached[Def[fr.fn].body]) : ~Def[g].autonomous
  BY DEF Closes, Closing
<1>2. fr.phase \in {"body", "raised"}
  BY <1>1, FieldsOf DEF FrameOK, Phases
<1>3. Def[fr.fn].retry = 0
  <2>1. Def[fr.fn].retry \in Nat
    BY <1>1, DefAssumption
  <2> QED BY <1>1, <2>1, RejectedAssumption
<1> QED BY <1>1, <1>2, <1>3 DEF PlainFn, OwnTx, Region

\* Its last statement is its COMMIT.
LEMMA ClosesCode ==
  ASSUME NEW fr, FrameOK(fr), Closes(fr)
  PROVE  /\ Len(Code(fr)) \in Nat /\ Len(Code(fr)) >= 1
         /\ Code(fr)[Len(Code(fr))] = I("commit", NoArg)
<1>1. CodeOK(fr) /\ OwnTx(fr) /\ PlainFn(fr)
  BY ClosesBasics, CodeIs
<1>2. Code(fr) \in Seq(Instr)
  BY <1>1 DEF CodeOK
<1>3. Len(Code(fr)) \in Nat
  BY <1>2
<1> QED BY <1>1, <1>3 DEF CodeOK, OwnTx, PlainFn

\* What it runs, in its transaction: neither a return, nor a flag, nor a call of an
\* autonomous function; and the COMMIT is its own.
LEMMA ClosesRuns ==
  ASSUME TypeOK, RegionInv(stack), NEW i \in 1..Len(stack), Closes(stack[i]),
         stack[i].level = Len(txs), Top.pc \in 1..Len(Code(Top))
  PROVE  /\ Code(Top)[Top.pc].op \notin {"return", "flag", "transaction"}
         /\ Code(Top)[Top.pc].op = "call" => ~Def[Arg].autonomous
         /\ Code(Top)[Top.pc].op = "commit" => i = Len(stack) /\ Top.pc = Len(Code(Top))
<1> DEFINE x == Code(Top)[Top.pc]
           bs == Region(stack[i])
<1>1. FrameOK(stack[i])
  BY DEF TypeOK, Shape
<1>2. /\ PlainFn(stack[i]) /\ \A s \in StmtsOf(bs) : s.op # "return"
      /\ \A g \in Calls(bs) : ~Def[g].autonomous
  BY <1>1, ClosesBasics
<1>3. /\ StmtIs(bs, Top, Top.pc, x) /\ ClosedSet(bs) /\ bs \in SUBSET DOMAIN Block
      /\ i # Len(stack) => ~OwnTx(Top)
  BY <1>2, TopWithin DEF Under
<1>4. \A s \in StmtsOf(bs) : s \in Stmts
  BY <1>3 DEF StmtsOf, Stmts
<1>5. \A s \in StmtsOf(bs) : s.op \in {"dml", "call", "if", "transaction", "return", "err"}
  BY <1>4, BlockAssumption
<1> HIDE DEF bs
<1>6. CASE x \in StmtsOf(bs) /\ x.op \notin {"return", "transaction"}
  <2>1. x.op = "call" => x.arg \in Calls(bs)
    BY <1>6 DEF Calls
  <2> QED BY <1>2, <1>5, <1>6, <2>1 DEF Arg
<1>7. CASE x = I("finally", NoArg) \/ x = I("savepoint", Attempt)
  BY <1>7 DEF I
<1>8. CASE OwnTx(Top) /\ Top.pc = Len(Code(Top)) /\ x = I("commit", NoArg)
  BY <1>3, <1>8 DEF I
<1> QED BY <1>2, <1>3, <1>6, <1>7, <1>8 DEF StmtIs

\* A function below the innermost block stays as it is.
LEMMA ClosingKept ==
  ASSUME NEW st, NEW su, NEW m, NEW m2, NEW w, NEW w2, NEW cm, NEW i \in 1..Len(st),
         Len(st) \in Nat, i # Len(st), FrameOK(st[i]), Closes(st[i]), ClosesIs(st, m, w, cm, i),
         su[i].level = st[i].level, su[i].phase = st[i].phase, su[i].pc = st[i].pc,
         su[i].committed = st[i].committed, Code(su[i]) = Code(st[i]),
         \A j \in i..Len(su) : su[j].level = st[i].level, m2 # "return"
  PROVE  ClosesIs(su, m2, w2, cm, i)
<1>1. st[i].phase \in {"body", "raised"}
  BY ClosesBasics
<1> QED BY <1>1 DEF ClosesIs
ClosingNow == ClosingInv(stack, mode, Tx.work, committed)

\* Only a COMMIT commits.
LEMMA CommitsOnly ==
  ASSUME TypeOK, Statement
  PROVE  \/ UNCHANGED committed /\ ~Commit
         \/ Commit /\ At("commit") /\ Len(txs') = Len(txs) /\ txs'[Len(txs')].work = <<>>
<1>1. CASE Commit
  <2>1. At("commit") /\ SetTx(NewTx)
    BY <1>1 DEF Commit
  <2>2. Len(txs') = Len(txs) /\ txs'[Len(txs)] = NewTx
    BY <2>1, NewTxOK, TxStep
  <2> QED BY <1>1, <2>1, <2>2, NewTxOK
<1>2. CASE ~Commit
  BY <1>2 DEF Statement, Dml, DmlFails, Savepoint, Flag, If, Transaction, Call, Finally, Return, RaiseErr
<1> QED BY <1>1, <1>2

\* What a function that closes its transaction enters runs in that transaction.
LEMMA ClosingPushed ==
  ASSUME TypeOK, RegionInv(stack), Went, Pushed, NEW i \in 1..Len(stack), Closes(stack[i]),
         stack[i].level = Len(txs)
  PROVE  stack'[Len(stack) + 1].level = Len(txs)
<1>1. CASE At("call") /\ Arg \in Fns /\ stack'[Len(stack) + 1] = Called(Arg)
  <2>1. ~Def[Arg].autonomous
    BY <1>1, AtIs, ClosesRuns
  <2> DEFINE g == Arg
             c == Called(g)
  <2>2. g \in Fns /\ ~Def[g].autonomous
    BY <1>1, <2>1
  <2> HIDE DEF g
  <2>3. c.kind = "fn" /\ c.fn = g /\ c.level = Len(txs) + (IF OwnTx(c) THEN 1 ELSE 0)
    BY <2>2, CalledIs
  <2>4. ~OwnTx(c) /\ Len(txs) \in Nat
    BY <2>2, <2>3 DEF OwnTx, TypeOK, TxsOK
  <2>5. c.level = Len(txs)
    BY <2>3, <2>4
  <2> QED BY <1>1, <2>5 DEF g
<1>2. CASE \E kind, f, b, d : stack'[Len(stack) + 1] = Frame(kind, f, b, d)
  BY <1>2 DEF Frame
<1> QED BY <1>1, <1>2 DEF Pushed

\* A function that is entered has committed nothing yet.
LEMMA ClosingEntered ==
  ASSUME TypeOK, TypeOK', Went, Pushed, Closes(stack'[Len(stack) + 1]), UNCHANGED committed, NEW w
  PROVE  ClosesIs(stack', mode', w, committed', Len(stack'))
<1> DEFINE c == stack'[Len(stack) + 1]
<1>1. /\ Len(stack') = Len(stack) + 1 /\ Len(stack) \in Nat /\ Fresh(c) /\ mode' = "run"
      /\ FrameOK(c)
  <2>1. Len(stack') = Len(stack) + 1 /\ Len(stack) \in Nat
    BY DEF Pushed, TypeOK, Shape
  <2>2. Len(stack) + 1 \in 1..Len(stack')
    BY <2>1
  <2> QED BY <2>1, <2>2 DEF Went, TypeOK, Shape
<1>2. \E g \in Fns : c = Called(g)
  <2>1. c.kind = "fn"
    BY DEF Closes
  <2> QED BY <2>1 DEF Pushed, Frame
<1>3. c.committed = committed
  BY <1>2, CalledIs
<1> HIDE DEF c
<1>4. Len(Code(c)) \in Nat /\ Len(Code(c)) >= 1
  BY <1>1, ClosesCode DEF c
<1>5. c.pc = 1 /\ c.phase = "body" /\ stack'[Len(stack')] = c
  BY <1>1 DEF Fresh, c
<1>6. \A j \in Len(stack')..Len(stack') : stack'[j].level = stack'[Len(stack')].level
  BY <1>1
<1> HIDE DEF Fresh
<1> QED BY <1>1, <1>3, <1>4, <1>5, <1>6 DEF ClosesIs
\* A statement that goes on, seen from a function that was on the stack.
LEMMA ClosingWent ==
  ASSUME TypeOK, TypeOK', RegionInv(stack), ClosingNow, Statement, Went,
         Len(stack') = Len(stack) \/ Pushed, NEW i \in 1..Len(stack), Closes(stack[i])
  PROVE  ClosesIs(stack', mode', txs'[Len(txs')].work, committed', i)
<1> DEFINE n == Len(stack)
           w2 == txs'[Len(txs')].work
<1>1. /\ n \in Nat /\ FrameOK(stack[i]) /\ ClosesIs(stack, mode, Tx.work, committed, i)
      /\ n \in 1..n /\ stack[n].level = Len(txs) /\ mode = "run" /\ mode' = "run"
      /\ Top.pc \in 1..Len(Code(Top)) /\ stack[i].pc \in Nat \ {0}
  BY TopIs, FieldsOf DEF Went, ClosingNow, ClosingInv, TypeOK, Shape, Top
<1>2. /\ stack[i].level = Len(txs)
      /\ \A j \in i..n : stack[j].level = Len(txs)
  <2>1. n \in i..n
    BY <1>1
  <2> QED BY <1>1, <2>1 DEF ClosesIs
<1>3. \A j \in 1..n : stack'[j].level = stack[j].level
  BY DEF Went, Alike, Like
<1>4. \A j \in i..Len(stack') : stack'[j].level = Len(txs)
  <2>1. CASE Len(stack') = Len(stack)
    <3>1. \A j \in i..n : j \in 1..n
      OBVIOUS
    <3> QED BY <1>2, <1>3, <2>1, <3>1
  <2>2. CASE Pushed
    <3>1. Len(stack') = n + 1 /\ stack'[n + 1].level = Len(txs)
      BY <1>2, <2>2, ClosingPushed DEF Pushed
    <3>2. \A j \in i..(n + 1) : j = n + 1 \/ (j \in i..n /\ j \in 1..n)
      BY <1>1
    <3> QED BY <1>2, <1>3, <3>1, <3>2
  <2> QED BY <2>1, <2>2
<1>5. /\ Alike(stack[i], stack'[i]) /\ Code(stack'[i]) = Code(stack[i])
      /\ stack'[i].pc = IF i = n THEN stack[i].pc + 1 ELSE stack[i].pc
  BY CodeSame DEF Went
<1>6. /\ stack'[i].level = stack[i].level /\ stack'[i].phase = stack[i].phase
      /\ stack'[i].committed = stack[i].committed /\ stack'[i].fn = stack[i].fn
  BY <1>5 DEF Alike, Like
<1>7. /\ Len(Code(stack[i])) \in Nat /\ Code(stack[i])[Len(Code(stack[i]))].op = "commit"
      /\ stack[i].phase \in {"body", "raised"}
  BY <1>1, ClosesCode, ClosesBasics DEF I
<1>8. \/ committed' = committed /\ ~Commit
      \/ At("commit") /\ w2 = <<>>
  BY CommitsOnly
<1>9. At("commit") => i = n /\ Top.pc = Len(Code(Top))
  BY <1>2, AtIs, ClosesRuns
<1> HIDE DEF w2
<1>10. CASE i # n
  <2>1. committed' = committed
    BY <1>8, <1>9, <1>10
  <2>2. ClosesIs(stack', mode', w2, committed, i)
    BY <1>1, <1>2, <1>4, <1>5, <1>6, <1>10, ClosingKept
  <2> QED BY <2>1, <2>2 DEF w2
<1>11. CASE i = n
  <2>1. /\ Top = stack[i] /\ stack[i].pc <= Len(Code(stack[i])) /\ stack[i].phase = "body"
        /\ committed = stack[i].committed /\ stack'[i].pc = stack[i].pc + 1
    BY <1>1, <1>5, <1>7, <1>11 DEF Top, ClosesIs
  <2>2. CASE At("commit") /\ w2 = <<>>
    <3>1. stack[i].pc = Len(Code(stack[i])) /\ ~Pushed
      <4>1. ~Pushed
        BY <2>2 DEF Pushed, At
      <4> QED BY <1>9, <2>1, <2>2, <4>1
    <3>2. Len(stack') = n
      BY <3>1
    <3>3. ~(stack'[i].pc <= Len(Code(stack'[i])))
      BY <1>5, <1>7, <2>1, <3>1
    <3> QED BY <1>1, <1>2, <1>4, <1>6, <1>11, <2>1, <2>2, <3>2, <3>3 DEF ClosesIs, w2
  <2>3. CASE committed' = committed /\ ~At("commit")
    <3>1. Code(Top)[Top.pc].op # "commit"
      BY <1>1, <2>1, <2>3 DEF At, Went
    <3>2. stack'[i].pc <= Len(Code(stack'[i]))
      <4>1. stack[i].pc # Len(Code(stack[i]))
        BY <1>7, <2>1, <3>1
      <4> QED BY <1>1, <1>5, <1>7, <2>1, <4>1
    <3> QED BY <1>1, <1>2, <1>4, <1>6, <2>1, <2>3, <3>2 DEF ClosesIs
  <2>4. At("commit") => Commit
    BY <1>1 DEF At, Statement, Dml, DmlFails, Savepoint, Flag, If, Transaction, Call, Finally, Return, RaiseErr
  <2> QED BY <1>8, <2>2, <2>3, <2>4
<1> QED BY <1>10, <1>11

\* A function that closes its transaction turns only to raise.
LEMMA ClosingTurns ==
  ASSUME TypeOK, RegionInv(stack), ClosingNow, Turns, NEW i \in 1..Len(stack), Closes(stack[i])
  PROVE  ClosesIs(stack', mode', txs'[Len(txs')].work, committed', i)
<1> DEFINE n == Len(stack)
<1>1. /\ n \in Nat /\ FrameOK(stack[i]) /\ ClosesIs(stack, mode, Tx.work, committed, i)
      /\ n \in 1..n /\ n \in i..n /\ stack[n].level = Len(txs) /\ mode = "run"
      /\ Top.pc \in 1..Len(Code(Top)) /\ UNCHANGED <<stack, txs, committed>>
  BY TopIs DEF Turns, ClosingNow, ClosingInv, TypeOK, Shape, Top
<1>2. stack[i].level = Len(txs)
  BY <1>1 DEF ClosesIs
<1>3. mode' = "raise"
  BY <1>1, <1>2, ClosesRuns DEF Turns
<1>4. stack[i].phase = "body"
  BY <1>1, ClosesBasics DEF ClosesIs
<1>5. stack[i].pc <= Len(Code(stack[i]))
  BY <1>1, <1>4 DEF ClosesIs, Top
<1> QED BY <1>1, <1>3, <1>4, <1>5 DEF ClosesIs

LEMMA ClosingStatement ==
  ASSUME TypeOK, RegionInv(stack), ClosingNow, Statement
  PROVE  ClosingNow' /\ left' = left
<1> DEFINE w2 == txs'[Len(txs')].work
<1>1. TypeOK' /\ ((Went /\ (Len(stack') = Len(stack) \/ Pushed)) \/ Turns)
  BY StatementStep
<1>2. Len(stack) \in Nat
  BY DEF TypeOK, Shape
<1>3. ASSUME NEW i \in 1..Len(stack'), Closes(stack'[i])
      PROVE  ClosesIs(stack', mode', w2, committed', i)
  <2>1. CASE Turns
    <3>1. stack' = stack
      BY <2>1 DEF Turns
    <3> QED BY <1>3, <2>1, <3>1, ClosingTurns
  <2>2. CASE Went /\ i \in 1..Len(stack)
    <3>1. Closes(stack[i])
      BY <1>3, <2>2 DEF Went, Alike, Like, Closes
    <3> QED BY <1>1, <2>2, <3>1, ClosingWent DEF Turns, Went
  <2>3. CASE Went /\ i \notin 1..Len(stack)
    <3>1. Pushed /\ i = Len(stack) + 1 /\ i = Len(stack')
      BY <1>1, <1>2, <2>3 DEF Turns, Went, Pushed
    <3>2. UNCHANGED committed
      <4>1. ~At("commit")
        BY <3>1 DEF Pushed, At
      <4> QED BY <4>1, CommitsOnly
    <3> QED BY <1>1, <1>3, <2>3, <3>1, <3>2, ClosingEntered
  <2> QED BY <1>1, <2>1, <2>2, <2>3
<1>4. left' = left
  BY <1>1 DEF Went, Turns
<1> QED BY <1>3, <1>4 DEF ClosingNow, ClosingInv, Tx
\* A step of a block that is no such function's, seen from one below it.
LEMMA ClosingBelow ==
  ASSUME TypeOK, ClosingNow, NEW i \in 1..Len(stack), i # Len(stack), Closes(stack[i]),
         Len(stack') \in Nat, i <= Len(stack'), Len(stack') <= Len(stack) + 1,
         \A j \in 1..Len(stack) : j <= Len(stack') /\ j # Len(stack) => stack'[j] = stack[j],
         Len(stack) <= Len(stack') => stack'[Len(stack)].level = Top.level,
         Len(stack') = Len(stack) + 1 => stack'[Len(stack) + 1].level = Len(txs),
         mode' # "return", UNCHANGED committed
  PROVE  ClosesIs(stack', mode', txs'[Len(txs')].work, committed', i)
<1> DEFINE n == Len(stack)
<1>1. /\ n \in Nat /\ FrameOK(stack[i]) /\ ClosesIs(stack, mode, Tx.work, committed, i)
      /\ n \in 1..n /\ n \in i..n /\ stack[n].level = Len(txs) /\ Top = stack[n]
  BY TopIs DEF ClosingNow, ClosingInv, TypeOK, Shape, Top
<1>2. \A j \in i..n : stack[j].level = stack[i].level
  BY <1>1 DEF ClosesIs
<1>3. \A j \in i..Len(stack') : stack'[j].level = stack[i].level
  <2> SUFFICES ASSUME NEW j \in i..Len(stack') PROVE stack'[j].level = stack[i].level
    OBVIOUS
  <2>1. CASE j = n + 1
    BY <1>1, <1>2, <2>1
  <2>2. CASE j = n
    BY <1>1, <1>2, <2>2
  <2>3. CASE j # n /\ j # n + 1
    <3>1. j \in 1..n /\ j \in i..n /\ j <= Len(stack')
      BY <1>1, <2>3
    <3> QED BY <1>2, <2>3, <3>1
  <2> QED BY <2>1, <2>2, <2>3
<1>4. stack'[i] = stack[i]
  OBVIOUS
<1>5. ClosesIs(stack', mode', txs'[Len(txs')].work, committed, i)
  BY <1>1, <1>3, <1>4, ClosingKept
<1> QED BY <1>5

LEMMA ClosingTop ==
  ASSUME TypeOK, ClosingNow,
         AfterBody \/ TransactionHandler \/ RetryHandler \/ Reraise \/ AutonomousHandler
  PROVE  ClosingNow' /\ left' = left
<1> DEFINE n == Len(stack)
           w2 == txs'[Len(txs')].work
<1>1. TopOnly /\ TypeOK' /\ mode' # "return"
  <2>1. CASE RetryHandler
    BY <2>1, RetryHandlerStep
  <2>2. CASE ~RetryHandler
    BY <2>2, AfterBodyStep, TransactionHandlerStep, ReraiseStep, AutonomousHandlerStep
  <2> QED BY <2>1, <2>2
<1>2. /\ Len(stack') = n /\ n \in Nat /\ \A i \in 1..n : SamePlace(stack[i], stack'[i])
      /\ \A i \in 1..n : FrameOK(stack[i])
      /\ n \in 1..n /\ Top = stack[n] /\ stack # <<>>
  BY <1>1, TopOnlyPlaces, TopIs DEF TopOnly, TypeOK, Shape, Top
<1>3. UNCHANGED committed
  BY DEF AfterBody, TransactionHandler, RetryHandler, Reraise, AutonomousHandler
<1>4. ASSUME NEW i \in 1..n, Closes(stack'[i])
      PROVE  ClosesIs(stack', mode', w2, committed', i)
  <2>1. Closes(stack[i])
    BY <1>2, <1>4 DEF SamePlace, Closes
  <2>2. CASE i # n
    <3>1. stack'[n].level = Top.level
      BY <1>2 DEF SamePlace
    <3>2. \A j \in 1..n : j <= Len(stack') /\ j # n => stack'[j] = stack[j]
      BY <1>1 DEF TopOnly
    <3> QED BY <1>1, <1>2, <1>3, <2>1, <2>2, <3>1, <3>2, ClosingBelow
  <2>3. CASE i = n
    <3>1. Closes(Top) /\ FrameOK(Top)
      BY <1>2, <2>1, <2>3
    <3>2. Def[Top.fn].retry = 0 /\ Def[Top.fn].finally = NoBlock /\ Top.kind = "fn"
      BY <3>1, ClosesBasics DEF PlainFn
    <3>3. AutonomousHandler
      <4>1. ~RetryHandler
        BY <3>2 DEF RetryHandler
      <4>2. ~TransactionHandler /\ ~AfterBody
        BY <3>2 DEF TransactionHandler, Raising, AfterBody
      <4>3. ~Reraise
        BY <3>2, ReraiseStep
      <4> QED BY <4>1, <4>2, <4>3
    <3>4. /\ mode = "raise" /\ mode' = "raise" /\ Top.phase = "body" /\ stack'[n].phase = "raised"
          /\ w2 = <<>> /\ stack'[n].committed = Top.committed
      BY <1>1, <3>3, AutonomousHandlerStep, NewTxOK DEF TopOnly, Kept
    <3>5. committed = Top.committed
      BY <1>2, <2>1, <2>3, <3>4 DEF ClosingNow, ClosingInv, ClosesIs
    <3>6. \A j \in n..Len(stack') : j = n
      BY <1>2
    <3> HIDE DEF w2
    <3> QED BY <1>2, <1>3, <2>3, <3>4, <3>5, <3>6 DEF ClosesIs
  <2> QED BY <2>2, <2>3
<1>5. ClosingNow'
  BY <1>2, <1>4 DEF ClosingNow, ClosingInv, Tx
<1> QED BY <1>1, <1>5 DEF TopOnly

LEMMA ClosingHandles ==
  ASSUME TypeOK, ClosingNow, FinallyHandler
  PROVE  ClosingNow' /\ left' = left
<1> DEFINE n == Len(stack)
           w2 == txs'[Len(txs')].work
           c == Frame("finally", Top.fn, Def[Top.fn].finally, 0)
<1>1. /\ stack # <<>> /\ Def[Top.fn].finally # NoBlock /\ Len(stack') = n + 1 /\ mode' = "run"
      /\ \A i \in 1..n : i # n => stack'[i] = stack[i]
      /\ Kept(Top, stack'[n]) /\ stack'[n + 1] = c /\ UNCHANGED <<txs, committed, left>>
  BY FinallyHandlerStep
<1>2. c.kind = "finally" /\ c.level = Len(txs)
  BY DEF Frame
<1> HIDE DEF c
<1>3. n \in Nat /\ n \in 1..n /\ Top = stack[n] /\ FrameOK(Top)
  BY <1>1, TopIs DEF TypeOK, Shape, Top
<1>4. ASSUME NEW i \in 1..(n + 1), Closes(stack'[i])
      PROVE  ClosesIs(stack', mode', w2, committed', i)
  <2>1. i # n + 1
    BY <1>1, <1>2, <1>4 DEF Closes
  <2>2. i # n
    <3>1. i = n => Closes(Top)
      BY <1>1, <1>4 DEF Closes, Kept, Like
    <3>2. ~Closes(Top)
      BY <1>1, <1>3, ClosesBasics DEF PlainFn
    <3> QED BY <3>1, <3>2
  <2>3. i \in 1..n /\ Closes(stack[i])
    BY <1>1, <1>3, <1>4, <2>1, <2>2
  <2>4. stack'[n].level = Top.level
    BY <1>1 DEF Kept, Like
  <2>5. Len(stack') \in Nat /\ i <= Len(stack') /\ Len(stack') <= n + 1
    BY <1>1, <1>3
  <2>6. stack'[n + 1].level = Len(txs) /\ mode' # "return" /\ UNCHANGED committed
    BY <1>1, <1>2
  <2>7. \A j \in 1..n : j <= Len(stack') /\ j # n => stack'[j] = stack[j]
    BY <1>1
  <2> QED BY <2>2, <2>3, <2>4, <2>5, <2>6, <2>7, ClosingBelow
<1>5. ClosingNow'
  BY <1>1, <1>4 DEF ClosingNow, ClosingInv, Tx
<1> QED BY <1>1, <1>5

\* A block is left: a function that closes its transaction has left nothing in it, and
\* has committed nothing if it raises.
LEMMA ClosingLeaves ==
  ASSUME TypeOK, ClosingNow, NEW how \in Hows, Leaves(how)
  PROVE  ClosingNow' /\ AutonomousIsAtomic'
<1> DEFINE n == Len(stack)
           w2 == txs'[Len(txs')].work
<1>1. /\ n \in Nat \ {0} /\ Len(stack') = n - 1 /\ n \in 1..n /\ Top = stack[n] /\ FrameOK(Top)
      /\ \A i \in 1..Len(stack') : stack'[i] = stack[i]
  BY LeavesPlaces, TopIs DEF Leaves, Top
<1>2. /\ UNCHANGED committed /\ (mode' = "return" => how = "return")
      /\ left'.kind = Top.kind /\ left'.fn = Top.fn /\ left'.remains = Tx.work
      /\ left'.how = how /\ left'.durable = committed /\ left'.committed = Top.committed
  BY DEF Leaves, LeaveWith
<1>3. ASSUME NEW i \in 1..n, Closes(stack[i])
      PROVE  how # "return" /\ ClosesIs(stack, mode, Tx.work, committed, i)
  BY <1>3 DEF ClosingNow, ClosingInv, ClosesIs, Leaves
<1>4. ASSUME NEW i \in 1..Len(stack'), Closes(stack'[i])
      PROVE  ClosesIs(stack', mode', w2, committed', i)
  <2>1. i \in 1..n /\ i # n /\ Closes(stack[i]) /\ i <= Len(stack')
    BY <1>1, <1>4
  <2>2. mode' # "return"
    BY <1>2, <1>3, <2>1
  <2>3. /\ Len(stack') \in Nat /\ Len(stack') <= n + 1 /\ Len(stack') # n + 1
        /\ ~(n <= Len(stack'))
    BY <1>1
  <2>4. \A j \in 1..n : j <= Len(stack') /\ j # n => stack'[j] = stack[j]
    BY <1>1
  <2> QED BY <1>2, <2>1, <2>2, <2>3, <2>4, ClosingBelow
<1>5. ClosingNow'
  BY <1>4 DEF ClosingNow, ClosingInv, Tx
<1>6. ASSUME Closes(Top)
      PROVE  Tx.work = <<>> /\ (how = "raise" => committed = Top.committed)
  <2>1. ClosesIs(stack, mode, Tx.work, committed, n) /\ how # "return"
    BY <1>1, <1>3, <1>6
  <2>2. Top.phase \in {"body", "raised"} /\ OwnTx(Top) /\ Def[Top.fn].finally = NoBlock
        /\ Top.pc \in Nat /\ Len(Code(Top)) \in Nat
    BY <1>1, <1>6, ClosesBasics, ClosesCode, FieldsOf DEF PlainFn
  <2>3. CASE how = "end"
    <3>1. mode = "run" /\ Top.pc > Len(Code(Top))
      BY <2>3 DEF Leaves
    <3>2. Top.phase = "body" /\ ~(Top.pc <= Len(Code(Top)))
      BY <1>1, <2>1, <2>2, <3>1 DEF ClosesIs
    <3> QED BY <1>1, <2>1, <2>3, <3>2 DEF ClosesIs
  <2>4. CASE how = "raise"
    <3>1. Top.phase = "raised"
      BY <2>2, <2>4 DEF Leaves, OwnTx
    <3> QED BY <1>1, <2>1, <3>1 DEF ClosesIs
  <2> QED BY <2>1, <2>3, <2>4 DEF Hows
<1>7. AutonomousIsAtomic'
  BY <1>2, <1>6 DEF AutonomousIsAtomic, Closes
<1> QED BY <1>5, <1>7

\* The inductive invariant: the blocks of a function that closes its transaction run in
\* that transaction, and none of them commits.
ClosingAll == TypeOK /\ RegionInv(stack) /\ ClosingNow /\ AutonomousIsAtomic

LEMMA ClosingInit == Init => ClosingAll
<1> SUFFICES ASSUME Init PROVE ClosingAll
  OBVIOUS
<1>1. TypeOK /\ RegionInv(stack)
  BY TypeInit, RegionInit
<1>2. AutonomousIsAtomic
  BY DEF Init, AutonomousIsAtomic, NotLeft
<1>3. ASSUME NEW i \in 1..Len(stack) PROVE ~Closes(stack[i])
  <2>1. i = 1
    BY DEF Init
  <2>2. ~OwnTx(stack[1]) /\ FrameOK(stack[1])
    <3>1. stack # <<>>
      BY DEF Init
    <3> QED BY <1>1, <2>1, <3>1 DEF TypeOK, Shape
  <2> QED BY <2>1, <2>2, ClosesBasics
<1> QED BY <1>1, <1>2, <1>3 DEF ClosingAll, ClosingNow, ClosingInv

LEMMA ClosingNext == ClosingAll /\ [Next]_vars => ClosingAll'
<1> SUFFICES ASSUME ClosingAll, [Next]_vars PROVE ClosingAll'
  OBVIOUS
<1>0. TypeOK /\ RegionInv(stack) /\ ClosingNow /\ AutonomousIsAtomic
  BY DEF ClosingAll
<1>1. TypeOK' /\ RegionInv(stack')
  BY <1>0, TypeStep, RegionNext
<1>2. ASSUME ClosingNow', left' = left PROVE ClosingAll'
  <2>1. AutonomousIsAtomic'
    BY <1>0, <1>2 DEF AutonomousIsAtomic
  <2> QED BY <1>1, <1>2, <2>1 DEF ClosingAll
<1>3. CASE Statement
  BY <1>0, <1>2, <1>3, ClosingStatement
<1>4. CASE AfterBody \/ TransactionHandler \/ RetryHandler \/ Reraise \/ AutonomousHandler
  BY <1>0, <1>2, <1>4, ClosingTop
<1>5. CASE FinallyHandler
  BY <1>0, <1>2, <1>5, ClosingHandles
<1>6. CASE FallOut \/ Returning \/ Unwind
  <2>1. PICK how \in Hows : Leaves(how)
    BY <1>0, <1>6, LeavesStep
  <2> QED BY <1>0, <1>1, <2>1, ClosingLeaves DEF ClosingAll
<1>7. CASE UNCHANGED vars
  <2>1. ClosingNow'
    BY <1>0, <1>7 DEF vars, ClosingNow, Tx
  <2> QED BY <1>2, <1>7, <2>1 DEF vars
<1> QED BY <1>3, <1>4, <1>5, <1>6, <1>7 DEF Next, Handler, Finished

\* An autonomous function without return or finally, whose body neither holds a
\* transaction block nor calls another autonomous function, leaves nothing uncommitted
\* behind it; and when it raises, it has committed no row: the COMMIT at its end, and the
\* ROLLBACK of its handler, are the only places where its transaction ends.
THEOREM AutonomousIsAtomicHolds == Spec => []AutonomousIsAtomic
<1>1. Init => ClosingAll
  BY ClosingInit
<1>2. ClosingAll /\ [Next]_vars => ClosingAll'
  BY ClosingNext
<1>3. ClosingAll => AutonomousIsAtomic
  BY DEF ClosingAll
<1> QED BY <1>1, <1>2, <1>3, PTL DEF Spec
----------------------------------------------------------------------------
(* Attempts.                                                                *)

Trying(fr) ==
  fr.kind = "fn" /\ Def[fr.fn].retry > 0 /\ Def[fr.fn].body \in Plain /\ fr.fn \notin Nests

\* The savepoint of the attempts is set in t, at the end of the work w.
HasAttempt(t, w) ==
  \E k \in 1..Len(t.saves) : t.saves[k].name = Attempt /\ SubSeq(t.work, 1, t.saves[k].at) = w

\* A function that is retried, in the transaction t: it starts with the work of its caller,
\* and from its savepoint on that work can be restored.
TryIs(st, m, t, i) ==
  /\ st[i].phase = "body" /\ st[i].pc = 1 => i = Len(st) /\ m = "run" /\ t.work = st[i].work
  /\ st[i].phase = "body" /\ st[i].pc # 1 => HasAttempt(t, st[i].work)
  /\ st[i].phase = "raised" => i = Len(st) /\ m = "raise"
AttemptInv(st, m, ts) ==
  \A i \in 1..Len(st) : Trying(st[i]) => TryIs(st, m, ts[st[i].level], i)
AttemptNow == AttemptInv(stack, mode, txs)

\* What such a function is: no finally block, no transaction of its own, and its savepoint first.
LEMMA TryingBasics ==
  ASSUME NEW fr, FrameOK(fr), Trying(fr)
  PROVE  /\ PlainFn(fr) /\ ~OwnTx(fr) /\ fr.fn \in Fns /\ fr.phase \in {"body", "raised"}
         /\ Len(Code(fr)) >= 1 /\ Code(fr)[1] = I("savepoint", Attempt)
         /\ \A g \in Calls(Region(fr)) : ~(Def[g].retry > 0)
<1>1. fr.kind = "fn" /\ fr.fn \in Fns /\ Def[fr.fn].retry > 0 /\ Def[fr.fn].body \in Plain
  BY FieldsOf DEF Trying
<1>2. Def[fr.fn].finally = NoBlock /\ ~Def[fr.fn].autonomous
  BY <1>1, RejectedAssumption
<1>3. fr.phase \in {"body", "raised"}
  BY <1>2, FieldsOf DEF FrameOK, Phases
<1>4. CodeOK(fr)
  BY <1>3, CodeIs
<1>5. \A g \in Calls(Region(fr)) : ~(Def[g].retry > 0)
  BY <1>1 DEF Trying, Nests, Region
<1> QED BY <1>1, <1>2, <1>3, <1>4, <1>5 DEF PlainFn, OwnTx, CodeOK

\* The transaction of a block is one of those that are open.
LEMMA LevelIs ==
  ASSUME TypeOK, NEW i \in 1..Len(stack)
  PROVE  /\ stack[i].level \in 1..Len(txs) /\ Len(txs) \in Nat /\ FrameOK(stack[i])
         /\ OwnTx(Top) /\ i # Len(stack) => stack[i].level <= Len(txs) - 1
<1>1. /\ Len(stack) \in Nat /\ Len(stack) \in 1..Len(stack) /\ Len(stack) \in i..Len(stack)
      /\ stack # <<>> /\ stack[Len(stack)].level = Len(txs) /\ FrameOK(stack[i])
      /\ Len(txs) \in Nat /\ Top = stack[Len(stack)]
  BY DEF TypeOK, Shape, TxsOK, Top
<1>2. stack[i].level \in Nat \ {0} /\ stack[i].level <= Len(txs)
  BY <1>1, FieldsOf, Levels DEF TypeOK
<1>3. ASSUME OwnTx(Top), i # Len(stack) PROVE stack[i].level <= Len(txs) - 1
  <2>1. /\ Len(stack) \in 2..Len(stack) /\ Len(stack) - 1 \in i..Len(stack)
        /\ Len(stack) - 1 \in 1..Len(stack)
    BY <1>1, <1>3
  <2>2. Len(txs) = stack[Len(stack) - 1].level + 1
    BY <1>1, <1>3, <2>1 DEF TypeOK, Shape
  <2>3. stack[i].level <= stack[Len(stack) - 1].level /\ stack[Len(stack) - 1].level \in Nat
    BY <2>1, Levels DEF TypeOK
  <2> QED BY <1>2, <2>2, <2>3
<1> QED BY <1>1, <1>2, <1>3

\* What a function that is retried runs in its transaction: no COMMIT, and no savepoint
\* but its own first statement.
LEMMA TryingRuns ==
  ASSUME TypeOK, RegionInv(stack), NEW i \in 1..Len(stack), Trying(stack[i]),
         stack[i].level = Len(txs)
  PROVE  /\ ~OwnTx(Top) /\ Top.kind # "tx"
         /\ i # Len(stack) => ~(Top.kind = "fn" /\ Def[Top.fn].retry > 0)
         /\ Top.pc \in 1..Len(Code(Top)) =>
              /\ Code(Top)[Top.pc].op # "commit"
              /\ Code(Top)[Top.pc].op = "savepoint" => i = Len(stack) /\ Top.pc = 1
<1> DEFINE bs == Region(stack[i])
<1>1. FrameOK(stack[i])
  BY LevelIs
<1>2. PlainFn(stack[i]) /\ ~OwnTx(stack[i]) /\ \A g \in Calls(bs) : ~(Def[g].retry > 0)
  BY <1>1, TryingBasics
<1>3. /\ \A p \in 1..Len(Code(Top)) : StmtIs(bs, Top, p, Code(Top)[p])
      /\ bs \in SUBSET DOMAIN Block /\ Top.kind # "tx"
      /\ i # Len(stack) => Under(bs, Top)
  BY <1>2, TopWithin DEF Within
<1>4. \A s \in StmtsOf(bs) : s.op \in {"dml", "call", "if", "transaction", "return", "err"}
  <2>1. \A s \in StmtsOf(bs) : s \in Stmts
    BY <1>3 DEF StmtsOf, Stmts
  <2> QED BY <2>1, BlockAssumption
<1> HIDE DEF bs
<1>5. ~OwnTx(Top)
  BY <1>2, <1>3 DEF Under, Top
<1>6. i # Len(stack) => ~(Top.kind = "fn" /\ Def[Top.fn].retry > 0)
  BY <1>2, <1>3 DEF Under
<1>7. ASSUME Top.pc \in 1..Len(Code(Top))
      PROVE  /\ Code(Top)[Top.pc].op # "commit"
             /\ Code(Top)[Top.pc].op = "savepoint" => i = Len(stack) /\ Top.pc = 1
  <2> DEFINE x == Code(Top)[Top.pc]
  <2>1. StmtIs(bs, Top, Top.pc, x)
    BY <1>3, <1>7
  <2> HIDE DEF x
  <2>2. CASE x \in StmtsOf(bs)
    BY <1>4, <2>2 DEF x
  <2>3. CASE x = I("return", NoArg) \/ x = I("finally", NoArg)
    BY <2>3 DEF x, I
  <2>4. CASE Top.kind = "fn" /\ Def[Top.fn].retry > 0 /\ Top.pc = 1 /\ x = I("savepoint", Attempt)
    BY <1>6, <2>4 DEF x, I
  <2> QED BY <1>5, <2>1, <2>2, <2>3, <2>4 DEF StmtIs
<1> QED BY <1>3, <1>5, <1>6, <1>7

\* More work leaves what the savepoint restores alone.
LEMMA AttemptKept ==
  ASSUME NEW t, TxOK(t), NEW r \in Row, NEW w, HasAttempt(t, w)
  PROVE  HasAttempt([t EXCEPT !.work = Append(@, r)], w)
<1> DEFINE u == [t EXCEPT !.work = Append(@, r)]
<1>1. t \in TxT /\ t.work \in Seq(Row) /\ t.saves \in Seq(SaveT)
  BY DEF TxOK, TxT
<1>2. u.saves = t.saves /\ u.work = Append(t.work, r)
  BY <1>1 DEF TxT
<1> HIDE DEF u
<1>3. PICK k \in 1..Len(t.saves) :
         t.saves[k].name = Attempt /\ SubSeq(t.work, 1, t.saves[k].at) = w
  BY DEF HasAttempt
<1> DEFINE at == t.saves[k].at
<1>4. at \in Nat /\ at <= Len(t.work)
  <2>1. t.saves[k] \in SaveT
    BY <1>1
  <2> QED BY <2>1 DEF TxOK, SaveT
<1> HIDE DEF at
<1>5. SubSeq(Append(t.work, r), 1, at) = SubSeq(t.work, 1, at)
  BY <1>1, <1>4
<1> QED BY <1>2, <1>3, <1>5 DEF HasAttempt, at, u

\* The savepoint that is set restores the work there is.
LEMMA AttemptSet ==
  ASSUME TypeOK
  PROVE  HasAttempt([Tx EXCEPT !.saves = Append(Unset(Attempt), [name |-> Attempt, at |-> Len(Tx.work)])],
                    Tx.work)
<1> DEFINE e == [name |-> Attempt, at |-> Len(Tx.work)]
           ns == Append(Unset(Attempt), e)
           u == [Tx EXCEPT !.saves = ns]
<1>1. Tx \in TxT /\ TxOK(Tx) /\ Tx.work \in Seq(Row) /\ Len(Tx.work) \in Nat
  BY TopIs
<1>2. Unset(Attempt) \in Seq(SaveT)
  BY <1>1, UnsetIs DEF SaveNames
<1>3. Len(ns) \in 1..Len(ns) /\ ns[Len(ns)] = e
  BY <1>2
<1>4. e.name = Attempt /\ e.at = Len(Tx.work)
  OBVIOUS
<1> HIDE DEF e, ns
<1>5. u.saves = ns /\ u.work = Tx.work
  BY <1>1 DEF TxT
<1>6. SubSeq(Tx.work, 1, Len(Tx.work)) = Tx.work
  BY <1>1
<1> HIDE DEF u
<1>7. HasAttempt(u, Tx.work)
  BY <1>3, <1>4, <1>5, <1>6 DEF HasAttempt
<1> QED BY <1>7 DEF u, ns, e

\* Rolling back to it restores that work.
LEMMA AttemptUndone ==
  ASSUME TypeOK, NEW w, HasAttempt(Tx, w)
  PROVE  RolledBack(Attempt).work = w
<1>1. TxOK(Tx) /\ Tx \in TxT /\ Tx.saves \in Seq(SaveT)
  BY TopIs DEF TxT
<1>2. PICK k \in 1..Len(Tx.saves) :
         Tx.saves[k].name = Attempt /\ SubSeq(Tx.work, 1, Tx.saves[k].at) = w
  BY DEF HasAttempt
<1>3. k \in Saved(Attempt)
  BY <1>2 DEF Saved
<1>4. PICK i \in Saved(Attempt) : RolledBack(Attempt).work = SubSeq(Tx.work, 1, Tx.saves[i].at)
  BY <1>1, <1>3, TxRollback
<1>5. i = k
  <2>1. i \in 1..Len(Tx.saves) /\ Tx.saves[i].name = Tx.saves[k].name
    BY <1>2 DEF Saved
  <2>2. i \in 1..k \/ k \in 1..i
    BY <2>1
  <2> QED BY <1>1, <2>1, <2>2 DEF TxOK
<1> QED BY <1>2, <1>4, <1>5
\* What statements do to the transactions.
LEMMA TxsGo ==
  ASSUME TypeOK, Statement
  PROVE  \/ UNCHANGED txs /\ ~At("savepoint")
         \/ txs' = Append(txs, NewTx) /\ ~At("savepoint")
         \/ At("dml") /\ Arg \in Row /\ SetTx([Tx EXCEPT !.work = Append(@, Arg)])
         \/ /\ At("savepoint")
            /\ SetTx([Tx EXCEPT !.saves = Append(Unset(Arg), [name |-> Arg, at |-> Len(Tx.work)])])
            /\ SetTop(Advanced)
         \/ At("commit")
<1>1. CASE Dml
  <2>1. At("dml") /\ SetTx([Tx EXCEPT !.work = Append(@, Arg)])
    BY <1>1 DEF Dml
  <2>2. Arg \in Row
    BY <2>1, AtIs, InstrArgs DEF Arg, Row
  <2> QED BY <2>1, <2>2
<1>2. CASE Savepoint
  BY <1>2 DEF Savepoint
<1>3. CASE Commit
  BY <1>3 DEF Commit
<1>4. CASE Call
  BY <1>4 DEF Call, At
<1>5. CASE DmlFails \/ Flag \/ If \/ Transaction \/ Finally \/ Return \/ RaiseErr
  BY <1>5 DEF DmlFails, Flag, If, Transaction, Finally, Return, RaiseErr, At
<1> QED BY <1>1, <1>2, <1>3, <1>4, <1>5 DEF Statement

\* Statements keep what the savepoint of an attempt that has begun restores.
LEMMA AttemptStatement ==
  ASSUME TypeOK, RegionInv(stack), Statement, Top.pc \in 1..Len(Code(Top)),
         NEW i \in 1..Len(stack), Trying(stack[i]), stack[i].pc # 1,
         HasAttempt(txs[stack[i].level], stack[i].work)
  PROVE  HasAttempt(txs'[stack[i].level], stack[i].work)
<1> DEFINE l == stack[i].level
           w == stack[i].work
           t == [Tx EXCEPT !.work = Append(@, Arg)]
           u == [Tx EXCEPT !.saves = Append(Unset(Arg), [name |-> Arg, at |-> Len(Tx.work)])]
<1>1. l \in 1..Len(txs) /\ Len(txs) \in Nat /\ txs \in Seq(TxT) /\ HasAttempt(txs[l], w)
  BY LevelIs DEF TypeOK, TxsOK
<1> HIDE DEF l, w
<1>2. CASE UNCHANGED txs \/ txs' = Append(txs, NewTx)
  <2>1. txs'[l] = txs[l]
    BY <1>1, <1>2
  <2> QED BY <1>1, <2>1 DEF l, w
<1>3. CASE At("dml") /\ Arg \in Row /\ SetTx(t)
  <2>1. TxOK(Tx) /\ TxOK(t)
    BY <1>3, TopIs, TxDml
  <2>2. txs'[Len(txs)] = t /\ \A k \in 1..Len(txs) : k # Len(txs) => txs'[k] = txs[k]
    <3> HIDE DEF t
    <3> QED BY <1>3, <2>1, TxStep
  <2>3. CASE l = Len(txs)
    <3>1. HasAttempt(Tx, w)
      BY <1>1, <2>3 DEF Tx
    <3>2. HasAttempt(t, w)
      BY <1>3, <2>1, <3>1, AttemptKept
    <3> QED BY <2>2, <2>3, <3>2 DEF l, w
  <2>4. CASE l # Len(txs)
    <3>1. txs'[l] = txs[l]
      BY <1>1, <2>2, <2>4
    <3> QED BY <1>1, <3>1 DEF l, w
  <2> QED BY <2>3, <2>4
<1>4. CASE \/ At("savepoint") /\ SetTx(u)
           \/ At("commit")
  <2>1. l # Len(txs)
    <3>1. ASSUME l = Len(txs) PROVE FALSE
      <4>1. stack[i].level = Len(txs)
        BY <3>1 DEF l
      <4>2. Code(Top)[Top.pc].op \in {"savepoint", "commit"}
        BY <1>4, AtIs
      <4>3. i = Len(stack) /\ Top.pc = 1
        BY <4>1, <4>2, TryingRuns
      <4> QED BY <4>3 DEF Top
    <3> QED BY <3>1
  <2>2. \A k \in 1..Len(txs) : k # Len(txs) => txs'[k] = txs[k]
    <3>1. \E v : txs' = [txs EXCEPT ![Len(txs)] = v]
      <4>1. CASE At("savepoint") /\ SetTx(u)
        BY <4>1 DEF SetTx
      <4>2. CASE At("commit")
        <5>1. Commit
          BY <4>2 DEF At, Statement, Dml, DmlFails, Savepoint, Flag, If, Transaction, Call, Finally,
                      Return, RaiseErr
        <5> QED BY <5>1 DEF Commit, SetTx
      <4> QED BY <1>4, <4>1, <4>2
    <3> QED BY <1>1, <3>1
  <2>3. txs'[l] = txs[l]
    BY <1>1, <2>1, <2>2
  <2> QED BY <1>1, <2>3 DEF l, w
<1>5. \/ UNCHANGED txs \/ txs' = Append(txs, NewTx)
      \/ At("dml") /\ Arg \in Row /\ SetTx(t)
      \/ At("savepoint") /\ SetTx(u)
      \/ At("commit")
  BY TxsGo
<1> QED BY <1>2, <1>3, <1>4, <1>5

\* A statement that goes on, seen from a function that was on the stack.
LEMMA AttemptWent ==
  ASSUME TypeOK, TypeOK', RegionInv(stack), AttemptNow, Statement, Went,
         NEW i \in 1..Len(stack), Trying(stack[i])
  PROVE  TryIs(stack', mode', txs'[stack[i].level], i)
<1> DEFINE n == Len(stack)
<1>1. /\ n \in Nat /\ FrameOK(stack[i]) /\ TryIs(stack, mode, txs[stack[i].level], i)
      /\ stack[n].level = Len(txs) /\ mode = "run" /\ mode' = "run" /\ Top = stack[n]
      /\ Top.pc \in 1..Len(Code(Top)) /\ stack[i].pc \in Nat \ {0} /\ Len(txs) \in Nat
  BY TopIs, FieldsOf DEF Went, AttemptNow, AttemptInv, TypeOK, Shape, Top, TxsOK
<1>2. /\ stack'[i].phase = stack[i].phase /\ stack'[i].work = stack[i].work
      /\ stack'[i].pc = IF i = n THEN stack[i].pc + 1 ELSE stack[i].pc
  BY DEF Went, Alike
<1>3. stack[i].phase = "body"
  BY <1>1, TryingBasics DEF TryIs
<1>4. CASE stack[i].pc = 1
  <2>1. i = n /\ Tx.work = stack[i].work /\ Top = stack[i]
    BY <1>1, <1>3, <1>4 DEF TryIs, Tx
  <2>2. Code(Top)[Top.pc] = I("savepoint", Attempt)
    BY <1>1, <1>4, <2>1, TryingBasics
  <2>3. At("savepoint") /\ Arg = Attempt
    <3>1. I("savepoint", Attempt).op = "savepoint" /\ I("savepoint", Attempt).arg = Attempt
      BY DEF I
    <3> QED BY <1>1, <2>2, <3>1 DEF At, Arg, Went
  <2> DEFINE u == [Tx EXCEPT !.saves = Append(Unset(Attempt), [name |-> Attempt, at |-> Len(Tx.work)])]
  <2>4. SetTx(u)
    <3>1. ~At("dml") /\ ~At("commit")
      BY <2>3 DEF At
    <3> QED BY <2>3, <3>1, TxsGo
  <2>5. txs'[Len(txs)] = u
    <3>1. txs \in Seq(TxT) /\ Len(txs) \in 1..Len(txs)
      BY TopIs DEF TypeOK, TxsOK
    <3> HIDE DEF u
    <3> QED BY <2>4, <3>1 DEF SetTx
  <2>6. HasAttempt(u, Tx.work)
    BY AttemptSet
  <2> HIDE DEF u
  <2>7. HasAttempt(txs'[stack[i].level], stack[i].work)
    BY <1>1, <2>1, <2>5, <2>6
  <2>8. stack'[i].pc # 1
    BY <1>2, <1>4, <2>1
  <2> QED BY <1>2, <1>3, <2>7, <2>8 DEF TryIs
<1>5. CASE stack[i].pc # 1
  <2>1. HasAttempt(txs[stack[i].level], stack[i].work)
    BY <1>1, <1>3, <1>5 DEF TryIs
  <2>2. HasAttempt(txs'[stack[i].level], stack[i].work)
    BY <1>1, <1>5, <2>1, AttemptStatement
  <2>3. stack'[i].pc # 1
    BY <1>1, <1>2, <1>5
  <2> QED BY <1>2, <1>3, <2>2, <2>3 DEF TryIs
<1> QED BY <1>4, <1>5

LEMMA AttemptTurns ==
  ASSUME TypeOK, RegionInv(stack), AttemptNow, Turns, NEW i \in 1..Len(stack), Trying(stack[i])
  PROVE  TryIs(stack', mode', txs'[stack[i].level], i)
<1> DEFINE n == Len(stack)
<1>1. /\ FrameOK(stack[i]) /\ TryIs(stack, mode, txs[stack[i].level], i) /\ mode = "run"
      /\ Code(Top)[Top.pc].op \in {"dml", "err", "return"} /\ UNCHANGED <<stack, txs>>
  BY LevelIs DEF Turns, AttemptNow, AttemptInv
<1>2. stack[i].phase = "body"
  BY <1>1, TryingBasics DEF TryIs
<1>3. stack[i].pc # 1
  <2>1. ASSUME stack[i].pc = 1 PROVE FALSE
    <3>1. Top = stack[i]
      BY <1>1, <1>2, <2>1 DEF TryIs, Top
    <3>2. Code(Top)[Top.pc] = I("savepoint", Attempt)
      BY <1>1, <2>1, <3>1, TryingBasics
    <3> QED BY <1>1, <3>2 DEF I
  <2> QED BY <2>1
<1> QED BY <1>1, <1>2, <1>3 DEF TryIs

\* A function that is entered starts with the work of its caller.
LEMMA AttemptEntered ==
  ASSUME TypeOK, TypeOK', Statement, Went, Pushed, Trying(stack'[Len(stack) + 1])
  PROVE  TryIs(stack', mode', txs'[stack'[Len(stack) + 1].level], Len(stack) + 1)
<1> DEFINE c == stack'[Len(stack) + 1]
<1>1. /\ Len(stack') = Len(stack) + 1 /\ Len(stack) \in Nat /\ Fresh(c) /\ mode' = "run"
      /\ FrameOK(c)
  <2>1. Len(stack') = Len(stack) + 1 /\ Len(stack) \in Nat
    BY DEF Pushed, TypeOK, Shape
  <2>2. Len(stack) + 1 \in 1..Len(stack')
    BY <2>1
  <2> QED BY <2>1, <2>2 DEF Went, TypeOK, Shape
<1>2. At("call") /\ Arg \in Fns /\ c = Called(Arg)
  <2>1. c.kind = "fn"
    BY DEF Trying
  <2> QED BY <2>1 DEF Pushed, Frame
<1> HIDE DEF c
<1>3. ~OwnTx(c)
  BY <1>1, TryingBasics DEF c
<1> DEFINE g == Arg
<1>4. Call
  BY <1>2 DEF At, Statement, Dml, DmlFails, Savepoint, Flag, If, Transaction, Commit, Finally,
              Return, RaiseErr
<1>5. /\ c.kind = "fn" /\ c.fn = g /\ c.level = Len(txs) + (IF OwnTx(c) THEN 1 ELSE 0)
      /\ ~Def[g].autonomous => c.work = Tx.work
  BY <1>2, CalledIs
<1>6. ~Def[g].autonomous /\ Len(txs) \in Nat
  BY <1>3, <1>5 DEF OwnTx, TypeOK, TxsOK
<1>7. txs' = txs
  BY <1>4, <1>6, CallStep
<1>8. c.level = Len(txs) /\ c.work = txs'[c.level].work
  BY <1>3, <1>5, <1>6, <1>7 DEF Tx
<1>9. c.pc = 1 /\ c.phase = "body"
  BY <1>1 DEF Fresh
<1> QED BY <1>1, <1>8, <1>9 DEF TryIs, c
LEMMA AttemptStep ==
  ASSUME TypeOK, RegionInv(stack), AttemptNow, Statement
  PROVE  AttemptNow'
<1>1. TypeOK' /\ ((Went /\ (Len(stack') = Len(stack) \/ Pushed)) \/ Turns)
  BY StatementStep
<1>2. Len(stack) \in Nat
  BY DEF TypeOK, Shape
<1>3. ASSUME NEW i \in 1..Len(stack'), Trying(stack'[i])
      PROVE  TryIs(stack', mode', txs'[stack'[i].level], i)
  <2>1. CASE Turns
    <3>1. stack' = stack
      BY <2>1 DEF Turns
    <3> QED BY <1>3, <2>1, <3>1, AttemptTurns
  <2>2. CASE Went /\ i \in 1..Len(stack)
    <3>1. Trying(stack[i]) /\ stack'[i].level = stack[i].level
      BY <1>3, <2>2 DEF Went, Alike, Like, Trying
    <3>2. TryIs(stack', mode', txs'[stack[i].level], i)
      BY <1>1, <2>2, <3>1, AttemptWent
    <3> QED BY <3>1, <3>2
  <2>3. CASE Went /\ i \notin 1..Len(stack)
    <3>1. Pushed /\ i = Len(stack) + 1
      BY <1>1, <1>2, <2>3 DEF Turns, Went, Pushed
    <3> QED BY <1>1, <1>3, <2>3, <3>1, AttemptEntered
  <2> QED BY <1>1, <2>1, <2>2, <2>3
<1> QED BY <1>3 DEF AttemptNow, AttemptInv

\* A function below the innermost block keeps what its savepoint restores.
LEMMA AttemptBelow ==
  ASSUME TypeOK, AttemptNow, NEW i \in 1..Len(stack), i # Len(stack), Trying(stack[i]),
         stack'[i] = stack[i], txs'[stack[i].level] = txs[stack[i].level]
  PROVE  TryIs(stack', mode', txs'[stack'[i].level], i)
<1>1. TryIs(stack, mode, txs[stack[i].level], i) /\ FrameOK(stack[i])
  BY LevelIs DEF AttemptNow, AttemptInv
<1>2. stack[i].phase = "body" /\ stack[i].pc # 1
  BY <1>1, TryingBasics DEF TryIs
<1> QED BY <1>1, <1>2 DEF TryIs

\* A handler of another block leaves the transaction of such a function alone.
LEMMA AttemptUntouched ==
  ASSUME TypeOK, RegionInv(stack), NEW i \in 1..Len(stack), i # Len(stack), Trying(stack[i]),
         AfterBody \/ TransactionHandler \/ RetryHandler \/ Reraise \/ AutonomousHandler
  PROVE  txs'[stack[i].level] = txs[stack[i].level]
<1> DEFINE l == stack[i].level
<1>1. l \in 1..Len(txs) /\ txs \in Seq(TxT) /\ Len(txs) \in Nat
  BY LevelIs DEF TypeOK, TxsOK
<1>2. CASE UNCHANGED txs
  BY <1>2
<1>3. CASE ~UNCHANGED txs
  <2>1. TransactionHandler \/ RetryHandler \/ AutonomousHandler
    BY <1>3 DEF AfterBody, Reraise
  <2>2. Top.kind = "tx" \/ (Top.kind = "fn" /\ Def[Top.fn].retry > 0) \/ OwnTx(Top)
    BY <2>1 DEF TransactionHandler, RetryHandler, AutonomousHandler, Raising, OwnTx
  <2>3. l # Len(txs)
    BY <2>2, TryingRuns
  <2>4. \E v : txs' = [txs EXCEPT ![Len(txs)] = v]
    BY <1>3, <2>1 DEF TransactionHandler, RetryHandler, AutonomousHandler, SetTx, UndoAttempt
  <2> HIDE DEF l
  <2>5. txs'[l] = txs[l]
    BY <1>1, <2>3, <2>4
  <2> QED BY <2>5 DEF l
<1> QED BY <1>2, <1>3

\* The handler of @retry: when it tries again, with the work it began with.
LEMMA AttemptAgain ==
  ASSUME TypeOK, AttemptNow, RetryHandler, Trying(Top)
  PROVE  TryIs(stack', mode', txs'[stack'[Len(stack)].level], Len(stack))
<1> DEFINE n == Len(stack)
<1>1. /\ mode = "raise" /\ Top.phase = "body" /\ TopOnly
      /\ \/ mode' = "raise" /\ stack'[n].phase = "raised"
         \/ /\ mode' = "run" /\ SetTx(RolledBack(Attempt))
            /\ stack'[n].phase = "body" /\ stack'[n].pc = 1
  BY RetryHandlerStep
<1>2. /\ Len(stack') = n /\ stack'[n].level = Top.level /\ stack'[n].work = Top.work
      /\ n \in 1..n /\ Top = stack[n] /\ Top.level = Len(txs)
  BY <1>1, TopIs DEF TopOnly, Kept, Like, Top
<1>3. CASE mode' = "raise" /\ stack'[n].phase = "raised"
  BY <1>2, <1>3 DEF TryIs
<1>4. CASE mode' = "run" /\ SetTx(RolledBack(Attempt)) /\ stack'[n].phase = "body" /\ stack'[n].pc = 1
  <2>1. TryIs(stack, mode, Tx, n)
    BY <1>2 DEF AttemptNow, AttemptInv, Tx
  <2>2. HasAttempt(Tx, Top.work)
    BY <1>1, <1>2, <2>1 DEF TryIs
  <2>3. RolledBack(Attempt).work = Top.work
    BY <2>2, AttemptUndone
  <2>4. txs'[Len(txs)] = RolledBack(Attempt)
    <3>1. txs \in Seq(TxT) /\ Len(txs) \in 1..Len(txs)
      BY TopIs DEF TypeOK, TxsOK
    <3> QED BY <1>4, <3>1 DEF SetTx
  <2> QED BY <1>2, <1>4, <2>3, <2>4 DEF TryIs
<1> QED BY <1>1, <1>3, <1>4

LEMMA AttemptTop ==
  ASSUME TypeOK, RegionInv(stack), AttemptNow,
         AfterBody \/ TransactionHandler \/ RetryHandler \/ Reraise \/ AutonomousHandler
  PROVE  AttemptNow'
<1> DEFINE n == Len(stack)
<1>1. TopOnly
  BY AfterBodyStep, TransactionHandlerStep, RetryHandlerStep, ReraiseStep, AutonomousHandlerStep
<1>2. /\ Len(stack') = n /\ \A i \in 1..n : SamePlace(stack[i], stack'[i])
      /\ n \in 1..n /\ Top = stack[n] /\ FrameOK(Top)
  BY <1>1, TopOnlyPlaces, TopIs DEF TopOnly, Top
<1>3. ASSUME NEW i \in 1..n, Trying(stack'[i])
      PROVE  TryIs(stack', mode', txs'[stack'[i].level], i)
  <2>1. Trying(stack[i])
    BY <1>2, <1>3 DEF SamePlace, Trying
  <2>2. CASE i # n
    <3>1. stack'[i] = stack[i]
      BY <1>1, <2>2 DEF TopOnly
    <3> QED BY <2>1, <2>2, <3>1, AttemptUntouched, AttemptBelow
  <2>3. CASE i = n
    <3>1. Trying(Top) /\ PlainFn(Top) /\ ~OwnTx(Top)
      BY <1>2, <2>1, <2>3, TryingBasics
    <3>2. RetryHandler
      <4>1. ~Reraise
        BY <3>1, ReraiseStep DEF PlainFn
      <4>2. ~TransactionHandler /\ ~AfterBody /\ ~AutonomousHandler
        BY <3>1 DEF TransactionHandler, AfterBody, AutonomousHandler, Raising, PlainFn, OwnTx
      <4> QED BY <4>1, <4>2
    <3> QED BY <2>3, <3>1, <3>2, AttemptAgain
  <2> QED BY <2>2, <2>3
<1> QED BY <1>2, <1>3 DEF AttemptNow, AttemptInv

LEMMA AttemptHandles ==
  ASSUME TypeOK, AttemptNow, FinallyHandler
  PROVE  AttemptNow'
<1> DEFINE n == Len(stack)
           c == Frame("finally", Top.fn, Def[Top.fn].finally, 0)
<1>1. /\ stack # <<>> /\ Def[Top.fn].finally # NoBlock /\ Len(stack') = n + 1
      /\ \A i \in 1..n : i # n => stack'[i] = stack[i]
      /\ Kept(Top, stack'[n]) /\ stack'[n + 1] = c /\ UNCHANGED txs
  BY FinallyHandlerStep
<1>2. c.kind = "finally"
  BY DEF Frame
<1> HIDE DEF c
<1>3. n \in Nat /\ n \in 1..n /\ Top = stack[n] /\ FrameOK(Top)
  BY <1>1, TopIs DEF TypeOK, Shape, Top
<1>4. ASSUME NEW i \in 1..(n + 1), Trying(stack'[i])
      PROVE  TryIs(stack', mode', txs'[stack'[i].level], i)
  <2>1. i # n + 1
    BY <1>1, <1>2, <1>4 DEF Trying
  <2>2. i # n
    <3>1. i = n => Trying(Top)
      BY <1>1, <1>4 DEF Trying, Kept, Like
    <3>2. ~Trying(Top)
      BY <1>1, <1>3, TryingBasics DEF PlainFn
    <3> QED BY <3>1, <3>2
  <2>3. i \in 1..n /\ stack'[i] = stack[i] /\ Trying(stack[i])
    BY <1>1, <1>3, <1>4, <2>1, <2>2
  <2> QED BY <1>1, <2>2, <2>3, AttemptBelow
<1> QED BY <1>1, <1>4 DEF AttemptNow, AttemptInv

LEMMA AttemptLeaves ==
  ASSUME TypeOK, AttemptNow, NEW how \in Hows, Leaves(how)
  PROVE  AttemptNow'
<1> DEFINE n == Len(stack)
<1>1. /\ n \in Nat \ {0} /\ Len(stack') = n - 1
      /\ \A i \in 1..Len(stack') : stack'[i] = stack[i]
  BY LeavesPlaces
<1>2. txs' = IF OwnTx(Top) THEN Front(txs) ELSE txs
  BY DEF Leaves, LeaveWith, OwnTx
<1>3. ASSUME NEW i \in 1..Len(stack'), Trying(stack'[i])
      PROVE  TryIs(stack', mode', txs'[stack'[i].level], i)
  <2>1. i \in 1..n /\ i # n /\ stack'[i] = stack[i] /\ Trying(stack[i])
    BY <1>1, <1>3
  <2>2. /\ stack[i].level \in 1..Len(txs) /\ Len(txs) \in Nat
        /\ OwnTx(Top) => stack[i].level <= Len(txs) - 1
    BY <2>1, LevelIs
  <2>3. txs'[stack[i].level] = txs[stack[i].level]
    <3>1. CASE OwnTx(Top)
      <4>1. txs \in Seq(TxT) /\ txs # <<>>
        BY DEF TypeOK, TxsOK
      <4>2. /\ Len(Front(txs)) = Len(txs) - 1
            /\ \A k \in 1..Len(Front(txs)) : Front(txs)[k] = txs[k]
        BY <4>1, FrontIs
      <4> QED BY <1>2, <2>2, <3>1, <4>2
    <3>2. CASE ~OwnTx(Top)
      BY <1>2, <3>2
    <3> QED BY <3>1, <3>2
  <2> QED BY <2>1, <2>3, AttemptBelow
<1> QED BY <1>3 DEF AttemptNow, AttemptInv

\* The inductive invariant: from its savepoint on, a function that is retried can restore
\* the work it began with, whatever the blocks above it do.
AttemptAll == TypeOK /\ RegionInv(stack) /\ AttemptNow

LEMMA AttemptInit == Init => AttemptAll
<1> SUFFICES ASSUME Init PROVE AttemptAll
  OBVIOUS
<1>1. TypeOK /\ RegionInv(stack)
  BY TypeInit, RegionInit
<1>2. ASSUME NEW i \in 1..Len(stack) PROVE TryIs(stack, mode, txs[stack[i].level], i)
  <2>1. i = 1 /\ Len(stack) = 1
    BY DEF Init
  <2>2. /\ stack[1].pc = 1 /\ stack[1].phase = "body" /\ stack[1].level = 1 /\ mode = "run"
        /\ stack[1].work = <<Before>> /\ txs[1].work = <<Before>>
    BY DEF Init
  <2> QED BY <2>1, <2>2 DEF TryIs
<1> QED BY <1>1, <1>2 DEF AttemptAll, AttemptNow, AttemptInv

LEMMA AttemptNext == AttemptAll /\ [Next]_vars => AttemptAll'
<1> SUFFICES ASSUME AttemptAll, [Next]_vars PROVE AttemptAll'
  OBVIOUS
<1>0. TypeOK /\ RegionInv(stack) /\ AttemptNow
  BY DEF AttemptAll
<1>1. TypeOK' /\ RegionInv(stack')
  BY <1>0, TypeStep, RegionNext
<1>2. AttemptNow'
  <2>1. CASE Statement
    BY <1>0, <2>1, AttemptStep
  <2>2. CASE AfterBody \/ TransactionHandler \/ RetryHandler \/ Reraise \/ AutonomousHandler
    BY <1>0, <2>2, AttemptTop
  <2>3. CASE FinallyHandler
    BY <1>0, <2>3, AttemptHandles
  <2>4. CASE FallOut \/ Returning \/ Unwind
    BY <1>0, <2>4, LeavesStep, AttemptLeaves
  <2>5. CASE UNCHANGED vars
    BY <1>0, <2>5 DEF vars, AttemptNow
  <2> QED BY <2>1, <2>2, <2>3, <2>4, <2>5 DEF Next, Handler, Finished
<1> QED BY <1>1, <1>2 DEF AttemptAll

\* Every attempt at a function under @retry that commits nothing and retries nothing inside
\* begins with the work of its caller: what earlier attempts did is undone, and nothing of
\* the caller's is.
THEOREM AttemptsStartFreshHolds == Spec => []AttemptsStartFresh
<1>1. Init => AttemptAll
  BY AttemptInit
<1>2. AttemptAll /\ [Next]_vars => AttemptAll'
  BY AttemptNext
<1>3. AttemptAll => AttemptsStartFresh
  <2> SUFFICES ASSUME AttemptAll, Attempting, Def[Top.fn].body \in Plain, Top.fn \notin Nests
               PROVE  Tx.work = Top.work
    BY DEF AttemptsStartFresh
  <2>1. /\ stack # <<>> /\ mode = "run" /\ Top.kind = "fn" /\ Def[Top.fn].retry > 0 /\ Top.pc = 1
        /\ TypeOK /\ AttemptNow
    BY DEF Attempting, AttemptAll
  <2>2. Trying(Top)
    BY <2>1 DEF Trying
  <2>3. FrameOK(Top) /\ Top.level = Len(txs) /\ Len(stack) \in 1..Len(stack) /\ Top = stack[Len(stack)]
    BY <2>1, TopIs DEF Top
  <2>4. TryIs(stack, mode, Tx, Len(stack))
    BY <2>1, <2>2, <2>3 DEF AttemptNow, AttemptInv, Tx
  <2>5. Top.phase = "body"
    BY <2>1, <2>2, <2>3, <2>4, TryingBasics DEF TryIs
  <2> QED BY <2>1, <2>3, <2>4, <2>5 DEF TryIs
<1> QED BY <1>1, <1>2, <1>3, PTL DEF Spec

----------------------------------------------------------------------------
(* The code of transaction blocks: where they commit.                       *)

\* In the code e of a block of a transaction block of depth d, a flag or a finally block comes
\* right after a COMMIT or another flag, and after a COMMIT there is nothing but those up to
\* the flag of the transaction block itself.
TidyAt(e, d, p) ==
  /\ e[p].op \in {"flag", "finally"} => p > 1 /\ e[p - 1] \in Commits
  /\ e[p] = I("commit", NoArg) =>
       \E q \in p..Len(e) : e[q] = I("flag", d) /\ \A r \in p..q : e[r] \in Commits
Tidy(e, d) == \A p \in 1..Len(e) : TidyAt(e, d, p)

\* A return comes right after these.
SettledAt(e, p) ==
  e[p].op = "return" => p > 1 /\ e[p - 1] \in Commits \cup {I("finally", NoArg)}
Settled(e) == \A p \in 1..Len(e) : SettledAt(e, p)

\* A copy of such code is such code.
LEMMA TidyCopied ==
  ASSUME NEW S, NEW s \in Seq(S), NEW t \in Seq(S), NEW o \in Nat, NEW p \in 1..Len(s),
         Copied(s, t, o, p), NEW d
  PROVE  /\ Tidy(t, d) => TidyAt(s, d, p)
         /\ Settled(t) => SettledAt(s, p)
<1> DEFINE k == p - o
<1>1. /\ k \in 1..Len(t) /\ Len(t) \in Nat /\ Len(s) \in Nat /\ o + Len(t) <= Len(s)
      /\ p = o + k /\ s[p] = t[k] /\ \A q \in 1..Len(t) : s[o + q] = t[q]
  <2>1. o < p /\ p <= o + Len(t) /\ o + Len(t) <= Len(s) /\ \A q \in 1..Len(t) : s[o + q] = t[q]
    BY Zenon DEF Copied
  <2>2. Len(t) \in Nat /\ Len(s) \in Nat
    OBVIOUS
  <2>3. k \in 1..Len(t) /\ p = o + k
    BY <2>1, <2>2
  <2> HIDE DEF k
  <2>4. s[o + k] = t[k]
    BY <2>1, <2>3
  <2> QED BY <2>1, <2>2, <2>3, <2>4
<1> HIDE DEF k
<1>2. ASSUME k > 1 PROVE p > 1 /\ s[p - 1] = t[k - 1]
  <2>1. k - 1 \in 1..Len(t) /\ o + (k - 1) = p - 1 /\ p > 1
    BY <1>1, <1>2
  <2>2. s[o + (k - 1)] = t[k - 1]
    BY <1>1, <2>1
  <2> QED BY <2>1, <2>2
<1>3. ASSUME NEW q \in k..Len(t)
      PROVE  /\ o + q \in p..Len(s) /\ s[o + q] = t[q]
             /\ \A r \in p..(o + q) : r - o \in k..q /\ s[r] = t[r - o]
  <2>1. o + q \in p..Len(s) /\ q \in 1..Len(t)
    BY <1>1
  <2>2. ASSUME NEW r \in p..(o + q) PROVE r - o \in k..q /\ s[r] = t[r - o]
    <3>1. r - o \in k..q /\ r - o \in 1..Len(t) /\ o + (r - o) = r
      BY <1>1
    <3>2. s[o + (r - o)] = t[r - o]
      BY <1>1, <3>1
    <3> QED BY <3>1, <3>2
  <2> QED BY <1>1, <2>1, <2>2
<1>4. ASSUME Tidy(t, d) PROVE TidyAt(s, d, p)
  <2>1. TidyAt(t, d, k)
    BY <1>1, <1>4 DEF Tidy
  <2>2. ASSUME s[p] = I("commit", NoArg)
        PROVE  \E q \in p..Len(s) : s[q] = I("flag", d) /\ \A r \in p..q : s[r] \in Commits
    <3>1. PICK q \in k..Len(t) : t[q] = I("flag", d) /\ \A r \in k..q : t[r] \in Commits
      BY <1>1, <2>1, <2>2 DEF TidyAt
    <3>2. o + q \in p..Len(s) /\ s[o + q] = I("flag", d) /\ \A r \in p..(o + q) : s[r] \in Commits
      BY <1>3, <3>1
    <3> QED BY <3>2
  <2> QED BY <1>1, <1>2, <2>1, <2>2 DEF TidyAt
<1>5. ASSUME Settled(t) PROVE SettledAt(s, p)
  <2>1. SettledAt(t, k)
    BY <1>1, <1>5 DEF Settled
  <2> QED BY <1>1, <1>2, <2>1 DEF SettledAt
<1> QED BY <1>4, <1>5

\* Two pieces of such code in a row.
LEMMA TidyJoined ==
  ASSUME NEW S, NEW a \in Seq(S), NEW c \in Seq(S), NEW d, Tidy(a, d), Tidy(c, d)
  PROVE  Tidy(a \o c, d) /\ (Settled(a) /\ Settled(c) => Settled(a \o c))
<1> DEFINE e == a \o c
<1>1. /\ e \in Seq(S) /\ Len(e) = Len(a) + Len(c) /\ Len(a) \in Nat /\ Len(c) \in Nat
      /\ \A q \in 1..Len(a) : e[q] = a[q]
      /\ \A q \in 1..Len(c) : e[Len(a) + q] = c[q]
  BY TwoParts
<1> HIDE DEF e
<1>2. ASSUME NEW p \in 1..Len(e)
      PROVE  TidyAt(e, d, p) /\ (Settled(a) /\ Settled(c) => SettledAt(e, p))
  <2>1. CASE p <= Len(a)
    <3>1. Copied(e, a, 0, p)
      <4>1. 0 < p /\ p <= 0 + Len(a) /\ 0 + Len(a) <= Len(e)
        BY <1>1, <2>1
      <4>2. \A q \in 1..Len(a) : e[0 + q] = a[q]
        BY <1>1
      <4> QED BY <4>1, <4>2, Zenon DEF Copied
    <3> QED BY <1>1, <3>1, TidyCopied
  <2>2. CASE p > Len(a)
    <3>1. Copied(e, c, Len(a), p)
      BY <1>1, <2>2 DEF Copied
    <3> QED BY <1>1, <3>1, TidyCopied
  <2> QED BY <1>1, <2>1, <2>2
<1>3. Tidy(e, d) /\ (Settled(a) /\ Settled(c) => Settled(e))
  BY <1>2 DEF Tidy, Settled
<1> QED BY <1>3 DEF e

\* FlattenSeq ends with the last of its sequences.
LEMMA FlattenLast ==
  ASSUME NEW S, NEW seqs \in Seq(Seq(S)), Len(seqs) # 0
  PROVE  \E a \in Seq(S) : FlattenSeq(seqs) = a \o seqs[Len(seqs)]
<1> DEFINE n == Len(seqs)
<1>1. n \in Nat \ {0} /\ n \in 1..n /\ 1 \in 1..n /\ \A i \in 1..n : seqs[i] \in Seq(S)
  OBVIOUS
<1>2. PICK f : Flattens(seqs, f, n) /\ FlattenSeq(seqs) = f[n]
  BY FlattenIs
<1>3. f[1] = seqs[1] /\ \A i \in 1..n : i # 1 => f[i] = f[i - 1] \o seqs[i]
  BY <1>1, <1>2 DEF Flattens
<1>7. \A i \in 1..n : i # 1 => i - 1 \in 1..n /\ ~(i <= i - 1)
  BY <1>1
<1> HIDE DEF n
<1> DEFINE bad == {k \in 1..n : f[k] \notin Seq(S)}
<1>4. bad = {}
  <2> SUFFICES ASSUME bad # {} PROVE FALSE
    OBVIOUS
  <2>1. PICK k \in bad : \A m \in bad : k <= m
    <3>1. bad \in SUBSET Nat
      OBVIOUS
    <3> HIDE DEF bad
    <3> QED BY <3>1, LeastNumber
  <2>2. k \in 1..n /\ k # 1
    BY <1>1, <1>3, <2>1
  <2>3. k - 1 \in 1..n /\ ~(k <= k - 1)
    BY <1>7, <2>2
  <2>4. f[k - 1] \in Seq(S)
    BY <2>1, <2>3
  <2>5. f[k] = f[k - 1] \o seqs[k] /\ seqs[k] \in Seq(S) /\ f[k] \notin Seq(S)
    BY <1>1, <1>3, <2>1, <2>2
  <2> QED BY <2>4, <2>5
<1>5. CASE n = 1
  <2>1. FlattenSeq(seqs) = <<>> \o seqs[n] /\ <<>> \in Seq(S)
    <3>1. FlattenSeq(seqs) = seqs[n] /\ seqs[n] \in Seq(S)
      BY <1>1, <1>2, <1>3, <1>5
    <3> QED BY <3>1
  <2> QED BY <2>1 DEF n
<1>6. CASE n # 1
  <2>1. n - 1 \in 1..n
    BY <1>1, <1>6, <1>7
  <2>2. f[n - 1] \in Seq(S) /\ FlattenSeq(seqs) = f[n - 1] \o seqs[n]
    BY <1>1, <1>2, <1>3, <1>4, <1>6, <2>1
  <2> QED BY <2>2 DEF n
<1> QED BY <1>5, <1>6 DEF n

\* The COMMITs of a return: the last is followed by the flag of the innermost transaction block.
LEMMA CommitAllTidy ==
  ASSUME NEW d \in Nat \ {0}
  PROVE  /\ CommitAll(d) \in Seq(Commits) /\ Tidy(CommitAll(d), d) /\ Settled(CommitAll(d))
         /\ Len(CommitAll(d)) > 0 /\ CommitAll(d)[Len(CommitAll(d))] = I("flag", d)
<1> DEFINE c == I("commit", NoArg)
           seqs == [k \in 1..d |-> <<c, I("flag", k)>>]
           e == CommitAll(d)
<1>1. c \in Commits /\ \A k \in 1..d : I("flag", k) \in Commits
  BY DEF Commits
<1>0. /\ c.op = "commit" /\ \A k \in 1..d : I("flag", k).op = "flag" /\ c # I("flag", k)
      /\ \A x \in Commits : x.op \in {"commit", "flag"}
  BY DEF Commits, I
<1>9. e = FlattenSeq(seqs)
  BY DEF CommitAll
<1> HIDE DEF c, e
<1>2. seqs \in Seq(Seq(Commits)) /\ Len(seqs) = d /\ \A k \in 1..d : seqs[k] = <<c, I("flag", k)>>
  BY <1>1
<1> HIDE DEF seqs
<1>3. e \in Seq(Commits) /\ Segmented(e, seqs, d)
  BY <1>2, <1>9, Segments
<1>4. Len(e) \in Nat /\ \A p \in 1..Len(e) : e[p] \in Commits
  BY <1>3
<1>5. Len(e) > 0 /\ e[Len(e)] = I("flag", d)
  <2>1. PICK a \in Seq(Commits) : e = a \o seqs[d]
    BY <1>2, <1>9, FlattenLast
  <2>4. d \in 1..d
    OBVIOUS
  <2>2. e = a \o <<c, I("flag", d)>>
    BY <1>2, <2>1, <2>4
  <2>3. <<c, I("flag", d)>> \in Seq(Commits)
    BY <1>1
  <2> QED BY <2>2, <2>3
<1>6. ASSUME NEW p \in 1..Len(e) PROVE TidyAt(e, d, p) /\ SettledAt(e, p)
  <2>1. PICK i \in 1..d, o \in Nat : Copied(e, seqs[i], o, p)
    BY <1>3 DEF Segmented
  <2>2. seqs[i] = <<c, I("flag", i)>>
    BY <1>2
  <2>3. Len(seqs[i]) = 2 /\ seqs[i][1] = c /\ seqs[i][2] = I("flag", i)
    BY <2>2
  <2>4. (p = o + 1 /\ e[p] = c) \/ p = o + 2
    BY <1>4, <2>1, <2>3 DEF Copied
  <2>5. e[p].op \in {"flag", "finally"} => p > 1 /\ e[p - 1] \in Commits
    <3>1. CASE p = o + 2
      <4>1. p > 1 /\ p - 1 \in 1..Len(e)
        BY <1>4, <3>1
      <4> QED BY <1>4, <4>1
    <3>2. CASE e[p] = c
      BY <1>0, <3>2
    <3> QED BY <2>4, <3>1, <3>2
  <2>6. \E q \in p..Len(e) : e[q] = I("flag", d) /\ \A r \in p..q : e[r] \in Commits
    <3>1. Len(e) \in p..Len(e) /\ \A r \in p..Len(e) : r \in 1..Len(e)
      BY <1>4
    <3> QED BY <1>4, <1>5, <3>1
  <2>7. e[p].op # "return"
    BY <1>0, <1>4
  <2> QED BY <2>5, <2>6, <2>7 DEF TidyAt, SettledAt
<1>7. Tidy(e, d) /\ Settled(e)
  BY <1>6 DEF Tidy, Settled
<1> QED BY <1>3, <1>5, <1>7 DEF e

\* What becomes of a return in a transaction block.
LEMMA ReturnTidy ==
  ASSUME NEW s \in Stmts, s.op = "return", NEW d \in Nat \ {0}, NEW f \in Fns
  PROVE  /\ Tidy(EmitReturn(s, d, f), d)
         /\ s.arg = NoArg => Settled(EmitReturn(s, d, f))
         /\ Len(EmitReturn(s, d, f)) > 0
         /\ EmitReturn(s, d, f)[Len(EmitReturn(s, d, f))] = I("return", NoArg)
<1> DEFINE a == CommitAll(d)
           b == RunFinally(f)
           v == ReturnValue(s)
           e == EmitReturn(s, d, f)
           fin == I("finally", NoArg)
           ret == I("return", NoArg)
<1>1. /\ a \in Seq(Commits) /\ Tidy(a, d) /\ Settled(a)
      /\ Len(a) > 0 /\ a[Len(a)] = I("flag", d)
  BY CommitAllTidy
<1>2. b = <<>> \/ b = <<fin>>
  BY DEF RunFinally
<1>3. v = <<ret>> \/ (s.arg # NoArg /\ v = <<I("call", s.arg)>> \o <<ret>>)
  <2>1. CASE s.arg = NoArg
    <3>1. v = <<>> \o <<ret>>
      BY <2>1 DEF ReturnValue
    <3> QED BY <3>1
  <2>2. CASE s.arg # NoArg
    BY <2>2 DEF ReturnValue
  <2> QED BY <2>1, <2>2
<1>4. e = (a \o b) \o v
  BY DEF EmitReturn
<1>5. /\ \A x \in Commits : x.op \in {"commit", "flag"}
      /\ fin.op = "finally" /\ ret.op = "return" /\ I("call", s.arg).op = "call"
      /\ fin # I("commit", NoArg) /\ ret # I("commit", NoArg) /\ I("call", s.arg) # I("commit", NoArg)
  BY DEF Commits, I
<1> DEFINE X == Commits \cup {fin, ret, I("call", s.arg)}
           cl == I("call", s.arg)
<1>6. cl = I("call", s.arg)
  OBVIOUS
<1>7. a \in Seq(X) /\ fin \in X /\ ret \in X /\ cl \in X
  BY <1>1
<1> HIDE DEF a, b, v, e, fin, ret, cl, X
<1>14. /\ b \in Seq(X) /\ Len(b) \in {0, 1} /\ \A q \in 1..Len(b) : q = 1 /\ b[q] = fin
  <2>1. CASE b = <<>>
    BY <2>1
  <2>2. CASE b = <<fin>>
    BY <1>7, <2>2
  <2> QED BY <1>2, <2>1, <2>2
<1>15. /\ v \in Seq(X) /\ Len(v) \in {1, 2} /\ v[Len(v)] = ret
       /\ s.arg = NoArg => Len(v) = 1
       /\ Len(v) = 2 => v[1] = cl
  <2>1. CASE v = <<ret>>
    BY <1>7, <2>1
  <2>2. CASE s.arg # NoArg /\ v = <<cl>> \o <<ret>>
    <3>1. <<cl>> \in Seq(X) /\ <<ret>> \in Seq(X)
      BY <1>7
    <3>2. /\ v \in Seq(X) /\ Len(v) = Len(<<cl>>) + Len(<<ret>>)
          /\ \A q \in 1..Len(<<cl>>) : v[q] = <<cl>>[q]
          /\ \A q \in 1..Len(<<ret>>) : v[Len(<<cl>>) + q] = <<ret>>[q]
      BY <2>2, <3>1, TwoParts
    <3>3. Len(v) = 2 /\ v[1] = cl /\ v[1 + 1] = ret
      BY <3>2
    <3> QED BY <2>2, <3>2, <3>3
  <2> QED BY <1>3, <1>6, <2>1, <2>2
<1>8. b \in Seq(X) /\ v \in Seq(X)
  BY <1>14, <1>15
<1>9. e \in Seq(X) /\ Parts(e, a, b, v)
  BY <1>4, <1>7, <1>8, ThreeParts
<1>10. /\ Len(b) \in {0, 1} /\ \A q \in 1..Len(b) : q = 1 /\ b[q] = fin
       /\ Len(v) \in {1, 2} /\ v[Len(v)] = ret
       /\ s.arg = NoArg => Len(v) = 1
       /\ Len(v) = 2 => v[1] = cl
  BY <1>14, <1>15
<1>11. /\ Len(e) = Len(a) + Len(b) + Len(v) /\ Len(a) \in Nat
       /\ \A q \in 1..Len(a) : e[q] = a[q] /\ e[q] \in Commits
       /\ Len(b) = 1 => e[Len(a) + 1] = fin
       /\ e[Len(e)] = ret /\ Len(e) > 0
       /\ Len(v) = 2 => e[Len(e) - 1] = cl
  <2>1. /\ Len(e) = Len(a) + Len(b) + Len(v) /\ Len(a) \in Nat /\ Len(b) \in Nat /\ Len(v) \in Nat
        /\ \A q \in 1..Len(a) : e[q] = a[q]
        /\ \A q \in 1..Len(b) : e[Len(a) + q] = b[q]
        /\ \A q \in 1..Len(v) : e[Len(a) + Len(b) + q] = v[q]
    BY <1>9 DEF Parts
  <2>2. \A q \in 1..Len(a) : e[q] \in Commits
    BY <1>1, <2>1
  <2>3. e[Len(e)] = ret
    <3>1. Len(v) = 1 \/ Len(v) = 2
      BY <1>10
    <3>2. Len(v) \in 1..Len(v) /\ Len(a) + Len(b) + Len(v) = Len(e)
      <4>1. Len(a) + Len(b) + Len(v) = Len(e)
        BY <2>1
      <4>2. Len(v) \in 1..Len(v)
        BY <3>1
      <4> QED BY <4>1, <4>2
    <3>3. e[Len(a) + Len(b) + Len(v)] = v[Len(v)]
      BY <2>1, <3>2
    <3> QED BY <1>10, <3>2, <3>3
  <2>4. ASSUME Len(v) = 2 PROVE e[Len(e) - 1] = cl
    <3>1. 1 \in 1..Len(v) /\ Len(a) + Len(b) + 1 = Len(e) - 1
      BY <2>1, <2>4
    <3>2. e[Len(a) + Len(b) + 1] = v[1]
      BY <2>1, <3>1
    <3> QED BY <1>10, <2>4, <3>1, <3>2
  <2>5. Len(b) = 1 => e[Len(a) + 1] = fin
    BY <1>10, <2>1
  <2> QED BY <1>10, <2>1, <2>2, <2>3, <2>4, <2>5
<1>12. ASSUME NEW p \in 1..Len(e)
       PROVE  TidyAt(e, d, p) /\ (s.arg = NoArg => SettledAt(e, p))
  <2>1. CASE p <= Len(a)
    <3>1. Copied(e, a, 0, p)
      BY <1>10, <1>11, <2>1 DEF Copied
    <3> QED BY <1>1, <1>7, <1>9, <3>1, TidyCopied
  <2>2. CASE p > Len(a)
    <3>1. \/ p = Len(a) + 1 /\ Len(b) = 1 /\ e[p] = fin
          \/ p = Len(e) \/ (Len(v) = 2 /\ p = Len(e) - 1)
      BY <1>10, <1>11, <2>2
    <3>2. Len(a) \in 1..Len(a) /\ e[Len(a)] \in Commits
      BY <1>1, <1>11
    <3>3. CASE p = Len(a) + 1 /\ e[p] = fin
      <4>1. p > 1 /\ p - 1 = Len(a)
        BY <1>1, <1>11, <3>3
      <4> QED BY <1>5, <3>2, <3>3, <4>1 DEF TidyAt, SettledAt
    <3>4. CASE p = Len(e)
      <4>1. TidyAt(e, d, p)
        BY <1>5, <1>11, <3>4 DEF TidyAt
      <4>2. ASSUME s.arg = NoArg PROVE p > 1 /\ e[p - 1] \in Commits \cup {fin}
        <5>2. Len(v) = 1 /\ (Len(b) = 0 \/ Len(b) = 1)
          BY <1>10, <4>2
        <5>3. p = Len(a) + Len(b) + 1 /\ Len(a) \in Nat \ {0}
          BY <1>1, <1>11, <3>4, <5>2
        <5>1. p > 1 /\ (p - 1 = Len(a) \/ (Len(b) = 1 /\ p - 1 = Len(a) + 1))
          <6>1. CASE Len(b) = 0
            BY <5>3, <6>1
          <6>2. CASE Len(b) = 1
            BY <5>3, <6>2
          <6> QED BY <5>2, <6>1, <6>2
        <5> QED BY <1>11, <3>2, <5>1
      <4> QED BY <4>1, <4>2 DEF SettledAt, fin
    <3>5. CASE Len(v) = 2 /\ p = Len(e) - 1
      <4>1. e[p] = cl
        BY <1>11, <3>5
      <4> QED BY <1>5, <1>6, <4>1 DEF TidyAt, SettledAt
    <3> QED BY <3>1, <3>3, <3>4, <3>5
  <2> QED BY <1>11, <2>1, <2>2
<1>13. Tidy(e, d) /\ (s.arg = NoArg => Settled(e))
  BY <1>12 DEF Tidy, Settled
<1> QED BY <1>11, <1>13 DEF e, ret

\* Nor does a statement that is not a return commit anything.
LEMMA StatementTidy ==
  ASSUME NEW s \in Stmts, s.op # "return", NEW d \in Nat \ {0}
  PROVE  Tidy(<<s>>, d) /\ Settled(<<s>>)
<1>1. s.op \in {"dml", "call", "if", "transaction", "return", "err"}
  BY BlockAssumption
<1>2. s # I("commit", NoArg)
  BY <1>1 DEF I
<1>3. \A p \in 1..Len(<<s>>) : <<s>>[p] = s
  OBVIOUS
<1> QED BY <1>1, <1>2, <1>3 DEF Tidy, TidyAt, Settled, SettledAt

\* A block that computes no value after the COMMITs of its returns.
Valueless(b) == \A s \in ToSet(Block[b]) : s.op = "return" => s.arg = NoArg

\* The body of a block of a transaction block of depth d.
LEMMA BodyTidy ==
  ASSUME NEW b \in DOMAIN Block, NEW d \in Nat \ {0}, NEW f \in Fns
  PROVE  /\ Tidy(EmitBody(b, d, f), d)
         /\ Valueless(b) => Settled(EmitBody(b, d, f))
         /\ EndsInReturn(b) => /\ Len(EmitBody(b, d, f)) > 0
                               /\ EmitBody(b, d, f)[Len(EmitBody(b, d, f))].op \in {"return", "err"}
<1> DEFINE n == Len(Block[b])
           seqs == [i \in 1..n |-> EmitStmt(Block[b][i], d, f)]
           e == EmitBody(b, d, f)
<1>1. Block[b] \in Seq(Stmts) /\ n \in Nat
  BY BlockAssumption
<1>2. ASSUME NEW i \in 1..n
      PROVE  /\ Block[b][i] \in Stmts /\ Block[b][i] \in ToSet(Block[b])
             /\ seqs[i] \in Seq(Instr) /\ Tidy(seqs[i], d)
             /\ Valueless(b) => Settled(seqs[i])
             /\ Block[b][i].op = "return" => seqs[i] = EmitReturn(Block[b][i], d, f)
             /\ Block[b][i].op # "return" => seqs[i] = <<Block[b][i]>>
  <2>1. Block[b][i] \in Stmts /\ Block[b][i] \in ToSet(Block[b])
    BY <1>1 DEF ToSet
  <2>2. CASE Block[b][i].op = "return"
    <3>1. seqs[i] = EmitReturn(Block[b][i], d, f)
      BY <2>2 DEF EmitStmt
    <3> HIDE DEF seqs
    <3> QED BY <2>1, <2>2, <3>1, ReturnIs, ReturnTidy DEF Valueless
  <2>3. CASE Block[b][i].op # "return"
    <3>1. seqs[i] = <<Block[b][i]>>
      BY <2>3 DEF EmitStmt
    <3>2. <<Block[b][i]>> \in Seq(Instr)
      BY <2>1 DEF Instr
    <3> HIDE DEF seqs
    <3> QED BY <2>1, <2>3, <3>1, <3>2, StatementTidy
  <2> QED BY <2>2, <2>3
<1>3. seqs \in Seq(Seq(Instr)) /\ Len(seqs) = n
  BY <1>1, <1>2
<1>4. e = FlattenSeq(seqs)
  BY DEF EmitBody
<1> HIDE DEF seqs, e
<1>5. e \in Seq(Instr) /\ Segmented(e, seqs, n)
  BY <1>3, <1>4, Segments
<1>6. ASSUME NEW p \in 1..Len(e) PROVE TidyAt(e, d, p) /\ (Valueless(b) => SettledAt(e, p))
  <2>1. PICK i \in 1..n, o \in Nat : Copied(e, seqs[i], o, p)
    BY <1>5 DEF Segmented
  <2> QED BY <1>2, <1>5, <2>1, TidyCopied
<1>7. Tidy(e, d) /\ (Valueless(b) => Settled(e))
  BY <1>6 DEF Tidy, Settled
<1>8. ASSUME EndsInReturn(b) PROVE Len(e) > 0 /\ e[Len(e)].op \in {"return", "err"}
  <2>1. n \in 1..n /\ n # 0 /\ Block[b][n].op \in {"return", "err"}
    BY <1>1, <1>8 DEF EndsInReturn, Last
  <2>2. PICK a \in Seq(Instr) : e = a \o seqs[n]
    BY <1>3, <1>4, <2>1, FlattenLast
  <2> DEFINE t == seqs[n]
  <2>3. t \in Seq(Instr) /\ Len(t) > 0 /\ t[Len(t)].op \in {"return", "err"}
    <3>1. CASE Block[b][n].op = "return"
      <4>1. t = EmitReturn(Block[b][n], d, f) /\ t \in Seq(Instr) /\ Block[b][n] \in Stmts
        BY <1>2, <2>1, <3>1
      <4>2. Len(t) > 0 /\ t[Len(t)] = I("return", NoArg)
        BY <3>1, <4>1, ReturnTidy
      <4> HIDE DEF t
      <4> QED BY <4>1, <4>2 DEF I
    <3>2. CASE Block[b][n].op # "return"
      <4>1. t = <<Block[b][n]>> /\ t \in Seq(Instr)
        BY <1>2, <2>1, <3>2
      <4> HIDE DEF t
      <4> QED BY <2>1, <4>1
    <3> QED BY <3>1, <3>2
  <2> HIDE DEF t
  <2>4. /\ Len(e) = Len(a) + Len(t)
        /\ \A q \in 1..Len(t) : e[Len(a) + q] = t[q]
    BY <2>2, <2>3, TwoParts DEF t
  <2>5. Len(t) \in 1..Len(t) /\ Len(a) \in Nat
    BY <2>3
  <2>6. e[Len(a) + Len(t)] = t[Len(t)]
    BY <2>4, <2>5
  <2> QED BY <2>3, <2>4, <2>5, <2>6
<1> QED BY <1>7, <1>8 DEF e

\* The code of a transaction block, and of the IF statements in it.
ArmCode(fr) ==
  /\ Code(fr) \in Seq(Instr)
  /\ Tidy(Code(fr), fr.depth)
  /\ Valueless(fr.blk) => Settled(Code(fr))
  /\ \A p \in 1..Len(Code(fr)) :
       /\ Code(fr)[p].op = "savepoint" => fr.kind = "tx" /\ p = 1
       /\ \/ FromBlock(fr.blk, fr.depth, fr.fn, Code(fr)[p])
          \/ Code(fr)[p].op \in {"savepoint", "commit", "flag"}
  /\ fr.kind = "tx" =>
       /\ Len(Code(fr)) >= 1 /\ Code(fr)[1] = I("savepoint", <<"pell_sp", fr.depth>>)
       /\ \/ Code(fr)[Len(Code(fr))].op \in {"return", "err"}
          \/ Len(Code(fr)) > 1 /\ Code(fr)[Len(Code(fr))] = I("flag", fr.depth)

LEMMA NoSavepoint ==
  ASSUME NEW b \in DOMAIN Block, NEW d \in Nat, NEW f \in Fns, NEW x, FromBlock(b, d, f, x)
  PROVE  x.op # "savepoint"
<1>1. CASE x \in ToSet(Block[b])
  <2>1. Block[b] \in Seq(Stmts)
    BY BlockAssumption
  <2>2. x \in Stmts
    BY <1>1, <2>1 DEF ToSet
  <2> QED BY <2>2, BlockAssumption
<1>2. CASE \E s \in ToSet(Block[b]) : s.op = "return" /\ OfReturn(s, d, f, x)
  BY <1>2 DEF OfReturn, Commits, I
<1> QED BY <1>1, <1>2 DEF FromBlock

LEMMA IfCode ==
  ASSUME NEW fr, FrameOK(fr), fr.kind = "if", fr.depth > 0
  PROVE  ArmCode(fr)
<1> DEFINE e == Code(fr)
<1>1. fr.blk \in DOMAIN Block /\ fr.depth \in Nat \ {0} /\ fr.fn \in Fns /\ fr.phase # "after"
  BY FieldsOf DEF FrameOK
<1>2. e = EmitBody(fr.blk, fr.depth, fr.fn)
  BY <1>1 DEF Code
<1> HIDE DEF e
<1>3. /\ e \in Seq(Instr) /\ Tidy(e, fr.depth) /\ (Valueless(fr.blk) => Settled(e))
      /\ \A p \in 1..Len(e) : FromBlock(fr.blk, fr.depth, fr.fn, e[p])
  BY <1>1, <1>2, BodyIs, BodyTidy
<1>4. \A p \in 1..Len(e) : e[p].op # "savepoint"
  BY <1>1, <1>3, NoSavepoint
<1> QED BY <1>3, <1>4 DEF ArmCode, e

\* What closes a transaction block is no more than its COMMIT and its flag.
LEMMA ClosingTidy ==
  ASSUME NEW d \in Nat \ {0}
  PROVE  /\ <<I("commit", NoArg), I("flag", d)>> \in Seq(Instr)
         /\ Tidy(<<I("commit", NoArg), I("flag", d)>>, d)
         /\ Settled(<<I("commit", NoArg), I("flag", d)>>)
<1> DEFINE c == I("commit", NoArg)
           g == I("flag", d)
           e == <<c, g>>
<1>1. c \in Commits /\ g \in Commits /\ c.op = "commit" /\ g.op = "flag" /\ Commits \subseteq Instr
  BY DEF Commits, I, Instr
<1> HIDE DEF c, g
<1>2. Len(e) = 2 /\ e[1] = c /\ e[2] = g /\ e \in Seq(Instr)
  BY <1>1
<1> HIDE DEF e
<1>3. ASSUME NEW p \in 1..Len(e) PROVE TidyAt(e, d, p) /\ SettledAt(e, p)
  <2>1. p = 1 \/ p = 2
    BY <1>2
  <2>2. CASE p = 1
    <3>1. 2 \in p..Len(e) /\ \A r \in p..2 : r = 1 \/ r = 2
      BY <1>2, <2>2
    <3>2. e[p] = I("commit", NoArg) =>
            \E q \in p..Len(e) : e[q] = I("flag", d) /\ \A r \in p..q : e[r] \in Commits
      BY <1>1, <1>2, <3>1 DEF g
    <3> QED BY <1>1, <1>2, <2>2, <3>2 DEF TidyAt, SettledAt
  <2>3. CASE p = 2
    <3>1. p > 1 /\ p - 1 = 1
      BY <2>3
    <3>2. e[p] # I("commit", NoArg)
      BY <1>1, <1>2, <2>3 DEF c
    <3> QED BY <1>1, <1>2, <2>3, <3>1, <3>2 DEF TidyAt, SettledAt
  <2> QED BY <2>1, <2>2, <2>3
<1> QED BY <1>2, <1>3 DEF Tidy, Settled, e, c, g

LEMMA OpeningTidy ==
  ASSUME NEW d \in Nat \ {0}
  PROVE  /\ <<I("savepoint", <<"pell_sp", d>>)>> \in Seq(Instr)
         /\ Tidy(<<I("savepoint", <<"pell_sp", d>>)>>, d)
         /\ Settled(<<I("savepoint", <<"pell_sp", d>>)>>)
<1> DEFINE c == I("savepoint", <<"pell_sp", d>>)
<1>1. c \in Instr /\ c.op = "savepoint" /\ c # I("commit", NoArg)
  BY DEF I, Instr, SaveNames
<1> HIDE DEF c
<1>2. \A p \in 1..Len(<<c>>) : <<c>>[p] = c
  OBVIOUS
<1>3. <<c>> \in Seq(Instr)
  BY <1>1
<1> QED BY <1>1, <1>2, <1>3 DEF Tidy, TidyAt, Settled, SettledAt, c

LEMMA EmptyTidy ==
  ASSUME NEW d
  PROVE  <<>> \in Seq(Instr) /\ Tidy(<<>>, d) /\ Settled(<<>>)
BY DEF Tidy, Settled

LEMMA TransactionCode ==
  ASSUME NEW fr, FrameOK(fr), fr.kind = "tx"
  PROVE  ArmCode(fr)
<1> DEFINE e == Code(fr)
           d == fr.depth
           a == <<I("savepoint", <<"pell_sp", d>>)>>
           m == EmitBody(fr.blk, d, fr.fn)
           c == IF EndsInReturn(fr.blk) THEN <<>> ELSE <<I("commit", NoArg), I("flag", d)>>
<1>1. fr.blk \in DOMAIN Block /\ d \in Nat \ {0} /\ fr.fn \in Fns /\ fr.phase # "after"
  BY FieldsOf DEF FrameOK
<1>2. e = (a \o m) \o c
  BY <1>1 DEF Code, EmitTransaction
<1>3. a \in Seq(Instr) /\ Tidy(a, d) /\ Settled(a) /\ Len(a) = 1 /\ a[1] = I("savepoint", <<"pell_sp", d>>)
  BY <1>1, OpeningTidy
<1>4. c \in Seq(Instr) /\ Tidy(c, d) /\ Settled(c)
  <2>1. CASE EndsInReturn(fr.blk)
    BY <2>1, EmptyTidy
  <2>2. CASE ~EndsInReturn(fr.blk)
    BY <1>1, <2>2, ClosingTidy
  <2> QED BY <2>1, <2>2
<1>5. /\ m \in Seq(Instr) /\ Tidy(m, d) /\ (Valueless(fr.blk) => Settled(m))
      /\ \A p \in 1..Len(m) : FromBlock(fr.blk, d, fr.fn, m[p])
      /\ EndsInReturn(fr.blk) => Len(m) > 0 /\ m[Len(m)].op \in {"return", "err"}
  BY <1>1, BodyIs, BodyTidy
<1>6. /\ EndsInReturn(fr.blk) => Len(c) = 0
      /\ ~EndsInReturn(fr.blk) => /\ Len(c) = 2 /\ c[1] = I("commit", NoArg)
                                  /\ c[2] = I("flag", d)
  OBVIOUS
<1> HIDE DEF d, a, m, c, e
<1>7. e \in Seq(Instr) /\ Parts(e, a, m, c)
  BY <1>2, <1>3, <1>4, <1>5, ThreeParts
<1>8. Tidy(e, d) /\ (Valueless(fr.blk) => Settled(e))
  <2>1. a \o m \in Seq(Instr)
    BY <1>3, <1>5
  <2>2. Tidy(a \o m, d) /\ (Valueless(fr.blk) => Settled(a \o m))
    BY <1>3, <1>5, TidyJoined
  <2> QED BY <1>2, <1>4, <2>1, <2>2, TidyJoined
<1>9. /\ Len(e) = 1 + Len(m) + Len(c) /\ Len(m) \in Nat /\ Len(c) \in {0, 2}
      /\ e[1] = I("savepoint", <<"pell_sp", d>>)
      /\ \A q \in 1..Len(m) : e[1 + q] = m[q]
      /\ \A q \in 1..Len(c) : e[1 + Len(m) + q] = c[q]
      /\ \A p \in 1..Len(e) : p = 1 \/ p - 1 \in 1..Len(m) \/ p - (1 + Len(m)) \in 1..Len(c)
  <2>1. 1 \in 1..Len(a)
    BY <1>3
  <2>2. Len(c) \in {0, 2}
    BY <1>6
  <2> QED BY <1>3, <1>7, <2>1, <2>2 DEF Parts
<1>10. ASSUME NEW p \in 1..Len(e)
       PROVE  /\ e[p].op = "savepoint" => p = 1
              /\ \/ FromBlock(fr.blk, d, fr.fn, e[p])
                 \/ e[p].op \in {"savepoint", "commit", "flag"}
  <2>1. CASE p = 1
    BY <1>9, <2>1 DEF I
  <2>2. CASE p - 1 \in 1..Len(m)
    <3>1. e[1 + (p - 1)] = m[p - 1] /\ 1 + (p - 1) = p
      BY <1>9, <2>2
    <3>2. FromBlock(fr.blk, d, fr.fn, e[p])
      BY <1>5, <2>2, <3>1
    <3> QED BY <1>1, <3>2, NoSavepoint
  <2>3. CASE p - (1 + Len(m)) \in 1..Len(c)
    <3>1. ~EndsInReturn(fr.blk)
      BY <1>6, <2>3
    <3> DEFINE q == p - (1 + Len(m))
    <3>2. q \in 1..Len(c) /\ 1 + Len(m) + q = p
      BY <1>9, <2>3
    <3> HIDE DEF q
    <3>3. e[p] = c[q] /\ (q = 1 \/ q = 2)
      <4>1. e[1 + Len(m) + q] = c[q]
        BY <1>9, <3>2
      <4>2. Len(c) = 2
        BY <1>6, <3>1
      <4>3. q = 1 \/ q = 2
        BY <3>2, <4>2
      <4> QED BY <3>2, <4>1, <4>3
    <3>4. e[p].op \in {"commit", "flag"}
      BY <1>6, <3>1, <3>3 DEF I
    <3> QED BY <3>4
  <2> QED BY <1>9, <2>1, <2>2, <2>3
<1>11. Len(e) >= 1
  BY <1>9
<1>12. e[Len(e)].op \in {"return", "err"} \/ (Len(e) > 1 /\ e[Len(e)] = I("flag", d))
  <2>1. CASE EndsInReturn(fr.blk)
    <3>1. Len(m) \in 1..Len(m) /\ Len(e) = 1 + Len(m)
      BY <1>5, <1>6, <1>9, <2>1
    <3>2. e[1 + Len(m)] = m[Len(m)]
      BY <1>9, <3>1
    <3> QED BY <1>5, <2>1, <3>1, <3>2
  <2>2. CASE ~EndsInReturn(fr.blk)
    <3>1. Len(c) = 2 /\ 2 \in 1..Len(c) /\ Len(e) = 1 + Len(m) + 2
      <4>1. Len(c) = 2
        BY <1>6, <2>2
      <4> QED BY <1>9, <4>1
    <3>2. e[1 + Len(m) + 2] = c[2]
      BY <1>9, <3>1
    <3>3. Len(e) > 1
      BY <1>9, <3>1
    <3> QED BY <1>6, <2>2, <3>1, <3>2, <3>3
  <2> QED BY <2>1, <2>2
<1> QED BY <1>7, <1>8, <1>9, <1>10, <1>11, <1>12 DEF ArmCode, e, d

LEMMA ArmCodeIs ==
  ASSUME NEW fr, FrameOK(fr), fr.kind \in {"tx", "if"}, fr.depth > 0
  PROVE  ArmCode(fr)
BY IfCode, TransactionCode

----------------------------------------------------------------------------
(* Where the statements of a transaction block lead.                        *)

\* A statement of the program that is executed is one of a block of the set.
LEMMA StatementFrom ==
  ASSUME TypeOK, NEW op \in {"dml", "if", "transaction", "call"}, At(op),
         NEW bs \in SUBSET DOMAIN Block, Top.blk \in bs
  PROVE  /\ op # "call" => /\ Code(Top)[Top.pc] \in StmtsOf(bs)
                           /\ Code(Top)[Top.pc].op = op /\ Code(Top)[Top.pc].arg = Arg
         /\ op = "call" => Arg \in Calls(bs)
<1> DEFINE x == Code(Top)[Top.pc]
<1>1. /\ Top.pc \in 1..Len(Code(Top)) /\ x.op = op /\ x.arg = Arg /\ FrameOK(Top)
      /\ Top.phase \in {"body", "after"}
  BY AtIs, TopIs DEF Arg
<1>2. Top.phase # "after"
  <2> SUFFICES ASSUME Top.phase = "after" PROVE FALSE
    OBVIOUS
  <2>1. Code(Top) = <<I("finally", NoArg)>>
    BY CodeAfter
  <2>2. x = I("finally", NoArg)
    BY <1>1, <2>1
  <2> QED BY <1>1, <2>2 DEF I
<1>3. FromBlock(Top.blk, Top.depth, Top.fn, x)
  <2>1. FromBlock(Top.blk, Top.depth, Top.fn, x) \/ Added(Top, Top.pc)
    BY <1>1, <1>2, CodeIs DEF CodeOK
  <2>2. ~Added(Top, Top.pc)
    <3> HIDE DEF x
    <3>1. \A y : y \in {I("savepoint", <<"pell_sp", Top.depth>>)} \cup Commits
                   => y.op \in {"savepoint", "flag", "commit"}
      BY DEF Commits, I
    <3>2. I("savepoint", Attempt).op = "savepoint" /\ I("commit", NoArg).op = "commit"
      BY DEF I
    <3> QED BY <1>1, <3>1, <3>2 DEF Added, x
  <2> QED BY <2>1, <2>2
<1> HIDE DEF x
<1>4. ToSet(Block[Top.blk]) \subseteq StmtsOf(bs)
  BY DEF StmtsOf
<1>5. CASE x \in ToSet(Block[Top.blk]) /\ x.op # "return"
  <2>1. x \in StmtsOf(bs)
    BY <1>4, <1>5
  <2> QED BY <1>1, <2>1 DEF Calls, x
<1>6. CASE ~(x \in ToSet(Block[Top.blk]) /\ x.op # "return")
  <2>1. PICK s \in ToSet(Block[Top.blk]) : s.op = "return" /\ OfReturn(s, Top.depth, Top.fn, x)
    BY <1>3, <1>6 DEF FromBlock
  <2>2. s.arg # NoArg /\ x = I("call", s.arg)
    <3>1. \A y \in Commits : y.op \in {"flag", "commit"}
      BY DEF Commits, I
    <3>2. I("return", NoArg).op = "return" /\ I("finally", NoArg).op = "finally"
      BY DEF I
    <3> QED BY <1>1, <2>1, <3>1, <3>2 DEF OfReturn
  <2>3. op = "call" /\ Arg = s.arg
    BY <1>1, <2>2 DEF I
  <2>4. s \in StmtsOf(bs)
    BY <1>4, <2>1
  <2> QED BY <2>1, <2>2, <2>3, <2>4 DEF Calls
<1> QED BY <1>5, <1>6

\* A block that is entered belongs to a closed set its statement belongs to.
LEMMA PushedIn ==
  ASSUME TypeOK, Pushed, NEW bs \in SUBSET DOMAIN Block, ClosedSet(bs), Top.blk \in bs,
         NEW c, c = stack'[Len(stack) + 1], c.level = Len(txs),
         At("finally") => Def[Top.fn].finally \in bs \cup {NoBlock}
  PROVE  /\ c.blk \in bs
         /\ c.kind = "fn" => /\ ~OwnTx(c) /\ c.fn \in Calls(bs) /\ c.depth = 0
                             /\ Def[c.fn].finally \in bs \cup {NoBlock} /\ At("call")
         /\ c.kind # "fn" => c.fn = Top.fn
         /\ c.kind = "if" => c.depth = Top.depth
         /\ c.kind = "tx" => \E s \in StmtsOf(bs) : s.op = "transaction"
         /\ c.kind = "finally" => c.depth = 0 /\ At("finally") /\ c.blk = Def[Top.fn].finally
<1>1. CASE At("if") /\ c = Frame("if", Top.fn, Arg, Top.depth)
  <2>1. c.kind = "if" /\ c.fn = Top.fn /\ c.blk = Arg /\ c.depth = Top.depth
    BY <1>1 DEF Frame
  <2>2. Code(Top)[Top.pc] \in StmtsOf(bs) /\ Code(Top)[Top.pc].op = "if" /\ Code(Top)[Top.pc].arg = Arg
    BY <1>1, StatementFrom
  <2>3. Arg \in bs
    BY <2>2 DEF ClosedSet, Inner
  <2> QED BY <2>1, <2>3
<1>2. CASE At("transaction") /\ c = Frame("tx", Top.fn, Arg, Top.depth + 1)
  <2>1. c.kind = "tx" /\ c.fn = Top.fn /\ c.blk = Arg
    BY <1>2 DEF Frame
  <2>2. /\ Code(Top)[Top.pc] \in StmtsOf(bs) /\ Code(Top)[Top.pc].op = "transaction"
        /\ Code(Top)[Top.pc].arg = Arg
    BY <1>2, StatementFrom
  <2>3. Arg \in bs
    BY <2>2 DEF ClosedSet, Inner
  <2> QED BY <2>1, <2>2, <2>3
<1>3. CASE At("call") /\ Arg \in Fns /\ c = Called(Arg)
  <2> DEFINE g == Arg
  <2>1. /\ g \in Fns /\ c.kind = "fn" /\ c.fn = g /\ c.blk = Def[g].body /\ c.depth = 0
        /\ c.level = Len(txs) + (IF OwnTx(c) THEN 1 ELSE 0) /\ Len(txs) \in Nat
    BY <1>3, CalledIs DEF TypeOK, TxsOK
  <2>2. ~OwnTx(c)
    BY <2>1
  <2>3. g \in Calls(bs)
    BY <1>3, StatementFrom
  <2> HIDE DEF g
  <2>4. Bodies(g) \subseteq bs /\ ~Def[g].autonomous
    BY <2>1, <2>2, <2>3 DEF ClosedSet, OwnTx
  <2>5. Def[g].body \in bs /\ Def[g].finally \in bs \cup {NoBlock}
    BY <2>4 DEF Bodies
  <2> QED BY <1>3, <2>1, <2>2, <2>3, <2>5
<1>4. CASE At("finally") /\ c = Frame("finally", Top.fn, Def[Top.fn].finally, 0)
  <2>1. c.kind = "finally" /\ c.fn = Top.fn /\ c.blk = Def[Top.fn].finally /\ c.depth = 0
    BY <1>4 DEF Frame
  <2>2. Def[Top.fn].finally \in bs
    BY <1>4, AtIs
  <2> QED BY <1>4, <2>1, <2>2
<1> QED BY <1>1, <1>2, <1>3, <1>4 DEF Pushed

----------------------------------------------------------------------------
(* What a step does to the stack.                                           *)

SamePoint(fr, g) == g.pc = fr.pc /\ Code(g) = Code(fr)

\* No block is entered: those that are left stay where they are, and only the innermost moves.
Still ==
  /\ Len(stack') \in Nat /\ Len(stack') <= Len(stack)
  /\ \A i \in 1..Len(stack') : SamePlace(stack[i], stack'[i])
                               /\ (i < Len(stack') => SamePoint(stack[i], stack'[i]))

\* A block is entered, by a statement or by the handler of a finally block.
Enters ==
  /\ Len(stack') = Len(stack) + 1 /\ Len(stack) \in 1..Len(stack) /\ Top = stack[Len(stack)]
  /\ \A i \in 1..Len(stack) : SamePlace(stack[i], stack'[i])
                              /\ (i < Len(stack) => SamePoint(stack[i], stack'[i]))
  /\ FrameOK(Top) /\ FrameOK(stack'[Len(stack) + 1])
  /\ \/ /\ Went /\ Pushed /\ stack'[Len(stack)].pc = Top.pc + 1
        /\ Code(stack'[Len(stack)]) = Code(Top)
     \/ /\ FinallyHandler /\ Top.kind = "fn" /\ Def[Top.fn].finally # NoBlock
        /\ stack'[Len(stack) + 1].kind = "finally" /\ stack'[Len(stack) + 1].fn = Top.fn
        /\ stack'[Len(stack) + 1].blk = Def[Top.fn].finally
        /\ stack'[Len(stack) + 1].depth = 0 /\ stack'[Len(stack) + 1].level = Len(txs)

LEMMA WentPlaces ==
  ASSUME TypeOK, Went
  PROVE  /\ Len(stack) \in 1..Len(stack) /\ Len(stack) \in Nat /\ Top = stack[Len(stack)]
         /\ \A i \in 1..Len(stack) : SamePlace(stack[i], stack'[i])
                                     /\ (i < Len(stack) => SamePoint(stack[i], stack'[i]))
         /\ stack'[Len(stack)].pc = Top.pc + 1 /\ Code(stack'[Len(stack)]) = Code(Top)
<1>1. Len(stack) \in 1..Len(stack) /\ Len(stack) \in Nat /\ Top = stack[Len(stack)]
  BY TopIs DEF Went, TypeOK, Shape, Top
<1>2. ASSUME NEW i \in 1..Len(stack)
      PROVE  /\ SamePlace(stack[i], stack'[i]) /\ Code(stack'[i]) = Code(stack[i])
             /\ stack'[i].pc = IF i = Len(stack) THEN stack[i].pc + 1 ELSE stack[i].pc
  <2>1. Alike(stack[i], stack'[i])
    BY DEF Went
  <2>2. stack'[i].pc = IF i = Len(stack) THEN stack[i].pc + 1 ELSE stack[i].pc
    BY DEF Went
  <2> QED BY <2>1, <2>2, PlacesSame, CodeSame
<1>3. \A i \in 1..Len(stack) : i < Len(stack) => i # Len(stack)
  BY <1>1
<1> QED BY <1>1, <1>2, <1>3 DEF SamePoint

LEMMA StepShapes ==
  ASSUME TypeOK, [Next]_vars
  PROVE  Still \/ Enters
<1>0. Len(stack) \in Nat /\ TypeOK'
  <2>1. TypeOK'
    BY TypeStep
  <2> QED BY <2>1 DEF TypeOK, Shape
<1>1. CASE Statement
  <2>1. (Went /\ (Len(stack') = Len(stack) \/ Pushed)) \/ Turns
    BY <1>1, StatementStep
  <2>2. CASE Turns
    BY <1>0, <2>2, PlacesSame DEF Turns, Still, SamePoint
  <2>3. CASE Went /\ Len(stack') = Len(stack)
    BY <2>3, WentPlaces DEF Still
  <2>4. CASE Went /\ Pushed
    <3>1. Len(stack') = Len(stack) + 1
      BY <2>4 DEF Pushed
    <3>2. FrameOK(stack'[Len(stack) + 1])
      <4>1. Len(stack) + 1 \in 1..Len(stack')
        BY <1>0, <3>1
      <4> QED BY <1>0, <4>1 DEF TypeOK, Shape
    <3>3. FrameOK(Top)
      BY <2>4, TopIs DEF Went
    <3> QED BY <2>4, <3>1, <3>2, <3>3, WentPlaces DEF Enters
  <2> QED BY <2>1, <2>2, <2>3, <2>4
<1>2. CASE AfterBody \/ TransactionHandler \/ RetryHandler \/ Reraise \/ AutonomousHandler
  <2>1. TopOnly
    BY <1>2, AfterBodyStep, TransactionHandlerStep, RetryHandlerStep, ReraiseStep, AutonomousHandlerStep
  <2>2. \A i \in 1..Len(stack) : i < Len(stack) => stack'[i] = stack[i]
    BY <1>0, <2>1 DEF TopOnly
  <2> QED BY <1>0, <2>1, <2>2, TopOnlyPlaces DEF Still, SamePoint
<1>3. CASE FinallyHandler
  <2> DEFINE c == Frame("finally", Top.fn, Def[Top.fn].finally, 0)
  <2>1. /\ stack # <<>> /\ Def[Top.fn].finally # NoBlock /\ Len(stack') = Len(stack) + 1
        /\ \A i \in 1..Len(stack) : i # Len(stack) => stack'[i] = stack[i]
        /\ Kept(Top, stack'[Len(stack)]) /\ stack'[Len(stack) + 1] = c /\ Top.kind = "fn"
    BY <1>3, FinallyHandlerStep
  <2>2. /\ c.kind = "finally" /\ c.fn = Top.fn /\ c.blk = Def[Top.fn].finally /\ c.depth = 0
        /\ c.level = Len(txs)
    BY DEF Frame
  <2> HIDE DEF c
  <2>3. Len(stack) \in 1..Len(stack) /\ Top = stack[Len(stack)] /\ FrameOK(Top)
    BY <2>1, TopIs DEF Top
  <2>4. ASSUME NEW i \in 1..Len(stack)
        PROVE  SamePlace(stack[i], stack'[i]) /\ (i < Len(stack) => SamePoint(stack[i], stack'[i]))
    <3>1. CASE i = Len(stack)
      BY <1>0, <2>1, <2>3, <3>1, PlacesSame
    <3>2. CASE i # Len(stack)
      BY <2>1, <3>2, PlacesSame DEF SamePoint
    <3> QED BY <3>1, <3>2
  <2>5. FrameOK(stack'[Len(stack) + 1])
    <3>1. Len(stack) + 1 \in 1..Len(stack')
      BY <1>0, <2>1
    <3> QED BY <1>0, <3>1 DEF TypeOK, Shape
  <2> QED BY <1>3, <2>1, <2>2, <2>3, <2>4, <2>5 DEF Enters
<1>4. CASE FallOut \/ Returning \/ Unwind
  <2>1. PICK how \in Hows : Leaves(how)
    BY <1>4, LeavesStep
  <2>2. /\ Len(stack) \in Nat \ {0} /\ Len(stack') = Len(stack) - 1
        /\ \A i \in 1..Len(stack') : stack'[i] = stack[i]
    BY <2>1, LeavesPlaces
  <2>3. Len(stack') \in Nat /\ Len(stack') <= Len(stack)
    BY <2>2
  <2> QED BY <2>2, <2>3, PlacesSame DEF Still, SamePoint
<1>5. CASE UNCHANGED vars
  BY <1>0, <1>5, PlacesSame DEF vars, Still, SamePoint
<1> QED BY <1>1, <1>2, <1>3, <1>4, <1>5 DEF Next, Handler, Finished

----------------------------------------------------------------------------
(* Finally blocks, and the blocks that run in them.                         *)

\* Block g and its finally block are among the blocks bs.
Inside(bs, g) == g.blk \in bs /\ Def[g.fn].finally \in bs \cup {NoBlock}

\* Block i is no finally block, or it is the one of its function, and what runs above it
\* in its transaction is what it reaches.
CleansIs(st, i) ==
  st[i].kind = "finally" =>
    /\ st[i].blk = Def[st[i].fn].finally /\ Def[st[i].fn].finally # NoBlock
    /\ \A j \in i..Len(st) : st[j].level = st[i].level => Inside(Reached[st[i].blk], st[j])
CleanupInv(st) == \A i \in 1..Len(st) : CleansIs(st, i)

LEMMA InsideSame ==
  ASSUME NEW fr, NEW g, SamePlace(fr, g)
  PROVE  \A bs : Inside(bs, g) <=> Inside(bs, fr)
BY DEF SamePlace, Inside

\* Transactions of the blocks around the innermost one.
LEMMA LevelsUpTo ==
  ASSUME TypeOK, NEW i \in 1..Len(stack)
  PROVE  /\ stack[i].level \in 1..Len(txs) /\ Len(txs) \in Nat /\ FrameOK(stack[i])
         /\ stack # <<>> /\ Len(stack) \in i..Len(stack) /\ Len(stack) \in 1..Len(stack)
         /\ Top = stack[Len(stack)] /\ Top.level = Len(txs) /\ FrameOK(Top) /\ Len(stack) \in Nat
<1>1. stack # <<>> /\ Len(stack) \in Nat /\ Len(stack) \in i..Len(stack)
  BY DEF TypeOK, Shape
<1> QED BY <1>1, LevelIs, TopIs DEF Top

\* What is entered at the level of an innermost block is entered at that of the transaction.
LEMMA EnteredLevel ==
  ASSUME TypeOK, Enters, NEW i \in 1..Len(stack), stack'[Len(stack) + 1].level = stack[i].level
  PROVE  stack[i].level = Len(txs)
<1> DEFINE c == stack'[Len(stack) + 1]
<1>1. stack[i].level \in 1..Len(txs) /\ Len(txs) \in Nat
  BY LevelsUpTo
<1>2. CASE FinallyHandler /\ c.level = Len(txs)
  BY <1>2
<1>3. CASE Pushed
  <2>1. CASE At("call") /\ Arg \in Fns /\ c = Called(Arg)
    <3> DEFINE g == Arg
    <3>1. c.level = Len(txs) + (IF OwnTx(c) THEN 1 ELSE 0)
      BY <2>1, CalledIs
    <3> HIDE DEF c
    <3>2. c.level >= Len(txs)
      BY <1>1, <3>1
    <3> QED BY <1>1, <3>2 DEF c
  <2>2. CASE ~(At("call") /\ Arg \in Fns /\ c = Called(Arg))
    <3>1. c.level = Len(txs)
      BY <1>3, <2>2 DEF Pushed, Frame
    <3> QED BY <3>1
  <2> QED BY <2>1, <2>2
<1> QED BY <1>2, <1>3 DEF Enters

\* What a finally block of the transaction enters.
LEMMA CleansEntered ==
  ASSUME TypeOK, CleanupInv(stack), Enters, NEW i \in 1..Len(stack), stack[i].kind = "finally",
         stack'[Len(stack) + 1].level = stack[i].level
  PROVE  Inside(Reached[stack[i].blk], stack'[Len(stack) + 1])
<1> DEFINE c == stack'[Len(stack) + 1]
           b == stack[i].blk
           bs == Reached[b]
<1>1. stack[i].level = Len(txs) /\ c.level = Len(txs)
  BY EnteredLevel
<1>2. /\ FrameOK(stack[i]) /\ Len(stack) \in i..Len(stack) /\ Top = stack[Len(stack)]
      /\ Top.level = Len(txs)
  BY LevelsUpTo
<1>3. Inside(bs, Top)
  BY <1>1, <1>2 DEF CleanupInv, CleansIs
<1>4. b \in DOMAIN Block
  BY <1>2, FieldsOf
<1>5. bs \in SUBSET DOMAIN Block /\ ClosedSet(bs)
  BY <1>4, ReachedClosed
<1> HIDE DEF c, bs
<1>6. CASE Pushed
  <2>1. /\ c.blk \in bs
        /\ c.kind = "fn" => Def[c.fn].finally \in bs \cup {NoBlock}
        /\ c.kind # "fn" => c.fn = Top.fn
    BY <1>1, <1>3, <1>5, <1>6, PushedIn DEF Inside, c
  <2> QED BY <1>3, <2>1 DEF Inside, c, bs
<1>7. CASE FinallyHandler /\ c.fn = Top.fn /\ c.blk = Def[Top.fn].finally /\ Def[Top.fn].finally # NoBlock
  BY <1>3, <1>7 DEF Inside, c, bs
<1> QED BY <1>6, <1>7 DEF Enters, c

LEMMA CleanupInit == Init => CleanupInv(stack)
<1> SUFFICES ASSUME Init PROVE CleanupInv(stack)
  OBVIOUS
<1>1. \A i \in 1..Len(stack) : stack[i].kind = "fn"
  <2>1. Len(stack) = 1 /\ stack[1].kind = "fn"
    BY DEF Init
  <2> QED BY <2>1
<1> QED BY <1>1 DEF CleanupInv, CleansIs

LEMMA CleanupNext == TypeOK /\ CleanupInv(stack) /\ [Next]_vars => CleanupInv(stack')
<1> SUFFICES ASSUME TypeOK, CleanupInv(stack), [Next]_vars, NEW i \in 1..Len(stack'),
                    stack'[i].kind = "finally"
             PROVE  /\ stack'[i].blk = Def[stack'[i].fn].finally
                    /\ Def[stack'[i].fn].finally # NoBlock
                    /\ \A j \in i..Len(stack') : stack'[j].level = stack'[i].level
                                                   => Inside(Reached[stack'[i].blk], stack'[j])
  BY DEF CleanupInv, CleansIs
<1> DEFINE n == Len(stack)
<1>0. n \in Nat
  BY DEF TypeOK, Shape
<1>1. ASSUME i \in 1..n, SamePlace(stack[i], stack'[i])
      PROVE  /\ stack[i].kind = "finally" /\ stack'[i].blk = stack[i].blk
             /\ stack'[i].level = stack[i].level /\ stack'[i].blk = Def[stack'[i].fn].finally
             /\ Def[stack'[i].fn].finally # NoBlock
             /\ \A j \in i..n : SamePlace(stack[j], stack'[j]) /\ stack'[j].level = stack'[i].level
                                  => Inside(Reached[stack'[i].blk], stack'[j])
  <2>1. /\ stack[i].kind = "finally" /\ stack'[i].blk = stack[i].blk
        /\ stack'[i].level = stack[i].level /\ stack'[i].fn = stack[i].fn
    BY <1>1 DEF SamePlace
  <2>2. CleansIs(stack, i)
    BY <1>1 DEF CleanupInv
  <2>3. ASSUME NEW j \in i..n, SamePlace(stack[j], stack'[j]), stack'[j].level = stack'[i].level
        PROVE  Inside(Reached[stack'[i].blk], stack'[j])
    <3>1. stack[j].level = stack[i].level
      BY <2>1, <2>3 DEF SamePlace
    <3>2. Inside(Reached[stack[i].blk], stack[j])
      BY <2>1, <2>2, <3>1 DEF CleansIs
    <3> QED BY <2>1, <2>3, <3>2, InsideSame
  <2> QED BY <2>1, <2>2, <2>3 DEF CleansIs
<1>2. CASE Still
  <2>1. Len(stack') \in Nat /\ Len(stack') <= n /\ \A j \in 1..Len(stack') : SamePlace(stack[j], stack'[j])
    BY <1>2 DEF Still
  <2>2. i \in 1..n /\ \A j \in i..Len(stack') : j \in i..n /\ j \in 1..Len(stack')
    BY <1>0, <2>1
  <2> QED BY <1>1, <2>1, <2>2
<1>3. CASE Enters
  <2>1. Len(stack') = n + 1 /\ \A j \in 1..n : SamePlace(stack[j], stack'[j])
    BY <1>3 DEF Enters
  <2>2. CASE i \in 1..n
    <3>1. ASSUME NEW j \in i..(n + 1), stack'[j].level = stack'[i].level
          PROVE  Inside(Reached[stack'[i].blk], stack'[j])
      <4>1. CASE j = n + 1
        BY <1>1, <1>3, <2>1, <2>2, <3>1, <4>1, CleansEntered
      <4>2. CASE j # n + 1
        <5>1. j \in i..n /\ j \in 1..n
          BY <1>0, <2>2, <4>2
        <5> QED BY <1>1, <2>1, <2>2, <3>1, <5>1
      <4> QED BY <4>1, <4>2
    <3> QED BY <1>1, <2>1, <2>2, <3>1
  <2>3. CASE i \notin 1..n
    <3> DEFINE c == stack'[n + 1]
    <3>1. i = n + 1 /\ c.kind = "finally" /\ \A j \in i..(n + 1) : j = i
      BY <1>0, <2>1, <2>3
    <3>2. /\ c.fn = Top.fn /\ c.blk = Def[Top.fn].finally /\ FrameOK(c)
          /\ Def[Top.fn].finally # NoBlock
      <4>1. CASE Pushed
        <5>1. ASSUME Arg \in Fns PROVE Called(Arg).kind = "fn"
          BY <5>1, CalledIs
        <5>2. At("finally") => Def[Top.fn].finally # NoBlock
          BY AtIs
        <5> QED BY <1>3, <3>1, <4>1, <5>1, <5>2 DEF Pushed, Frame, Enters
      <4>2. CASE FinallyHandler /\ c.fn = Top.fn /\ c.blk = Def[Top.fn].finally
        BY <1>3, <4>2, FinallyHandlerStep DEF Enters
      <4> QED BY <1>3, <4>1, <4>2 DEF Enters
    <3> HIDE DEF c
    <3>3. /\ c.blk \in Reached[c.blk] /\ c.blk = Def[c.fn].finally
          /\ Def[c.fn].finally # NoBlock
      BY <3>2, FieldsOf, ReachedClosed
    <3>4. Inside(Reached[c.blk], c)
      BY <3>3 DEF Inside
    <3> QED BY <2>1, <3>1, <3>3, <3>4 DEF c
  <2> QED BY <2>2, <2>3
<1> QED BY <1>2, <1>3, StepShapes

----------------------------------------------------------------------------
(* A transaction block and the IF statements being executed in it.          *)

LEMMA OpsOf ==
  /\ \A x \in Commits : x.op \in {"commit", "flag"}
  /\ \A x \in Commits \cup {I("finally", NoArg)} : x.op \in {"commit", "flag", "finally"}
BY DEF Commits, I

\* Block k is the transaction block i, or an IF statement in it.
Arm(st, i, k) == \A j \in (i + 1)..k : st[j].kind = "if"

\* The statement executed last is a COMMIT or the flag after it; or calls a finally block.
PastCommit(fr) == fr.pc > 1 /\ Code(fr)[fr.pc - 1] \in Commits
Past(fr) == fr.pc > 1 /\ Code(fr)[fr.pc - 1] \in Commits \cup {I("finally", NoArg)}

\* What such blocks are, and what runs in them.
ArmIs(st, i, k) ==
  /\ st[k].blk \in Reached[st[i].blk] /\ st[k].depth = st[i].depth
  /\ st[k].fn = st[i].fn /\ st[k].level = st[i].level
  /\ k < Len(st) /\ Past(st[k]) => /\ st[k + 1].kind = "finally" /\ st[k + 1].fn = st[i].fn
                                   /\ st[k + 1].level = st[i].level
  /\ k < Len(st) /\ st[i].blk \in Plain => st[k + 1].kind # "tx"
ArmsInv(st) ==
  \A i \in 1..Len(st) : st[i].kind = "tx" => \A k \in i..Len(st) : Arm(st, i, k) => ArmIs(st, i, k)

\* The last of these blocks, when it is the innermost.
LEMMA ArmTop ==
  ASSUME TypeOK, ArmsInv(stack), NEW i \in 1..Len(stack), stack[i].kind = "tx",
         Arm(stack, i, Len(stack))
  PROVE  /\ Top.kind \in {"tx", "if"} /\ (Top.kind = "tx" <=> i = Len(stack))
         /\ Top.blk \in Reached[stack[i].blk] /\ Top.depth = stack[i].depth
         /\ Top.fn = stack[i].fn /\ Top.level = stack[i].level /\ stack[i].level = Len(txs)
         /\ Top.depth \in Nat \ {0} /\ ArmCode(Top) /\ stack[i].blk \in DOMAIN Block
         /\ Reached[stack[i].blk] \in SUBSET DOMAIN Block /\ ClosedSet(Reached[stack[i].blk])
<1> DEFINE n == Len(stack)
<1>1. /\ n \in i..n /\ FrameOK(stack[i]) /\ Top = stack[n] /\ Top.level = Len(txs) /\ FrameOK(Top)
      /\ n \in Nat
  BY LevelsUpTo
<1>2. ArmIs(stack, i, n)
  BY <1>1 DEF ArmsInv
<1>3. i = n \/ (i # n /\ Top.kind = "if")
  BY <1>1 DEF Arm
<1>4. stack[i].depth \in Nat \ {0} /\ stack[i].blk \in DOMAIN Block
  BY <1>1, FieldsOf DEF FrameOK
<1>5. Top.kind \in {"tx", "if"} /\ Top.depth = stack[i].depth
  BY <1>1, <1>2, <1>3 DEF ArmIs
<1>6. ArmCode(Top)
  <2>1. Top.depth > 0
    BY <1>4, <1>5
  <2> QED BY <1>1, <1>5, <2>1, ArmCodeIs
<1> QED BY <1>1, <1>2, <1>3, <1>4, <1>5, <1>6, ReachedClosed DEF ArmIs

\* What is entered from them.
LEMMA ArmEntered ==
  ASSUME TypeOK, ArmsInv(stack), Enters, NEW i \in 1..Len(stack), stack[i].kind = "tx",
         Arm(stack, i, Len(stack)), NEW c, c = stack'[Len(stack) + 1]
  PROVE  /\ Went /\ Pushed
         /\ c.kind = "if" => /\ c.blk \in Reached[stack[i].blk] /\ c.depth = stack[i].depth
                             /\ c.fn = stack[i].fn /\ c.level = stack[i].level
         /\ c.kind = "tx" => stack[i].blk \notin Plain
         /\ Past(stack'[Len(stack)]) => /\ c.kind = "finally" /\ c.fn = stack[i].fn
                                        /\ c.level = stack[i].level
<1> DEFINE bs == Reached[stack[i].blk]
           x == Code(Top)[Top.pc]
<1>1. /\ Top.kind \in {"tx", "if"} /\ Top.blk \in bs /\ Top.depth = stack[i].depth
      /\ Top.fn = stack[i].fn /\ stack[i].level = Len(txs) /\ bs \in SUBSET DOMAIN Block /\ ClosedSet(bs)
      /\ stack[i].blk \in DOMAIN Block
  BY ArmTop
<1> HIDE DEF bs
<1>2. /\ Went /\ Pushed /\ stack'[Len(stack)].pc = Top.pc + 1
      /\ Code(stack'[Len(stack)]) = Code(Top)
  BY <1>1 DEF Enters
<1>3. /\ c.kind = "if" => At("if") /\ c.level = Len(txs) /\ c.fn = Top.fn /\ c.depth = Top.depth
                          /\ c.blk = Arg
      /\ c.kind = "tx" => At("transaction")
      /\ At("finally") => c.kind = "finally" /\ c.level = Len(txs) /\ c.fn = Top.fn
      /\ \E op \in {"if", "transaction", "call", "finally"} : At(op)
  <2>1. CASE At("if") /\ c = Frame("if", Top.fn, Arg, Top.depth)
    BY <2>1 DEF Frame, At
  <2>2. CASE At("transaction") /\ c = Frame("tx", Top.fn, Arg, Top.depth + 1)
    BY <2>2 DEF Frame, At
  <2>3. CASE At("call") /\ Arg \in Fns /\ c = Called(Arg)
    <3>1. c.kind = "fn"
      BY <2>3, CalledIs
    <3> QED BY <2>3, <3>1 DEF At
  <2>4. CASE At("finally") /\ c = Frame("finally", Top.fn, Def[Top.fn].finally, 0)
    BY <2>4 DEF Frame, At
  <2> QED BY <1>2, <2>1, <2>2, <2>3, <2>4 DEF Pushed
<1>4. c.kind = "if" => c.blk \in bs
  <2> SUFFICES ASSUME c.kind = "if" PROVE c.blk \in bs
    OBVIOUS
  <2>1. x \in StmtsOf(bs) /\ x.op = "if" /\ x.arg = Arg
    BY <1>1, <1>3, StatementFrom
  <2> QED BY <1>1, <1>3, <2>1 DEF ClosedSet, Inner
<1>5. c.kind = "tx" => stack[i].blk \notin Plain
  <2> SUFFICES ASSUME c.kind = "tx" PROVE stack[i].blk \notin Plain
    OBVIOUS
  <2>1. x \in StmtsOf(bs) /\ x.op = "transaction"
    BY <1>1, <1>3, StatementFrom
  <2> QED BY <2>1 DEF Plain, bs
<1>6. Past(stack'[Len(stack)]) => At("finally")
  <2> SUFFICES ASSUME Past(stack'[Len(stack)]) PROVE At("finally")
    OBVIOUS
  <2>1. Top.pc \in Nat /\ (Top.pc + 1) - 1 = Top.pc
    <3>1. Top.pc \in Nat
      BY FieldsOf DEF Enters
    <3> QED BY <3>1
  <2>2. x \in Commits \cup {I("finally", NoArg)}
    BY <1>2, <2>1 DEF Past
  <2>3. x.op \in {"commit", "flag", "finally"}
    BY <2>2, OpsOf
  <2>4. PICK op \in {"if", "transaction", "call", "finally"} : At(op)
    BY <1>3
  <2>5. x.op = op
    BY <2>4 DEF At
  <2> QED BY <2>3, <2>4, <2>5
<1> QED BY <1>1, <1>2, <1>3, <1>4, <1>5, <1>6 DEF bs

LEMMA ArmsInit == Init => ArmsInv(stack)
<1> SUFFICES ASSUME Init PROVE ArmsInv(stack)
  OBVIOUS
<1>1. \A i \in 1..Len(stack) : stack[i].kind = "fn"
  <2>1. Len(stack) = 1 /\ stack[1].kind = "fn"
    BY DEF Init
  <2> QED BY <2>1
<1> QED BY <1>1 DEF ArmsInv

\* Blocks that stay where they are, seen from the transaction block i.
ArmKept(st, su, n, i, k) ==
  /\ Arm(st, i, k) /\ ArmIs(st, i, k) /\ st[i].kind = "tx" /\ SamePlace(st[i], su[i])
  /\ su[k].blk \in Reached[su[i].blk] /\ su[k].depth = su[i].depth
  /\ su[k].fn = su[i].fn /\ su[k].level = su[i].level
  /\ k < n /\ SamePoint(st[k], su[k]) /\ Past(su[k]) =>
       su[k + 1].kind = "finally" /\ su[k + 1].fn = su[i].fn /\ su[k + 1].level = su[i].level
  /\ k < n /\ su[i].blk \in Plain => su[k + 1].kind # "tx"

LEMMA ArmsKept ==
  ASSUME NEW st, NEW su, NEW n \in Nat, NEW i \in 1..n, NEW k \in i..n,
         \A j \in 1..n : SamePlace(st[j], su[j]), ArmsInv(st), Len(st) \in Nat, n <= Len(st),
         su[i].kind = "tx", Arm(su, i, k)
  PROVE  ArmKept(st, su, n, i, k)
<1>1. /\ i \in 1..Len(st) /\ k \in i..Len(st) /\ k \in 1..n
      /\ \A j \in (i + 1)..k : j \in 1..n
      /\ k < n => k + 1 \in 1..n /\ k < Len(st)
  OBVIOUS
<1>2. SamePlace(st[i], su[i]) /\ SamePlace(st[k], su[k]) /\ (k < n => SamePlace(st[k + 1], su[k + 1]))
  BY <1>1
<1>3. Arm(st, i, k)
  BY <1>1 DEF Arm, SamePlace
<1>4. st[i].kind = "tx" /\ ArmIs(st, i, k)
  BY <1>1, <1>2, <1>3 DEF ArmsInv, SamePlace
<1>5. /\ su[k].blk \in Reached[su[i].blk] /\ su[k].depth = su[i].depth
      /\ su[k].fn = su[i].fn /\ su[k].level = su[i].level
      /\ k < n /\ su[i].blk \in Plain => su[k + 1].kind # "tx"
  BY <1>1, <1>2, <1>4 DEF SamePlace, ArmIs
<1>6. ASSUME k < n, SamePoint(st[k], su[k]), Past(su[k])
      PROVE  su[k + 1].kind = "finally" /\ su[k + 1].fn = su[i].fn /\ su[k + 1].level = su[i].level
  <2>1. Past(st[k])
    BY <1>6 DEF SamePoint, Past
  <2> QED BY <1>1, <1>2, <1>4, <1>6, <2>1 DEF SamePlace, ArmIs
<1> QED BY <1>2, <1>3, <1>4, <1>5, <1>6 DEF ArmKept

LEMMA ArmsNext == TypeOK /\ ArmsInv(stack) /\ [Next]_vars => ArmsInv(stack')
<1> SUFFICES ASSUME TypeOK, ArmsInv(stack), [Next]_vars, NEW i \in 1..Len(stack'),
                    stack'[i].kind = "tx", NEW k \in i..Len(stack'), Arm(stack', i, k)
             PROVE  ArmIs(stack', i, k)
  BY DEF ArmsInv
<1> DEFINE n == Len(stack)
<1>0. n \in Nat
  BY DEF TypeOK, Shape
<1>1. CASE Still
  <2>1. /\ Len(stack') \in Nat /\ Len(stack') <= n
        /\ \A j \in 1..Len(stack') : SamePlace(stack[j], stack'[j])
        /\ \A j \in 1..Len(stack') : j < Len(stack') => SamePoint(stack[j], stack'[j])
    BY <1>1 DEF Still
  <2>2. k \in 1..Len(stack')
    BY <2>1
  <2>3. ArmKept(stack, stack', Len(stack'), i, k)
    BY <1>0, <2>1, <2>2, ArmsKept
  <2> QED BY <2>1, <2>2, <2>3 DEF ArmIs, ArmKept
<1>2. CASE Enters
  <2> DEFINE c == stack'[n + 1]
  <2>1. /\ Len(stack') = n + 1
        /\ \A j \in 1..n : SamePlace(stack[j], stack'[j])
        /\ \A j \in 1..n : j < n => SamePoint(stack[j], stack'[j])
        /\ FrameOK(c)
    BY <1>2 DEF Enters
  <2> HIDE DEF c
  <2>2. CASE i = n + 1
    <3>1. k = i /\ ~(k < n + 1) /\ stack'[i] = c
      BY <1>0, <2>1, <2>2 DEF c
    <3>2. c.blk \in Reached[c.blk]
      BY <2>1, FieldsOf, ReachedClosed
    <3> QED BY <2>1, <3>1, <3>2 DEF ArmIs
  <2>3. CASE i # n + 1 /\ k = n + 1
    <3>1. i \in 1..n /\ n \in i..n /\ \A j \in (i + 1)..n : j \in (i + 1)..k
      BY <1>0, <2>1, <2>3
    <3>2. Arm(stack', i, n) /\ c.kind = "if"
      <4>1. n + 1 \in (i + 1)..k
        BY <3>1, <2>3
      <4> QED BY <3>1, <4>1 DEF Arm, c
    <3>3. Arm(stack, i, n) /\ SamePlace(stack[i], stack'[i]) /\ stack[i].kind = "tx"
      <4>1. ArmKept(stack, stack', n, i, n)
        BY <1>0, <2>1, <3>1, <3>2, ArmsKept
      <4> QED BY <4>1 DEF ArmKept
    <3>4. /\ c.blk \in Reached[stack[i].blk] /\ c.depth = stack[i].depth
          /\ c.fn = stack[i].fn /\ c.level = stack[i].level
      BY <1>2, <3>1, <3>2, <3>3, ArmEntered DEF c
    <3> QED BY <2>1, <2>3, <3>3, <3>4 DEF ArmIs, SamePlace, c
  <2>4. CASE i # n + 1 /\ k # n + 1
    <3>1. i \in 1..n /\ k \in i..n /\ k \in 1..n
      BY <1>0, <2>1, <2>4
    <3>2. ArmKept(stack, stack', n, i, k)
      <4>1. \A j \in 1..n : SamePlace(stack[j], stack'[j])
        BY <2>1
      <4>2. Len(stack) \in Nat /\ n \in Nat /\ n <= Len(stack)
        BY <1>0
      <4> QED BY <1>0, <3>1, <4>1, <4>2, ArmsKept
    <3>3. CASE k < n
      BY <2>1, <3>1, <3>2, <3>3 DEF ArmIs, ArmKept
    <3>4. CASE ~(k < n)
      <4>1. k = n
        BY <1>0, <3>1, <3>4
      <4>2. /\ c.kind = "tx" => stack[i].blk \notin Plain
            /\ Past(stack'[n]) => c.kind = "finally" /\ c.fn = stack[i].fn /\ c.level = stack[i].level
        BY <1>2, <3>1, <3>2, <4>1, ArmEntered DEF ArmKept, c
      <4> QED BY <2>1, <3>2, <4>1, <4>2 DEF ArmIs, ArmKept, SamePlace, c
    <3> QED BY <3>3, <3>4
  <2> QED BY <2>2, <2>3, <2>4
<1> QED BY <1>1, <1>2, StepShapes

\* A statement that goes on is no return, and no error of the program.
LEMMA WentOp ==
  ASSUME TypeOK, Statement, Went
  PROVE  /\ Code(Top)[Top.pc].op \notin {"return", "err"} /\ At(Code(Top)[Top.pc].op)
         /\ Top.pc \in 1..Len(Code(Top)) /\ Top.pc \in Nat \ {0}
<1> DEFINE x == Code(Top)[Top.pc]
<1>1. /\ At(x.op) /\ mode' = "run" /\ Top.pc \in 1..Len(Code(Top)) /\ Top.pc \in Nat \ {0}
  <2>1. Top.pc \in Nat \ {0} /\ Top.pc \in 1..Len(Code(Top))
    BY TopIs, FieldsOf DEF Went
  <2> QED BY <2>1 DEF Went, At
<1>2. ASSUME x.op \in {"return", "err"} PROVE FALSE
  <2>1. \A op : At(op) => op = x.op
    BY DEF At
  <2>2. Return \/ RaiseErr
    BY <1>2, <2>1 DEF Statement, Dml, DmlFails, Savepoint, Commit, Flag, If, Transaction, Call, Finally
  <2> QED BY <1>1, <2>2 DEF Return, RaiseErr
<1> QED BY <1>1, <1>2

\* A transaction block, or an IF statement, goes on by its own statements only.
LEMMA ArmMoves ==
  ASSUME TypeOK, [Next]_vars, NEW i \in 1..Len(stack), i <= Len(stack'),
         stack[i].kind \in {"tx", "if"}
  PROVE  \/ SamePoint(stack[i], stack'[i])
         \/ /\ Went /\ Statement /\ i = Len(stack) /\ stack'[i].pc = stack[i].pc + 1
            /\ Code(stack'[i]) = Code(stack[i]) /\ Top = stack[i]
<1> DEFINE n == Len(stack)
<1>0. n \in Nat /\ (i < n \/ i = n) /\ FrameOK(stack[i]) /\ Top = stack[n] /\ Len(stack') \in Nat
  <2>1. TypeOK'
    BY TypeStep
  <2> QED BY <2>1, LevelsUpTo DEF TypeOK, Shape
<1>1. CASE Statement
  <2>1. Went \/ Turns
    BY <1>1, StatementStep
  <2>2. CASE Turns
    BY <2>2 DEF Turns, SamePoint
  <2>3. CASE Went
    BY <1>0, <1>1, <2>3, WentPlaces
  <2> QED BY <2>1, <2>2, <2>3
<1>2. CASE AfterBody \/ TransactionHandler \/ RetryHandler \/ Reraise \/ AutonomousHandler
  <2>1. TopOnly
    BY <1>2, AfterBodyStep, TransactionHandlerStep, RetryHandlerStep, ReraiseStep, AutonomousHandlerStep
  <2>2. CASE i < n
    BY <1>0, <2>1, <2>2 DEF TopOnly, SamePoint
  <2>3. CASE i = n
    <3>1. TransactionHandler
      BY <1>0, <1>2, <2>3, AfterBodyStep, RetryHandlerStep, ReraiseStep, AutonomousHandlerStep
    <3>2. /\ Kept(Top, stack'[n]) /\ stack'[n].pc = Top.pc /\ stack'[n].phase = "raised"
          /\ Top.phase = "body"
      BY <3>1, TransactionHandlerStep DEF TopOnly
    <3> QED BY <1>0, <2>3, <3>2, CodeSame DEF SamePoint
  <2> QED BY <1>0, <2>2, <2>3
<1>3. CASE FinallyHandler
  <2>1. Top.kind = "fn" /\ \A j \in 1..n : j # n => stack'[j] = stack[j]
    BY <1>3, FinallyHandlerStep
  <2> QED BY <1>0, <2>1 DEF SamePoint
<1>4. CASE FallOut \/ Returning \/ Unwind
  <2>1. PICK how \in Hows : Leaves(how)
    BY <1>4, LeavesStep
  <2>2. \A j \in 1..Len(stack') : stack'[j] = stack[j]
    BY <2>1, LeavesPlaces
  <2>3. i \in 1..Len(stack')
    BY <1>0
  <2> QED BY <2>2, <2>3 DEF SamePoint
<1>5. CASE UNCHANGED vars
  BY <1>5 DEF vars, SamePoint
<1> QED BY <1>1, <1>2, <1>3, <1>4, <1>5 DEF Next, Handler, Finished

\* A transaction block does not go on after a return, nor after an error of its own.
EndIs(fr) ==
  fr.kind = "tx" => /\ fr.pc <= Len(Code(fr)) + 1
                    /\ fr.pc > 1 => Code(fr)[fr.pc - 1].op \notin {"return", "err"}
EndInv(st) == \A i \in 1..Len(st) : EndIs(st[i])

LEMMA EndFresh ==
  ASSUME NEW fr, FrameOK(fr), fr.pc = 1
  PROVE  EndIs(fr)
<1>1. CASE fr.kind = "tx"
  <2>1. fr.depth > 0
    BY <1>1 DEF FrameOK
  <2>2. Code(fr) \in Seq(Instr)
    BY <1>1, <2>1, ArmCodeIs DEF ArmCode
  <2>3. Len(Code(fr)) \in Nat
    BY <2>2
  <2> QED BY <2>3 DEF EndIs
<1>2. CASE fr.kind # "tx"
  BY <1>2 DEF EndIs
<1> QED BY <1>1, <1>2

LEMMA EndInit == Init => EndInv(stack)
<1> SUFFICES ASSUME Init PROVE EndInv(stack)
  OBVIOUS
<1>1. \A i \in 1..Len(stack) : stack[i].kind = "fn"
  <2>1. Len(stack) = 1 /\ stack[1].kind = "fn"
    BY DEF Init
  <2> QED BY <2>1
<1> QED BY <1>1 DEF EndInv, EndIs

LEMMA EndNext == TypeOK /\ EndInv(stack) /\ [Next]_vars => EndInv(stack')
<1> SUFFICES ASSUME TypeOK, EndInv(stack), [Next]_vars, NEW i \in 1..Len(stack')
             PROVE  EndIs(stack'[i])
  BY DEF EndInv
<1>0. Len(stack) \in Nat /\ Len(stack') \in Nat /\ \A j \in 1..Len(stack') : FrameOK(stack'[j])
  <2>1. TypeOK'
    BY TypeStep
  <2> QED BY <2>1 DEF TypeOK, Shape
<1>1. CASE i \in 1..Len(stack) /\ stack[i].kind = "tx"
  <2>1. EndIs(stack[i])
    BY <1>1 DEF EndInv
  <2>2. CASE SamePoint(stack[i], stack'[i])
    BY <1>1, <2>1, <2>2 DEF SamePoint, EndIs
  <2>3. CASE /\ Went /\ Statement /\ stack'[i].pc = stack[i].pc + 1
             /\ Code(stack'[i]) = Code(stack[i]) /\ Top = stack[i]
    <3> DEFINE p == stack[i].pc
               e == Code(stack[i])
    <3>1. p \in Nat \ {0} /\ p \in 1..Len(e) /\ e[p].op \notin {"return", "err"}
      BY <2>3, WentOp
    <3>2. Len(e) \in Nat
      <4>1. ArmCode(stack[i])
        BY <1>1, LevelsUpTo, ArmCodeIs DEF FrameOK
      <4>2. e \in Seq(Instr)
        BY <4>1 DEF ArmCode
      <4> QED BY <4>2
    <3>3. stack'[i].pc = p + 1 /\ Code(stack'[i]) = e
      BY <2>3
    <3> HIDE DEF p, e
    <3>4. p + 1 <= Len(e) + 1 /\ (p + 1) - 1 = p
      BY <3>1, <3>2
    <3> QED BY <3>1, <3>3, <3>4 DEF EndIs
  <2>4. i <= Len(stack')
    BY <1>0
  <2> QED BY <1>1, <2>2, <2>3, <2>4, ArmMoves
<1>2. CASE i \in 1..Len(stack) /\ stack[i].kind # "tx"
  <2>1. SamePlace(stack[i], stack'[i])
    BY <1>2, StepShapes DEF Still, Enters
  <2> QED BY <1>2, <2>1 DEF SamePlace, EndIs
<1>3. CASE i \notin 1..Len(stack)
  <2>1. Enters
    <3>1. ~(Len(stack') <= Len(stack))
      BY <1>0, <1>3
    <3> QED BY <3>1, StepShapes DEF Still
  <2>2. i = Len(stack) + 1
    BY <1>0, <1>3, <2>1 DEF Enters
  <2>3. CASE Went /\ Pushed
    <3>1. stack'[i].pc = 1
      BY <2>2, <2>3 DEF Went, Pushed, Fresh
    <3> QED BY <1>0, <3>1, EndFresh
  <2>4. CASE stack'[i].kind = "finally"
    BY <2>4 DEF EndIs
  <2> QED BY <2>1, <2>2, <2>3, <2>4 DEF Enters
<1> QED BY <1>1, <1>2, <1>3

----------------------------------------------------------------------------
(* What a step does to the transaction of a block that stays.               *)

SpName(fr) == <<"pell_sp", fr.depth>>
WithRow(t, r) == [t EXCEPT !.work = Append(@, r)]
WithSave(name) == [Tx EXCEPT !.saves = Append(Unset(name), [name |-> name, at |-> Len(Tx.work)])]

TxChanges(t) ==
  \/ Dml /\ At("dml") /\ Arg \in Row /\ t = WithRow(Tx, Arg)
  \/ Savepoint /\ At("savepoint") /\ t = WithSave(Arg)
  \/ Commit /\ At("commit") /\ t = NewTx
  \/ TransactionHandler /\ ~Top.flag /\ Saved(SpName(Top)) # {} /\ t = RolledBack(SpName(Top))
  \/ RetryHandler /\ Saved(Attempt) # {} /\ t = RolledBack(Attempt)
  \/ AutonomousHandler /\ t = NewTx

LEMMA TxSet ==
  ASSUME TypeOK, NEW t, SetTx(t), NEW l \in 1..Len(txs)
  PROVE  txs'[l] = txs[l] \/ (l = Len(txs) /\ txs'[l] = t)
<1>1. txs \in Seq(TxT) /\ Len(txs) \in 1..Len(txs) /\ txs' = [txs EXCEPT ![Len(txs)] = t]
  BY TopIs DEF TypeOK, TxsOK, SetTx
<1> QED BY <1>1

LEMMA TxStatement ==
  ASSUME TypeOK, Statement, NEW l \in 1..Len(txs)
  PROVE  txs'[l] = txs[l] \/ (l = Len(txs) /\ TxChanges(txs'[l]))
<1>1. CASE UNCHANGED txs
  BY <1>1
<1>2. CASE txs' = Append(txs, NewTx)
  <2>1. txs \in Seq(TxT)
    BY DEF TypeOK, TxsOK
  <2> QED BY <1>2, <2>1
<1>3. CASE Dml
  <2>1. At("dml") /\ SetTx(WithRow(Tx, Arg))
    BY <1>3 DEF Dml, WithRow
  <2>2. UNCHANGED txs \/ txs' = Append(txs, NewTx) \/ Arg \in Row
    BY <2>1, TxsGo DEF At
  <2>3. Arg \in Row => txs'[l] = txs[l] \/ (l = Len(txs) /\ TxChanges(txs'[l]))
    BY <1>3, <2>1, TxSet DEF TxChanges
  <2> QED BY <1>1, <1>2, <2>2, <2>3
<1>4. CASE Savepoint
  <2>1. At("savepoint") /\ SetTx(WithSave(Arg))
    BY <1>4 DEF Savepoint, WithSave
  <2> QED BY <1>4, <2>1, TxSet DEF TxChanges
<1>5. CASE Commit
  <2>1. At("commit") /\ SetTx(NewTx)
    BY <1>5 DEF Commit
  <2> QED BY <1>5, <2>1, TxSet DEF TxChanges
<1>6. CASE Call
  BY <1>1, <1>2, <1>6 DEF Call
<1>7. CASE DmlFails \/ Flag \/ If \/ Transaction \/ Finally \/ Return \/ RaiseErr
  BY <1>1, <1>7 DEF DmlFails, Flag, If, Transaction, Finally, Return, RaiseErr
<1> QED BY <1>3, <1>4, <1>5, <1>6, <1>7 DEF Statement

LEMMA TxHandler ==
  ASSUME TypeOK, AfterBody \/ TransactionHandler \/ RetryHandler \/ Reraise \/ AutonomousHandler,
         NEW l \in 1..Len(txs)
  PROVE  txs'[l] = txs[l] \/ (l = Len(txs) /\ TxChanges(txs'[l]))
<1>1. CASE UNCHANGED txs
  BY <1>1
<1>2. CASE TransactionHandler /\ ~UNCHANGED txs
  <2>1. ~Top.flag /\ Saved(SpName(Top)) # {} /\ SetTx(RolledBack(SpName(Top)))
    BY <1>2 DEF TransactionHandler, SpName
  <2> QED BY <1>2, <2>1, TxSet DEF TxChanges
<1>3. CASE RetryHandler /\ ~UNCHANGED txs
  <2>1. Saved(Attempt) # {} /\ SetTx(RolledBack(Attempt))
    BY <1>3 DEF RetryHandler, UndoAttempt
  <2> QED BY <1>3, <2>1, TxSet DEF TxChanges
<1>4. CASE AutonomousHandler
  <2>1. SetTx(NewTx)
    BY <1>4 DEF AutonomousHandler
  <2> QED BY <1>4, <2>1, TxSet DEF TxChanges
<1>5. CASE AfterBody \/ Reraise
  BY <1>1, <1>5 DEF AfterBody, Reraise
<1> QED BY <1>1, <1>2, <1>3, <1>4, <1>5

LEMMA TxLeaves ==
  ASSUME TypeOK, NEW how \in Hows, Leaves(how), NEW i \in 1..Len(stack')
  PROVE  txs'[stack[i].level] = txs[stack[i].level] /\ i \in 1..Len(stack) /\ i < Len(stack)
<1>1. /\ Len(stack) \in Nat \ {0} /\ Len(stack') = Len(stack) - 1
  BY LeavesPlaces
<1>2. txs' = IF OwnTx(Top) THEN Front(txs) ELSE txs
  BY DEF Leaves, LeaveWith, OwnTx
<1>3. i \in 1..Len(stack) /\ i # Len(stack) /\ i < Len(stack)
  BY <1>1
<1>4. /\ stack[i].level \in 1..Len(txs) /\ Len(txs) \in Nat
      /\ OwnTx(Top) => stack[i].level <= Len(txs) - 1
  BY <1>3, LevelIs
<1>5. CASE OwnTx(Top)
  <2>1. txs \in Seq(TxT) /\ txs # <<>>
    BY DEF TypeOK, TxsOK
  <2>2. /\ Len(Front(txs)) = Len(txs) - 1
        /\ \A k \in 1..Len(Front(txs)) : Front(txs)[k] = txs[k]
    BY <2>1, FrontIs
  <2> QED BY <1>2, <1>3, <1>4, <1>5, <2>2
<1>6. CASE ~OwnTx(Top)
  BY <1>2, <1>3, <1>6
<1> QED BY <1>5, <1>6

LEMMA TxMoves ==
  ASSUME TypeOK, [Next]_vars, NEW i \in 1..Len(stack), i <= Len(stack')
  PROVE  \/ txs'[stack[i].level] = txs[stack[i].level]
         \/ stack[i].level = Len(txs) /\ TxChanges(txs'[stack[i].level])
<1>0. stack[i].level \in 1..Len(txs) /\ Len(stack') \in Nat
  <2>1. TypeOK'
    BY TypeStep
  <2> QED BY <2>1, LevelIs DEF TypeOK, Shape
<1>1. CASE Statement
  BY <1>0, <1>1, TxStatement
<1>2. CASE AfterBody \/ TransactionHandler \/ RetryHandler \/ Reraise \/ AutonomousHandler
  BY <1>0, <1>2, TxHandler
<1>3. CASE FinallyHandler
  BY <1>3 DEF FinallyHandler
<1>4. CASE FallOut \/ Returning \/ Unwind
  <2>1. i \in 1..Len(stack')
    BY <1>0
  <2> QED BY <1>4, <2>1, LeavesStep, TxLeaves
<1>5. CASE UNCHANGED vars
  BY <1>5 DEF vars
<1> QED BY <1>1, <1>2, <1>3, <1>4, <1>5 DEF Next, Handler, Finished

----------------------------------------------------------------------------
(* What a transaction block leaves uncommitted.                             *)

\* The statement that is executed tells the action.
LEMMA AtOnly ==
  ASSUME Statement
  PROVE  /\ At("commit") => Commit
         /\ At("flag") => Flag
         /\ At("finally") => Finally
         /\ At("savepoint") => Savepoint
         /\ At("call") => Call
         /\ At("transaction") => Transaction
BY DEF At, Statement, Dml, DmlFails, Savepoint, Commit, Flag, If, Transaction, Call, Finally,
       Return, RaiseErr

\* Work comes by statements of SQL only.
LEMMA WorkShrinks ==
  ASSUME TypeOK, NEW t, TxChanges(t)
  PROVE  \/ ToSet(t.work) \subseteq ToSet(Tx.work)
         \/ Dml /\ At("dml") /\ ToSet(t.work) \subseteq ToSet(Tx.work) \cup {Arg}
<1>1. Tx \in TxT /\ TxOK(Tx) /\ Tx.work \in Seq(Row)
  BY TopIs
<1>2. CASE Dml /\ At("dml") /\ t = WithRow(Tx, Arg)
  <2>1. t.work = Append(Tx.work, Arg)
    BY <1>1, <1>2 DEF WithRow, TxT
  <2>2. ToSet(Append(Tx.work, Arg)) \subseteq ToSet(Tx.work) \cup {Arg}
    BY <1>1 DEF ToSet
  <2> QED BY <1>2, <2>1, <2>2
<1>3. CASE t = WithSave(Arg)
  <2>1. t.work = Tx.work
    BY <1>1, <1>3 DEF WithSave, TxT
  <2> QED BY <2>1
<1>4. CASE t = NewTx
  <2>1. t.work = <<>>
    BY <1>4 DEF NewTx
  <2> QED BY <2>1 DEF ToSet
<1>5. ASSUME NEW name, Saved(name) # {}, t = RolledBack(name)
      PROVE  ToSet(t.work) \subseteq ToSet(Tx.work)
  <2>1. PICK j \in Saved(name) : t.work = SubSeq(Tx.work, 1, Tx.saves[j].at)
    BY <1>1, <1>5, TxRollback
  <2> DEFINE at == Tx.saves[j].at
  <2>2. at \in Nat /\ at <= Len(Tx.work)
    <3>1. j \in 1..Len(Tx.saves) /\ Tx.saves \in Seq(SaveT)
      BY <1>1 DEF Saved, TxT
    <3>2. Tx.saves[j] \in SaveT
      BY <3>1
    <3> QED BY <1>1, <3>1, <3>2 DEF TxOK, SaveT
  <2> HIDE DEF at
  <2>3. ToSet(SubSeq(Tx.work, 1, at)) \subseteq ToSet(Tx.work)
    BY <1>1, <2>2 DEF ToSet
  <2> QED BY <2>1, <2>3 DEF at
<1> QED BY <1>2, <1>3, <1>4, <1>5 DEF TxChanges

\* What is left in the transaction of block i is the work of the finally block.
Cleared(st, ts, i) == ToSet(ts[st[i].level].work) \subseteq FinallyRows(st[i].fn)

\* So it is from the COMMIT in block i on, and when a return leaves it.
RowsAre(st, m, ts, i) ==
  /\ \A k \in i..Len(st) : Arm(st, i, k) /\ Past(st[k]) => Cleared(st, ts, i)
  /\ Arm(st, i, Len(st)) /\ m = "return" /\ st[i].blk \in Plain => Cleared(st, ts, i)
RowsInv(st, m, ts) == \A i \in 1..Len(st) : st[i].kind = "tx" => RowsAre(st, m, ts, i)

LEMMA ClearedSame ==
  ASSUME NEW i \in 1..Len(stack), SamePlace(stack[i], stack'[i]), Cleared(stack, txs, i),
         ToSet(txs'[stack[i].level].work) \subseteq ToSet(txs[stack[i].level].work)
  PROVE  Cleared(stack', txs', i)
BY DEF Cleared, SamePlace

\* The work of a finally block that a transaction block has called.
LEMMA ClearedMore ==
  ASSUME TypeOK, CleanupInv(stack), Dml, NEW i \in 1..Len(stack), NEW k \in 1..(Len(stack) - 1),
         stack[k + 1].kind = "finally", stack[k + 1].fn = stack[i].fn,
         stack[k + 1].level = stack[i].level, stack[i].level = Len(txs)
  PROVE  Arg \in FinallyRows(stack[i].fn)
<1> DEFINE g == stack[k + 1]
           b == g.blk
           bs == Reached[b]
<1>1. /\ Len(stack) \in Nat /\ Top = stack[Len(stack)] /\ Top.level = Len(txs)
  BY LevelsUpTo
<1>2. k + 1 \in 1..Len(stack) /\ Len(stack) \in (k + 1)..Len(stack)
  BY <1>1
<1>3. CleansIs(stack, k + 1)
  BY <1>2 DEF CleanupInv
<1>4. b = Def[stack[i].fn].finally /\ b # NoBlock /\ Inside(bs, Top)
  BY <1>1, <1>2, <1>3 DEF CleansIs
<1>5. b \in DOMAIN Block
  BY <1>2, LevelsUpTo, FieldsOf
<1>6. bs \in SUBSET DOMAIN Block
  BY <1>5, ReachedClosed
<1>7. At("dml")
  BY DEF Dml
<1> HIDE DEF b, g
<1>8. /\ Code(Top)[Top.pc] \in StmtsOf(bs) /\ Code(Top)[Top.pc].op = "dml"
      /\ Code(Top)[Top.pc].arg = Arg
  <2> HIDE DEF bs
  <2> QED BY <1>4, <1>6, <1>7, StatementFrom DEF Inside
<1>9. Arg \in Rows[b]
  BY <1>5, <1>8 DEF Rows
<1> QED BY <1>4, <1>9 DEF FinallyRows

\* A block that has called its finally block stays cleared.
LEMMA ClearedKept ==
  ASSUME TypeOK, CleanupInv(stack), ArmsInv(stack), [Next]_vars,
         NEW i \in 1..Len(stack), i <= Len(stack'), stack[i].kind = "tx",
         SamePlace(stack[i], stack'[i]), NEW k \in i..Len(stack), Arm(stack, i, k),
         Past(stack[k]), SamePoint(stack[k], stack'[k]), Cleared(stack, txs, i)
  PROVE  Cleared(stack', txs', i)
<1> DEFINE l == stack[i].level
           n == Len(stack)
<1>1. CASE txs'[l] = txs[l]
  BY <1>1, ClearedSame
<1>2. CASE l = Len(txs) /\ TxChanges(txs'[l])
  <2>1. Tx = txs[l]
    BY <1>2 DEF Tx
  <2>2. CASE ToSet(txs'[l].work) \subseteq ToSet(Tx.work)
    BY <2>1, <2>2, ClearedSame
  <2>3. CASE Dml /\ ToSet(txs'[l].work) \subseteq ToSet(Tx.work) \cup {Arg}
    <3>1. Went
      BY <2>3, DmlStep
    <3>2. n \in 1..n /\ n \in Nat /\ Top = stack[n] /\ stack'[n].pc = Top.pc + 1 /\ Top.pc \in Nat
      BY <3>1, WentPlaces, LevelsUpTo, FieldsOf
    <3>3. k # n
      BY <3>2 DEF SamePoint
    <3>4. k \in 1..(n - 1) /\ k < n
      BY <3>2, <3>3
    <3>5. ArmIs(stack, i, k)
      BY DEF ArmsInv
    <3>6. /\ stack[k + 1].kind = "finally" /\ stack[k + 1].fn = stack[i].fn
          /\ stack[k + 1].level = stack[i].level
      BY <3>4, <3>5 DEF ArmIs
    <3>7. Arg \in FinallyRows(stack[i].fn)
      BY <1>2, <2>3, <3>4, <3>6, ClearedMore
    <3> QED BY <2>1, <2>3, <3>7 DEF Cleared, SamePlace
  <2> QED BY <1>2, <2>2, <2>3, WorkShrinks
<1> QED BY <1>1, <1>2, TxMoves

\* And it is cleared by its COMMIT.
LEMMA ClearedNow ==
  ASSUME TypeOK, ArmsInv(stack), Statement, Went, RowsInv(stack, mode, txs),
         NEW i \in 1..Len(stack), stack[i].kind = "tx", SamePlace(stack[i], stack'[i]),
         Arm(stack, i, Len(stack)), Past(stack'[Len(stack)])
  PROVE  Cleared(stack', txs', i)
<1> DEFINE x == Code(Top)[Top.pc]
           n == Len(stack)
<1>1. /\ stack[i].level = Len(txs) /\ ArmCode(Top)
  BY ArmTop
<1>2. /\ stack'[n].pc = Top.pc + 1 /\ Code(stack'[n]) = Code(Top) /\ Top = stack[n] /\ n \in i..n
      /\ Top.pc \in Nat \ {0} /\ Top.pc \in 1..Len(Code(Top)) /\ At(x.op)
  BY WentPlaces, WentOp, LevelsUpTo
<1>3. x \in Commits \cup {I("finally", NoArg)}
  <2>1. (Top.pc + 1) - 1 = Top.pc
    BY <1>2
  <2> QED BY <1>2, <2>1 DEF Past
<1>4. x.op \in {"commit", "flag", "finally"}
  BY <1>3, OpsOf
<1>5. CASE x.op = "commit"
  <2>1. Commit
    BY <1>2, <1>5, AtOnly
  <2>2. SetTx(NewTx) /\ Len(txs) \in 1..Len(txs) /\ txs \in Seq(TxT)
    BY <2>1, TopIs DEF Commit, TypeOK, TxsOK
  <2>3. txs'[Len(txs)] = NewTx
    BY <2>2 DEF SetTx
  <2>4. ToSet(txs'[stack[i].level].work) = {}
    BY <1>1, <2>3 DEF NewTx, ToSet
  <2> QED BY <2>4 DEF Cleared, SamePlace
<1>6. CASE x.op \in {"flag", "finally"}
  <2>1. TidyAt(Code(Top), Top.depth, Top.pc)
    BY <1>1, <1>2 DEF ArmCode, Tidy
  <2>2. Past(Top)
    BY <1>2, <1>6, <2>1 DEF TidyAt, Past
  <2>3. RowsAre(stack, mode, txs, i)
    BY DEF RowsInv
  <2>4. Cleared(stack, txs, i)
    BY <1>2, <2>2, <2>3 DEF RowsAre
  <2>5. Flag \/ Finally
    BY <1>2, <1>6, AtOnly
  <2>6. txs' = txs
    BY <2>5 DEF Flag, Finally
  <2> QED BY <2>4, <2>6, ClearedSame
<1> QED BY <1>4, <1>5, <1>6

\* Where a return starts in a block that computes no value after its COMMITs.
LEMMA ReturnCleared ==
  ASSUME TypeOK, ArmsInv(stack), RowsInv(stack, mode, txs), Turns, mode' = "return",
         NEW i \in 1..Len(stack), stack[i].kind = "tx", Arm(stack, i, Len(stack)),
         stack[i].blk \in Plain
  PROVE  Cleared(stack', txs', i)
<1> DEFINE x == Code(Top)[Top.pc]
           n == Len(stack)
<1>1. /\ x.op = "return" /\ Top.pc \in 1..Len(Code(Top)) /\ UNCHANGED <<stack, txs>>
  BY DEF Turns
<1>2. Top.blk \in Reached[stack[i].blk] /\ ArmCode(Top) /\ n \in i..n /\ Top = stack[n]
  BY ArmTop, LevelsUpTo
<1>3. Valueless(Top.blk)
  <2>1. ToSet(Block[Top.blk]) \subseteq StmtsOf(Reached[stack[i].blk])
    BY <1>2 DEF StmtsOf
  <2> QED BY <2>1 DEF Valueless, Plain
<1>4. SettledAt(Code(Top), Top.pc)
  BY <1>1, <1>2, <1>3 DEF ArmCode, Settled
<1>5. Past(Top)
  BY <1>1, <1>4 DEF SettledAt, Past
<1>6. RowsAre(stack, mode, txs, i)
  BY DEF RowsInv
<1>7. Cleared(stack, txs, i)
  BY <1>2, <1>5, <1>6 DEF RowsAre
<1> QED BY <1>1, <1>7 DEF Cleared

\* A block of a transaction block, after a step.
LEMMA RowsPast ==
  ASSUME TypeOK, CleanupInv(stack), ArmsInv(stack), RowsInv(stack, mode, txs), [Next]_vars,
         NEW i \in 1..Len(stack), i <= Len(stack'), stack[i].kind = "tx",
         \A j \in 1..Len(stack) : j <= Len(stack') => SamePlace(stack[j], stack'[j]),
         NEW k \in i..Len(stack), k <= Len(stack'), Arm(stack', i, k), Past(stack'[k])
  PROVE  Cleared(stack', txs', i)
<1> DEFINE n == Len(stack)
<1>1. n \in Nat /\ k \in 1..n /\ Len(stack') \in Nat
  <2>1. TypeOK'
    BY TypeStep
  <2> QED BY <2>1 DEF TypeOK, Shape
<1>2. Arm(stack, i, k) /\ SamePlace(stack[i], stack'[i])
  <2>1. \A j \in (i + 1)..k : j \in 1..n /\ j <= Len(stack')
    BY <1>1
  <2> QED BY <2>1 DEF Arm, SamePlace
<1>3. stack[k].kind \in {"tx", "if"}
  <2>1. CASE k = i
    BY <2>1
  <2>2. CASE k # i
    <3>1. k \in (i + 1)..k
      BY <1>1, <2>2
    <3> QED BY <1>2, <3>1 DEF Arm
  <2> QED BY <2>1, <2>2
<1>4. CASE SamePoint(stack[k], stack'[k])
  <2>1. Past(stack[k])
    BY <1>4 DEF SamePoint, Past
  <2>2. RowsAre(stack, mode, txs, i)
    BY DEF RowsInv
  <2>3. Cleared(stack, txs, i)
    BY <1>2, <2>1, <2>2 DEF RowsAre
  <2> QED BY <1>2, <1>4, <2>1, <2>3, ClearedKept
<1>5. CASE Went /\ Statement /\ k = n
  BY <1>2, <1>5, ClearedNow
<1> QED BY <1>1, <1>3, <1>4, <1>5, ArmMoves

\* Where returns come from.
LEMMA ReturnsFrom ==
  ASSUME TypeOK, [Next]_vars, mode' = "return"
  PROVE  \/ Turns
         \/ Leaves("return") /\ mode = "return" /\ Top.kind \in {"tx", "if"}
         \/ UNCHANGED vars
<1>1. CASE Statement
  BY <1>1, StatementStep DEF Went
<1>2. CASE AfterBody \/ TransactionHandler \/ RetryHandler \/ Reraise \/ AutonomousHandler
  BY <1>2, AfterBodyStep, TransactionHandlerStep, RetryHandlerStep, ReraiseStep, AutonomousHandlerStep
<1>3. CASE FinallyHandler
  BY <1>3, FinallyHandlerStep
<1>4. CASE FallOut \/ Returning \/ Unwind
  <2>1. PICK how \in Hows : Leaves(how)
    BY <1>4, LeavesStep
  <2>2. how = "return" /\ Top.kind \notin {"fn", "finally"} /\ mode = "return" /\ stack # <<>>
    BY <2>1 DEF Leaves, LeaveWith
  <2>3. Top.kind \in {"tx", "if"}
    BY <2>2, TopIs, FieldsOf DEF Kinds
  <2> QED BY <2>1, <2>2, <2>3
<1>5. CASE UNCHANGED vars
  BY <1>5
<1> QED BY <1>1, <1>2, <1>3, <1>4, <1>5 DEF Next, Handler, Finished

LEMMA RowsReturn ==
  ASSUME TypeOK, ArmsInv(stack), RowsInv(stack, mode, txs), [Next]_vars, mode' = "return",
         NEW i \in 1..Len(stack'), i <= Len(stack), stack'[i].kind = "tx",
         Arm(stack', i, Len(stack')), stack'[i].blk \in Plain
  PROVE  Cleared(stack', txs', i)
<1> DEFINE n == Len(stack)
<1>0. n \in Nat /\ i \in 1..n
  BY DEF TypeOK, Shape
<1>1. CASE Turns
  <2>1. stack' = stack
    BY <1>1 DEF Turns
  <2> QED BY <1>0, <1>1, <2>1, ReturnCleared
<1>2. CASE UNCHANGED vars
  <2>1. stack' = stack /\ txs' = txs /\ mode = "return"
    BY <1>2 DEF vars
  <2> QED BY <2>1 DEF RowsInv, RowsAre, Cleared
<1>3. CASE Leaves("return") /\ mode = "return" /\ Top.kind \in {"tx", "if"}
  <2>1. /\ n \in Nat \ {0} /\ Len(stack') = n - 1
        /\ \A j \in 1..Len(stack') : stack'[j] = stack[j]
    BY <1>3, LeavesPlaces DEF Hows
  <2>2. /\ n - 1 \in i..n /\ n - 1 < n /\ (n - 1) + 1 = n
        /\ \A j \in (i + 1)..(n - 1) : j \in 1..Len(stack')
        /\ \A j \in (i + 1)..n : j = n \/ j \in (i + 1)..(n - 1)
    <3>1. i \in 1..(n - 1) /\ Len(stack') = n - 1 /\ n \in Nat \ {0}
      BY <2>1
    <3> HIDE DEF n
    <3>2. i \in Nat /\ i >= 1 /\ i <= n - 1
      BY <3>1
    <3> QED BY <3>1, <3>2
  <2>3. /\ stack'[i] = stack[i]
        /\ txs'[stack[i].level] = txs[stack[i].level]
    BY <1>3, <2>1, TxLeaves DEF Hows
  <2>4. Arm(stack, i, n - 1)
    BY <2>1, <2>2 DEF Arm
  <2>5. ArmIs(stack, i, n - 1)
    BY <1>0, <2>2, <2>3, <2>4 DEF ArmsInv
  <2>6. stack[n].kind # "tx" /\ Top = stack[n]
    BY <2>2, <2>3, <2>5 DEF ArmIs, Top
  <2>7. Arm(stack, i, n)
    BY <1>3, <2>2, <2>4, <2>6 DEF Arm
  <2>8. Cleared(stack, txs, i)
    BY <1>0, <1>3, <2>3, <2>7 DEF RowsInv, RowsAre
  <2> QED BY <2>3, <2>8 DEF Cleared
<1> QED BY <1>1, <1>2, <1>3, ReturnsFrom DEF Hows

LEMMA RowsInit == Init => RowsInv(stack, mode, txs)
<1> SUFFICES ASSUME Init PROVE RowsInv(stack, mode, txs)
  OBVIOUS
<1>1. \A i \in 1..Len(stack) : stack[i].kind = "fn"
  <2>1. Len(stack) = 1 /\ stack[1].kind = "fn"
    BY DEF Init
  <2> QED BY <2>1
<1> QED BY <1>1 DEF RowsInv

\* Blocks there were keep their places; those that are new have just begun.
LEMMA PlacesKept ==
  ASSUME TypeOK, [Next]_vars
  PROVE  /\ Len(stack) \in Nat /\ Len(stack') \in Nat /\ Len(stack') <= Len(stack) + 1
         /\ \A j \in 1..Len(stack) : j <= Len(stack') => SamePlace(stack[j], stack'[j])
         /\ Len(stack') = Len(stack) + 1 => Enters
         /\ \A j \in 1..Len(stack') : FrameOK(stack'[j])
<1>1. Len(stack) \in Nat /\ Len(stack') \in Nat /\ \A j \in 1..Len(stack') : FrameOK(stack'[j])
  <2>1. TypeOK'
    BY TypeStep
  <2> QED BY <2>1 DEF TypeOK, Shape
<1>2. CASE Still
  <2>1. Len(stack') <= Len(stack) /\ \A j \in 1..Len(stack') : SamePlace(stack[j], stack'[j])
    BY <1>2 DEF Still
  <2>2. \A j \in 1..Len(stack) : j <= Len(stack') => j \in 1..Len(stack')
    BY <1>1
  <2>3. Len(stack') <= Len(stack) + 1 /\ Len(stack') # Len(stack) + 1
    BY <1>1, <2>1
  <2> QED BY <1>1, <2>1, <2>2, <2>3
<1>3. CASE Enters
  <2>1. Len(stack') = Len(stack) + 1 /\ \A j \in 1..Len(stack) : SamePlace(stack[j], stack'[j])
    BY <1>3 DEF Enters
  <2>2. Len(stack') <= Len(stack) + 1
    BY <1>1, <2>1
  <2> QED BY <1>1, <1>3, <2>1, <2>2
<1> QED BY <1>2, <1>3, StepShapes

\* A block that is not a finally block is entered at its start, by a statement.
LEMMA EnteredNow ==
  ASSUME TypeOK, Enters, stack'[Len(stack) + 1].kind # "finally"
  PROVE  /\ Went /\ Pushed /\ Fresh(stack'[Len(stack) + 1]) /\ mode = "run" /\ mode' = "run"
         /\ Len(stack') = Len(stack) + 1
BY DEF Enters, Went

LEMMA RowsNext ==
  TypeOK /\ CleanupInv(stack) /\ ArmsInv(stack) /\ RowsInv(stack, mode, txs) /\ [Next]_vars
    => RowsInv(stack', mode', txs')
<1> SUFFICES ASSUME TypeOK, CleanupInv(stack), ArmsInv(stack), RowsInv(stack, mode, txs), [Next]_vars,
                    NEW i \in 1..Len(stack'), stack'[i].kind = "tx"
             PROVE  RowsAre(stack', mode', txs', i)
  BY DEF RowsInv
<1> DEFINE n == Len(stack)
<1>1. /\ n \in Nat /\ Len(stack') \in Nat /\ Len(stack') <= n + 1
      /\ \A j \in 1..n : j <= Len(stack') => SamePlace(stack[j], stack'[j])
      /\ Len(stack') = n + 1 => Enters
  BY PlacesKept
<1>2. CASE i <= n
  <2>1. i \in 1..n /\ i <= Len(stack') /\ stack[i].kind = "tx"
    BY <1>1, <1>2 DEF SamePlace
  <2>2. ASSUME NEW k \in i..Len(stack'), Arm(stack', i, k), Past(stack'[k])
        PROVE  Cleared(stack', txs', i)
    <3>1. CASE k <= n
      <4>1. k \in i..n /\ k <= Len(stack')
        BY <1>1, <2>1, <3>1
      <4> QED BY <1>1, <2>1, <2>2, <4>1, RowsPast
    <3>2. CASE k > n
      <4>1. k = n + 1 /\ Len(stack') = n + 1 /\ k \in (i + 1)..k
        BY <1>1, <2>1, <3>2
      <4>2. stack'[k].kind = "if" /\ Enters
        BY <1>1, <2>2, <4>1 DEF Arm
      <4>3. stack'[k].pc = 1
        BY <4>1, <4>2, EnteredNow DEF Fresh
      <4> QED BY <2>2, <4>3 DEF Past
    <3> QED BY <1>1, <2>1, <3>1, <3>2
  <2>3. Arm(stack', i, Len(stack')) /\ mode' = "return" /\ stack'[i].blk \in Plain
          => Cleared(stack', txs', i)
    BY <2>1, RowsReturn
  <2> QED BY <2>2, <2>3 DEF RowsAre
<1>3. CASE i > n
  <2>1. i = n + 1 /\ Len(stack') = n + 1 /\ \A k \in i..Len(stack') : k = i
    BY <1>1, <1>3
  <2>2. stack'[i].pc = 1 /\ mode' = "run"
    BY <1>1, <2>1, EnteredNow DEF Fresh
  <2>3. ~Past(stack'[i])
    BY <2>2 DEF Past
  <2> QED BY <2>1, <2>2, <2>3 DEF RowsAre
<1> QED BY <1>1, <1>2, <1>3

----------------------------------------------------------------------------
(* What the savepoint of a transaction block restores.                      *)

\* In t, the savepoint of that name restores the work w.
HasSave(t, name, w) ==
  \E k \in 1..Len(t.saves) : t.saves[k].name = name /\ SubSeq(t.work, 1, t.saves[k].at) = w

\* The savepoint of an attempt was set after the one of that name.
Later(t, name) ==
  \E k \in 1..Len(t.saves) :
    t.saves[k].name = name /\ \E j \in (k + 1)..Len(t.saves) : t.saves[j].name = Attempt

LEMMA TxParts ==
  ASSUME NEW t, TxOK(t)
  PROVE  /\ t \in TxT /\ t.work \in Seq(Row) /\ t.saves \in Seq(SaveT) /\ Len(t.saves) \in Nat
         /\ Len(t.work) \in Nat
         /\ \A k \in 1..Len(t.saves) : t.saves[k].at \in Nat /\ t.saves[k].at <= Len(t.work)
         /\ \A k, j \in 1..Len(t.saves) : t.saves[j].name = t.saves[k].name => j = k
<1>1. t \in TxT /\ t.work \in Seq(Row) /\ t.saves \in Seq(SaveT)
  BY DEF TxOK, TxT
<1>2. \A k \in 1..Len(t.saves) : t.saves[k] \in SaveT
  BY <1>1
<1>3. ASSUME NEW k \in 1..Len(t.saves), NEW j \in 1..Len(t.saves), t.saves[j].name = t.saves[k].name
      PROVE  j = k
  <2>1. j \in 1..k \/ k \in 1..j
    OBVIOUS
  <2> QED BY <1>3, <2>1 DEF TxOK
<1> QED BY <1>1, <1>2, <1>3 DEF TxOK, SaveT

\* More work leaves it alone.
LEMMA SavesRow ==
  ASSUME NEW t, TxOK(t), NEW r \in Row, NEW name
  PROVE  /\ \A w : HasSave(t, name, w) => HasSave(WithRow(t, r), name, w)
         /\ Later(t, name) => Later(WithRow(t, r), name)
<1> DEFINE u == WithRow(t, r)
<1>1. /\ t \in TxT /\ t.work \in Seq(Row)
      /\ \A k \in 1..Len(t.saves) : t.saves[k].at \in Nat /\ t.saves[k].at <= Len(t.work)
  BY TxParts
<1>2. u.saves = t.saves /\ u.work = Append(t.work, r)
  BY <1>1 DEF TxT, WithRow
<1> HIDE DEF u
<1>3. \A at \in Nat : at <= Len(t.work) => SubSeq(Append(t.work, r), 1, at) = SubSeq(t.work, 1, at)
  BY <1>1
<1> QED BY <1>1, <1>2, <1>3 DEF HasSave, Later, u

\* Other savepoints keep their order when one is forgotten.
LEMMA UnsetKeeps ==
  ASSUME TxOK(Tx), NEW name \in SaveNames, NEW k \in 1..Len(Tx.saves), Tx.saves[k].name # name
  PROVE  \E j \in 1..Len(Unset(name)) : Unset(name)[j] = Tx.saves[k]
<1> DEFINE sv == Tx.saves
           un == Unset(name)
<1>1. sv \in Seq(SaveT) /\ Len(sv) \in Nat
  BY TxParts
<1>2. CASE Saved(name) = {}
  BY <1>2 DEF Unset
<1>3. CASE Saved(name) # {}
  <2> DEFINE c == CHOOSE i \in Saved(name) : TRUE
             p == SubSeq(sv, 1, c - 1)
             q == SubSeq(sv, c + 1, Len(sv))
  <2>1. c \in 1..Len(sv) /\ sv[c].name = name
    BY <1>3 DEF Saved
  <2>2. un = p \o q
    BY <1>3 DEF Unset, RemoveAt
  <2>3. c # k /\ k \in 1..Len(sv)
    BY <2>1
  <2> HIDE DEF c, un, sv
  <2>4. p \in Seq(SaveT) /\ Len(p) = c - 1 /\ \A i \in 1..(c - 1) : p[i] = sv[i]
    BY <1>1, <2>1
  <2>5. q \in Seq(SaveT) /\ Len(q) = Len(sv) - c /\ \A i \in 1..(Len(sv) - c) : q[i] = sv[c + i]
    BY <1>1, <2>1
  <2> HIDE DEF p, q
  <2>6. /\ Len(un) = Len(p) + Len(q)
        /\ \A i \in 1..Len(p) : un[i] = p[i]
        /\ \A i \in 1..Len(q) : un[Len(p) + i] = q[i]
    <3>1. p \in Seq(SaveT) /\ q \in Seq(SaveT)
      BY <2>4, <2>5
    <3> QED BY <2>2, <3>1, TwoParts
  <2>7. CASE k < c
    <3>1. k \in 1..(c - 1) /\ k \in 1..Len(un)
      BY <1>1, <2>1, <2>3, <2>4, <2>5, <2>6, <2>7
    <3>2. un[k] = sv[k]
      BY <2>4, <2>6, <3>1
    <3> QED BY <3>1, <3>2 DEF un, sv
  <2>8. CASE k > c
    <3>1. k - c \in 1..(Len(sv) - c) /\ c + (k - c) = k
      BY <1>1, <2>1, <2>3, <2>8
    <3>2. Len(p) + (k - c) \in 1..Len(un)
      BY <1>1, <2>1, <2>4, <2>5, <2>6, <3>1
    <3>3. q[k - c] = sv[c + (k - c)]
      BY <2>5, <3>1
    <3>4. un[Len(p) + (k - c)] = sv[k]
      BY <2>5, <2>6, <3>1, <3>3
    <3> QED BY <3>2, <3>4 DEF un, sv
  <2>9. k < c \/ k > c
    BY <2>1, <2>3
  <2> QED BY <2>7, <2>8, <2>9
<1> QED BY <1>2, <1>3

\* A savepoint that is set restores the work there is.
LEMMA SavesSet ==
  ASSUME TypeOK, NEW name \in SaveNames
  PROVE  /\ HasSave(WithSave(name), name, Tx.work)
         /\ WithSave(name).work = Tx.work /\ WithSave(name).saves # <<>>
         /\ \A other, w : other # name /\ HasSave(Tx, other, w) => HasSave(WithSave(name), other, w)
         /\ \A other, w : name = Attempt /\ other # name /\ HasSave(Tx, other, w)
                            => Later(WithSave(name), other)
<1> DEFINE e == [name |-> name, at |-> Len(Tx.work)]
           un == Unset(name)
           ns == Append(un, e)
           u == WithSave(name)
<1>1. Tx \in TxT /\ TxOK(Tx) /\ Tx.work \in Seq(Row) /\ Len(Tx.work) \in Nat
  BY TopIs
<1>2. un \in Seq(SaveT) /\ e.name = name /\ e.at = Len(Tx.work)
  BY <1>1, UnsetIs
<1>3. u.saves = ns /\ u.work = Tx.work
  BY <1>1 DEF TxT, WithSave
<1>4. SubSeq(Tx.work, 1, Len(Tx.work)) = Tx.work
  BY <1>1
<1>5. \A k \in 1..Len(Tx.saves) : Tx.saves[k].name # name => \E j \in 1..Len(un) : un[j] = Tx.saves[k]
  BY <1>1, UnsetKeeps
<1> HIDE DEF e, un, u
<1>6. /\ Len(ns) = Len(un) + 1 /\ Len(un) \in Nat /\ ns[Len(un) + 1] = e /\ ns # <<>>
      /\ \A j \in 1..Len(un) : ns[j] = un[j] /\ j \in 1..Len(ns) /\ Len(un) + 1 \in (j + 1)..Len(ns)
      /\ Len(un) + 1 \in 1..Len(ns)
  BY <1>2
<1> HIDE DEF ns
<1>7. HasSave(u, name, Tx.work)
  BY <1>2, <1>3, <1>4, <1>6 DEF HasSave
<1>8. ASSUME NEW other, NEW w, other # name, HasSave(Tx, other, w)
      PROVE  HasSave(u, other, w) /\ (name = Attempt => Later(u, other))
  <2>1. PICK k \in 1..Len(Tx.saves) : Tx.saves[k].name = other /\ SubSeq(Tx.work, 1, Tx.saves[k].at) = w
    BY <1>8 DEF HasSave
  <2>2. PICK j \in 1..Len(un) : un[j] = Tx.saves[k]
    BY <1>5, <1>8, <2>1
  <2>3. j \in 1..Len(ns) /\ ns[j] = Tx.saves[k] /\ Len(un) + 1 \in (j + 1)..Len(ns)
    BY <1>6, <2>2
  <2>4. HasSave(u, other, w)
    BY <1>3, <2>1, <2>3 DEF HasSave
  <2>5. name = Attempt => Later(u, other)
    BY <1>2, <1>3, <1>6, <2>1, <2>3 DEF Later
  <2> QED BY <2>4, <2>5
<1> QED BY <1>3, <1>6, <1>7, <1>8 DEF u

\* It restores that work.
LEMMA SavesUndone ==
  ASSUME TypeOK, NEW name, NEW w, HasSave(Tx, name, w)
  PROVE  Saved(name) # {} /\ RolledBack(name).work = w
<1>1. TxOK(Tx)
  BY TopIs
<1>2. PICK k \in 1..Len(Tx.saves) : Tx.saves[k].name = name /\ SubSeq(Tx.work, 1, Tx.saves[k].at) = w
  BY DEF HasSave
<1>3. k \in Saved(name)
  BY <1>2 DEF Saved
<1>4. PICK i \in Saved(name) : RolledBack(name).work = SubSeq(Tx.work, 1, Tx.saves[i].at)
  BY <1>1, <1>3, TxRollback
<1>5. i \in 1..Len(Tx.saves) /\ Tx.saves[i].name = Tx.saves[k].name
  BY <1>2 DEF Saved
<1>6. i = k
  BY <1>1, <1>5, TxParts
<1> QED BY <1>2, <1>3, <1>4, <1>6

\* The rollback of a later attempt leaves it alone.
LEMMA SavesKept ==
  ASSUME TypeOK, NEW name, NEW w, HasSave(Tx, name, w), Later(Tx, name)
  PROVE  /\ Saved(Attempt) # {}
         /\ HasSave(RolledBack(Attempt), name, w) /\ Later(RolledBack(Attempt), name)
<1> DEFINE u == RolledBack(Attempt)
           sv == Tx.saves
<1>1. TxOK(Tx)
  BY TopIs
<1>2. /\ Tx.work \in Seq(Row) /\ sv \in Seq(SaveT) /\ Len(sv) \in Nat
      /\ Len(Tx.work) \in Nat
      /\ \A k \in 1..Len(sv) : sv[k].at \in Nat /\ sv[k].at <= Len(Tx.work)
      /\ \A k, j \in 1..Len(sv) : sv[j].name = sv[k].name => j = k
  BY <1>1, TxParts
<1>3. PICK k \in 1..Len(sv) : sv[k].name = name /\ SubSeq(Tx.work, 1, sv[k].at) = w
  BY DEF HasSave
<1>4. PICK m \in 1..Len(sv) : sv[m].name = name /\ \E j \in (m + 1)..Len(sv) : sv[j].name = Attempt
  BY DEF Later
<1>5. m = k
  BY <1>2, <1>3, <1>4
<1>6. PICK j \in (k + 1)..Len(sv) : sv[j].name = Attempt
  BY <1>4, <1>5
<1>7. j \in 1..Len(sv) /\ k \in 1..j /\ j \in (k + 1)..j /\ j \in Nat
  BY <1>2, <1>6
<1>8. j \in Saved(Attempt)
  BY <1>6, <1>7 DEF Saved
<1>9. PICK i \in Saved(Attempt) : u.work = SubSeq(Tx.work, 1, sv[i].at) /\ u.saves = SubSeq(sv, 1, i)
  BY <1>1, <1>8, TxRollback
<1>10. i = j
  <2>1. i \in 1..Len(sv) /\ sv[i].name = sv[j].name
    BY <1>6, <1>9 DEF Saved
  <2> QED BY <1>2, <1>7, <2>1
<1> HIDE DEF u
<1>11. Len(u.saves) = j /\ \A x \in 1..j : u.saves[x] = sv[x]
  <2> HIDE DEF sv
  <2> QED BY <1>2, <1>7, <1>9, <1>10
<1>12. sv[k].at <= sv[j].at
  BY <1>1, <1>7 DEF TxOK
<1>13. SubSeq(u.work, 1, sv[k].at) = w
  <2> DEFINE a == sv[k].at
             c == sv[j].at
  <2>1. a \in Nat /\ c \in Nat /\ a <= c /\ c <= Len(Tx.work)
    BY <1>2, <1>7, <1>12
  <2>2. u.work = SubSeq(Tx.work, 1, c)
    BY <1>9, <1>10
  <2> HIDE DEF a, c
  <2>3. SubSeq(SubSeq(Tx.work, 1, c), 1, a) = SubSeq(Tx.work, 1, a)
    BY <1>2, <2>1
  <2> QED BY <1>3, <2>2, <2>3 DEF a
<1>14. k \in 1..j /\ k \in 1..Len(u.saves) /\ j \in 1..j /\ j \in (k + 1)..Len(u.saves)
  BY <1>7, <1>11
<1>15. u.saves[k] = sv[k] /\ u.saves[j] = sv[j]
  BY <1>11, <1>14
<1>16. HasSave(u, name, w)
  BY <1>3, <1>13, <1>14, <1>15 DEF HasSave
<1>17. Later(u, name)
  BY <1>3, <1>6, <1>14, <1>15 DEF Later
<1> QED BY <1>8, <1>16, <1>17 DEF u

----------------------------------------------------------------------------
(* What a step changes of a block that stays.                               *)

\* It is the same block: its handler does not come back, nor does its flag go.
Stays(fr, g) ==
  /\ SamePlace(fr, g) /\ g.work = fr.work /\ g.committed = fr.committed
  /\ g.phase = "body" => fr.phase = "body"
  /\ fr.flag => g.flag

LEMMA StaysIs ==
  ASSUME NEW fr, NEW g, FrameOK(fr), FrameOK(g)
  PROVE  /\ Stays(fr, fr)
         /\ Kept(fr, g) /\ (g.phase = "body" => fr.phase = "body") => Stays(fr, g)
         /\ Alike(fr, g) /\ (fr.flag => g.flag) => Stays(fr, g)
BY DEF Stays, SamePlace, Kept, Alike, Like

\* The flag of the transaction block a COMMIT belongs to is set.
LEMMA FlagSets ==
  ASSUME TypeOK, Flag, NEW i \in 1..Len(stack)
  PROVE  /\ stack[i].flag => stack'[i].flag
         /\ stack[i].kind = "tx" /\ Arm(stack, i, Len(stack)) /\ Arg = stack[i].depth
              => stack'[i].flag
<1> DEFINE n == Len(stack)
           o == TxFrame(Arg)
           st == [stack EXCEPT ![o].flag = TRUE]
<1>1. /\ stack \in Seq(FrameT) /\ n \in 1..n /\ n \in Nat /\ \A j \in 1..n : stack[j] \in FrameT
  BY LevelsUpTo, TopIs DEF TypeOK, Shape, FrameOK
<1>2. stack' = [st EXCEPT ![n].pc = @ + 1]
  BY DEF Flag
<1>3. stack[i].kind = "tx" /\ Arm(stack, i, n) /\ Arg = stack[i].depth => o = i
  <2> SUFFICES ASSUME stack[i].kind = "tx", Arm(stack, i, n), Arg = stack[i].depth PROVE o = i
    OBVIOUS
  <2> DEFINE S == {j \in 1..n : stack[j].kind = "tx" /\ stack[j].depth = Arg}
  <2>1. i \in S /\ S \in SUBSET (1..n)
    OBVIOUS
  <2>2. \E x \in S : \A y \in S : x >= y
    BY <1>1, <2>1, GreatestNumber
  <2>3. o \in S /\ \A y \in S : o >= y
    BY <2>2 DEF TxFrame, Max
  <2>4. o >= i /\ o \in 1..n /\ stack[o].kind = "tx"
    BY <2>1, <2>3
  <2>5. o \notin (i + 1)..n
    BY <2>4 DEF Arm
  <2> HIDE DEF o, n
  <2> QED BY <1>1, <2>4, <2>5
<1> HIDE DEF o
<1>4. DOMAIN stack = 1..n /\ DOMAIN st = 1..n
  BY <1>1
<1>5. st[i].flag = IF i = o THEN TRUE ELSE stack[i].flag
  BY <1>1, <1>4 DEF FrameT
<1>6. stack'[i].flag = st[i].flag
  <2>1. stack'[i] = IF i = n THEN [st[i] EXCEPT !.pc = @ + 1] ELSE st[i]
    BY <1>1, <1>2, <1>4
  <2>2. st[i] = IF i = o THEN [stack[i] EXCEPT !.flag = TRUE] ELSE stack[i]
    BY <1>1, <1>4
  <2>3. st[i] \in FrameT
    <3>1. FrameOK(stack[i])
      BY LevelsUpTo
    <3> HIDE DEF st
    <3>2. FrameOK([stack[i] EXCEPT !.flag = TRUE])
      BY <3>1, FlagChanges
    <3> QED BY <2>2, <3>1, <3>2 DEF FrameOK
  <2> HIDE DEF st
  <2>4. [st[i] EXCEPT !.pc = @ + 1].flag = st[i].flag
    BY <2>3 DEF FrameT
  <2> QED BY <2>1, <2>4
<1> QED BY <1>3, <1>5, <1>6

LEMMA FlagsKept ==
  ASSUME TypeOK, Statement, NEW i \in 1..Len(stack), stack[i].flag
  PROVE  stack'[i].flag
<1> DEFINE n == Len(stack)
           adv == Advanced
           st == [stack EXCEPT ![n] = adv]
<1>1. stack \in Seq(FrameT) /\ n \in 1..n /\ n \in Nat /\ Top = stack[n] /\ Top \in FrameT
  BY LevelsUpTo, TopIs, FieldsOf
<1>2. adv \in FrameT /\ adv.flag = Top.flag
  <2>1. FrameOK(adv)
    BY <1>1, AdvancedIs, LevelsUpTo
  <2>2. adv.flag = Top.flag
    BY <1>1 DEF Advanced, FrameT
  <2> QED BY <2>1, <2>2, FieldsOf
<1> HIDE DEF adv
<1>3. st \in Seq(FrameT) /\ Len(st) = n /\ st[n] = adv /\ \A j \in 1..n : j # n => st[j] = stack[j]
  BY <1>1, <1>2, ReplacedIs
<1> HIDE DEF st
<1>4. st[i].flag
  BY <1>1, <1>2, <1>3
<1>5. CASE SetTop(Advanced)
  <2>1. stack' = st
    BY <1>5 DEF SetTop, st, adv
  <2> QED BY <1>4, <2>1
<1>6. CASE \E c : Push(Advanced, c)
  <2>1. PICK c : stack' = Append(st, c)
    BY <1>6 DEF Push, st, adv
  <2>2. stack'[i] = st[i]
    BY <1>3, <2>1
  <2> QED BY <1>4, <2>2
<1>7. CASE UNCHANGED stack
  BY <1>7
<1>8. CASE Flag
  BY <1>8, FlagSets
<1>9. CASE Finally
  <2> DEFINE f == FnFrame
             s2 == [st EXCEPT ![f].fins = @ + 1]
             c == Frame("finally", Top.fn, Def[Top.fn].finally, 0)
  <2>0. [stack EXCEPT ![n].pc = @ + 1] = st
    BY <1>1 DEF st, adv, Advanced
  <2>1. stack' = Append(s2, c)
    BY <1>9, <2>0 DEF Finally
  <2> HIDE DEF f, c
  <2>2. DOMAIN st = 1..n /\ DOMAIN s2 = 1..n /\ st[i] \in FrameT
    BY <1>3
  <2>4. s2[i].flag = st[i].flag
    <3>1. s2[i] = IF i = f THEN [st[i] EXCEPT !.fins = @ + 1] ELSE st[i]
      BY <2>2
    <3>2. [st[i] EXCEPT !.fins = @ + 1].flag = st[i].flag
      BY <2>2 DEF FrameT
    <3> QED BY <3>1, <3>2
  <2>5. Len(s2) = n /\ s2 \in Seq({s2[j] : j \in 1..n})
    <3>1. s2 \in [1..n -> {s2[j] : j \in 1..n}]
      <4>1. s2 = [j \in 1..n |-> s2[j]]
        BY <2>2
      <4> HIDE DEF s2
      <4> QED BY <4>1
    <3> HIDE DEF s2
    <3> QED BY <1>1, <3>1
  <2> HIDE DEF s2
  <2>6. stack'[i] = s2[i]
    BY <2>1, <2>5
  <2> QED BY <1>4, <2>4, <2>6
<1> QED BY <1>5, <1>6, <1>7, <1>8, <1>9
      DEF Statement, Dml, DmlFails, Savepoint, Commit, If, Transaction, Call, Return, RaiseErr

\* The only step that changes the phase of a transaction block.
Catches(i) == TransactionHandler /\ i = Len(stack)

LEMMA TxPhase ==
  ASSUME TypeOK, [Next]_vars, NEW i \in 1..Len(stack), i <= Len(stack')
  PROVE  /\ Stays(stack[i], stack'[i])
         /\ stack[i].kind = "tx" =>
              Catches(i) \/ (stack'[i].phase = stack[i].phase /\ stack'[i].cause = stack[i].cause)
<1> DEFINE n == Len(stack)
<1>1. /\ n \in Nat /\ FrameOK(stack[i]) /\ FrameOK(stack'[i]) /\ Top = stack[n] /\ n \in 1..n
      /\ Len(stack') \in Nat /\ (i < n \/ i = n)
  <2>1. Len(stack') \in Nat /\ \A j \in 1..Len(stack') : FrameOK(stack'[j])
    BY PlacesKept
  <2> QED BY <2>1, LevelsUpTo
<1> DEFINE fr == stack[i]
           g == stack'[i]
<1>2. CASE g = fr
  <2> HIDE DEF fr, g
  <2> QED BY <1>1, <1>2, StaysIs DEF fr, g
<1>3. CASE Statement
  <2>1. CASE Turns
    <3>1. g = fr
      BY <2>1 DEF Turns
    <3> QED BY <1>2, <3>1
  <2>2. CASE Went
    <3>1. Alike(fr, g)
      BY <2>2 DEF Went
    <3>2. fr.flag => g.flag
      BY <1>3, FlagsKept
    <3> HIDE DEF fr, g
    <3>3. Stays(fr, g) /\ g.phase = fr.phase /\ g.cause = fr.cause
      BY <1>1, <3>1, <3>2, StaysIs DEF Alike, fr, g
    <3> QED BY <3>3 DEF fr, g
  <2> QED BY <1>3, <2>1, <2>2, StatementStep
<1>4. CASE AfterBody \/ TransactionHandler \/ RetryHandler \/ Reraise \/ AutonomousHandler
  <2>1. TopOnly
    BY <1>4, AfterBodyStep, TransactionHandlerStep, RetryHandlerStep, ReraiseStep, AutonomousHandlerStep
  <2>2. CASE i # n
    <3>1. g = fr
      BY <2>1, <2>2 DEF TopOnly
    <3> QED BY <1>2, <3>1
  <2>3. CASE i = n
    <3>1. fr = Top /\ Kept(fr, g)
      BY <1>1, <2>1, <2>3 DEF TopOnly
    <3>2. g.phase = "body" => fr.phase = "body"
      BY <1>4, <2>3, <3>1, AfterBodyStep, TransactionHandlerStep, RetryHandlerStep, ReraiseStep,
         AutonomousHandlerStep
    <3>3. fr.kind = "tx" => Catches(i)
      BY <1>4, <2>3, <3>1, AfterBodyStep, RetryHandlerStep, ReraiseStep, AutonomousHandlerStep
         DEF Catches
    <3> HIDE DEF fr, g
    <3>4. Stays(fr, g)
      BY <1>1, <3>1, <3>2, StaysIs DEF fr, g
    <3> QED BY <3>3, <3>4 DEF fr, g
  <2> QED BY <2>2, <2>3
<1>5. CASE FinallyHandler
  <2>1. /\ Top.kind = "fn" /\ Top.phase = "body" /\ Kept(Top, stack'[n])
        /\ stack'[n].phase = "cleanup"
        /\ \A j \in 1..n : j # n => stack'[j] = stack[j]
    BY <1>5, FinallyHandlerStep
  <2>2. CASE i # n
    <3>1. g = fr
      BY <2>1, <2>2
    <3> QED BY <1>2, <3>1
  <2>3. CASE i = n
    <3>1. fr.kind = "fn" /\ Kept(fr, g) /\ g.phase # "body"
      BY <1>1, <2>1, <2>3
    <3> HIDE DEF fr, g
    <3>2. Stays(fr, g)
      BY <1>1, <3>1, StaysIs DEF fr, g
    <3> QED BY <3>1, <3>2 DEF fr, g
  <2> QED BY <2>2, <2>3
<1>6. CASE FallOut \/ Returning \/ Unwind
  <2>1. \A j \in 1..Len(stack') : stack'[j] = stack[j]
    BY <1>6, LeavesStep, LeavesPlaces
  <2>2. g = fr
    BY <1>1, <2>1
  <2> QED BY <1>2, <2>2
<1>7. CASE UNCHANGED vars
  <2>1. g = fr
    BY <1>7 DEF vars
  <2> QED BY <1>2, <2>1
<1> QED BY <1>3, <1>4, <1>5, <1>6, <1>7 DEF Next, Handler, Finished

\* The rows a COMMIT makes durable are of the innermost transaction.
CommitsTop ==
  /\ Commit /\ At("commit") /\ Len(committed') \in Nat /\ Len(committed) <= Len(committed')
  /\ \A x \in 1..Len(committed) : committed'[x] = committed[x]
  /\ \A x \in (Len(committed) + 1)..Len(committed') : committed'[x].level = Len(txs)

LEMMA CommittedMoves ==
  ASSUME TypeOK, [Next]_vars
  PROVE  committed' = committed \/ CommitsTop
<1>1. CASE Commit
  <2> DEFINE l == Len(txs)
             w == Tx.work
             e == [i \in DOMAIN w |-> [level |-> l, row |-> w[i]]]
  <2>1. committed' = committed \o e
    BY <1>1 DEF Commit
  <2>2. w \in Seq(Row) /\ committed \in Seq(Durable) /\ l \in Nat /\ At("commit")
    BY <1>1, TopIs DEF TypeOK, SessionOK, TxsOK, Commit
  <2> HIDE DEF l, w
  <2>3. e \in Seq(Durable) /\ Len(e) = Len(w) /\ \A i \in 1..Len(w) : e[i].level = l
    <3>1. DOMAIN w = 1..Len(w) /\ Len(w) \in Nat /\ \A i \in 1..Len(w) : w[i] \in Row
      BY <2>2
    <3>2. \A i \in 1..Len(w) : [level |-> l, row |-> w[i]] \in Durable
      BY <2>2, <3>1 DEF Durable
    <3>3. e = [i \in 1..Len(w) |-> [level |-> l, row |-> w[i]]]
      BY <3>1
    <3> QED BY <3>1, <3>2, <3>3
  <2>8. committed' = committed \o e
    BY <2>1 DEF l, w
  <2> HIDE DEF e
  <2>4. /\ Len(committed') = Len(committed) + Len(e)
        /\ \A q \in 1..Len(committed) : committed'[q] = committed[q]
        /\ \A q \in 1..Len(e) : committed'[Len(committed) + q] = e[q]
    <3> DEFINE t == committed'
    <3>1. t = committed \o e /\ committed \in Seq(Durable) /\ e \in Seq(Durable)
      BY <2>2, <2>3, <2>8
    <3> HIDE DEF t
    <3>2. /\ Len(t) = Len(committed) + Len(e)
          /\ \A q \in 1..Len(committed) : t[q] = committed[q]
          /\ \A q \in 1..Len(e) : t[Len(committed) + q] = e[q]
      BY <3>1, TwoParts
    <3> QED BY <3>2 DEF t
  <2>5. Len(committed) \in Nat /\ Len(e) \in Nat
    BY <2>2, <2>3
  <2>6. ASSUME NEW x \in (Len(committed) + 1)..Len(committed') PROVE committed'[x].level = l
    <3>1. x - Len(committed) \in 1..Len(e) /\ Len(committed) + (x - Len(committed)) = x
      BY <2>4, <2>5
    <3>2. committed'[Len(committed) + (x - Len(committed))] = e[x - Len(committed)]
      BY <2>4, <3>1
    <3> QED BY <2>3, <3>1, <3>2
  <2>7. Len(committed') \in Nat /\ Len(committed) <= Len(committed')
    BY <2>4, <2>5
  <2> QED BY <1>1, <2>2, <2>4, <2>6, <2>7 DEF CommitsTop, l
<1>2. CASE Statement /\ ~Commit
  BY <1>2, CommitsOnly
<1>3. CASE ~Statement
  BY <1>3 DEF Next, Handler, Finished, AfterBody, FallOut, Returning, LeaveWith, TransactionHandler,
              RetryHandler, FinallyHandler, Reraise, AutonomousHandler, Unwind, vars
<1> QED BY <1>1, <1>2, <1>3

----------------------------------------------------------------------------
(* What keeps the work of a transaction block from being committed.         *)

\* A transaction block of the property, while its handler would roll it back.
PlainTx(fr) == fr.kind = "tx" /\ fr.blk \in Plain
Holding(fr) == PlainTx(fr) /\ fr.phase = "body" /\ ~fr.flag

\* What runs in its transaction is part of it, or runs on its behalf.
Regioned(st, i) ==
  \A k \in (i + 1)..Len(st) :
    st[k].level = st[i].level => Arm(st, i, k) \/ Under(Reached[st[i].blk], st[k])

\* Its transaction has committed nothing since it was entered.
Quiet(fr, cm) == \A x \in (Len(fr.committed) + 1)..Len(cm) : cm[x].level # fr.level

\* It has just been entered.
Begins(st, m, t, cm, i) ==
  i = Len(st) /\ m = "run" /\ t.work = st[i].work /\ Quiet(st[i], cm)

\* It is committing: nothing but COMMITs and flags up to its own flag.
Ending(fr) ==
  \E q \in fr.pc..Len(Code(fr)) :
    Code(fr)[q] = I("flag", fr.depth) /\ \A r \in fr.pc..q : Code(fr)[r] \in Commits
Committing(st, m, i) == m = "run" /\ Arm(st, i, Len(st)) /\ Ending(st[Len(st)])

\* Its savepoint is there, and every function that retries inside set its own after it.
NoCommit(st, i) == \A k \in i..Len(st) : Arm(st, i, k) => ~PastCommit(st[k])
Retrying(fr) == fr.kind = "fn" /\ Def[fr.fn].retry > 0 /\ fr.phase = "body"
Starts(st, m, k) == k = Len(st) /\ st[k].pc = 1 /\ m = "run"
Retries(st, m, t, i) ==
  \A k \in (i + 1)..Len(st) :
    st[k].level = st[i].level /\ Retrying(st[k]) => Later(t, SpName(st[i])) \/ Starts(st, m, k)
Held(st, m, t, cm, i) ==
  /\ Quiet(st[i], cm)
  /\ HasSave(t, SpName(st[i]), st[i].work)
  /\ NoCommit(st, i)
  /\ Retries(st, m, t, i)

HoldIs(st, m, ts, cm, i) ==
  Holding(st[i]) =>
    /\ Regioned(st, i)
    /\ IF st[i].pc = 1 THEN Begins(st, m, ts[st[i].level], cm, i)
       ELSE Committing(st, m, i) \/ Held(st, m, ts[st[i].level], cm, i)

\* Its handler is done: the work is as it was when it was entered, unless it had committed.
UndoneIs(st, m, e, ts, cm, i) ==
  PlainTx(st[i]) /\ st[i].phase = "raised" =>
    /\ i = Len(st) /\ m = "raise" /\ e = st[i].cause
    /\ ~st[i].flag => ts[st[i].level].work = st[i].work /\ Quiet(st[i], cm)

HoldInv(st, m, e, ts, cm) ==
  \A i \in 1..Len(st) : HoldIs(st, m, ts, cm, i) /\ UndoneIs(st, m, e, ts, cm, i)

\* What the innermost block may execute.
LEMMA HoldTop ==
  ASSUME TypeOK, ArmsInv(stack), NEW i \in 1..Len(stack), PlainTx(stack[i]), Regioned(stack, i),
         stack[i].level = Len(txs)
  PROVE  /\ Arm(stack, i, Len(stack)) \/ (i # Len(stack) /\ Under(Reached[stack[i].blk], Top))
         /\ Top.kind = "tx" => i = Len(stack)
         /\ ~OwnTx(Top)
         /\ Top.pc \in 1..Len(Code(Top)) =>
              /\ Code(Top)[Top.pc].op \in {"commit", "flag"} => Arm(stack, i, Len(stack))
              /\ Code(Top)[Top.pc].op = "savepoint" =>
                   Top.pc = 1 /\ (i = Len(stack) \/ Code(Top)[Top.pc].arg = Attempt)
<1> DEFINE n == Len(stack)
           bs == Reached[stack[i].blk]
           x == Code(Top)[Top.pc]
<1>1. /\ n \in i..n /\ FrameOK(stack[i]) /\ Top = stack[n] /\ Top.level = Len(txs) /\ FrameOK(Top)
      /\ n \in Nat
  BY LevelsUpTo
<1>2. Arm(stack, i, n) \/ (i # n /\ Under(bs, Top))
  <2>1. CASE i = n
    <3>1. \A j \in (i + 1)..n : FALSE
      BY <1>1, <2>1
    <3> QED BY <3>1 DEF Arm
  <2>2. CASE i # n
    <3>1. n \in (i + 1)..n
      BY <1>1, <2>2
    <3> QED BY <1>1, <2>2, <3>1 DEF Regioned
  <2> QED BY <2>1, <2>2
<1>3. CASE Arm(stack, i, n)
  <2>1. /\ Top.kind \in {"tx", "if"} /\ (Top.kind = "tx" <=> i = n) /\ ArmCode(Top)
    BY <1>3, ArmTop DEF PlainTx
  <2>2. Top.pc \in 1..Len(Code(Top)) /\ x.op = "savepoint" => Top.kind = "tx" /\ Top.pc = 1
    BY <2>1 DEF ArmCode
  <2> QED BY <1>3, <2>1, <2>2 DEF OwnTx
<1>4. CASE i # n /\ Under(bs, Top)
  <2>1. Within(bs, Top) /\ ~OwnTx(Top) /\ Top.kind # "tx" /\ stack[i].blk \in Plain
    BY <1>4 DEF Under, Within, PlainTx
  <2>2. ASSUME Top.pc \in 1..Len(Code(Top))
        PROVE  /\ x.op \notin {"commit", "flag"}
               /\ x.op = "savepoint" => Top.pc = 1 /\ x.arg = Attempt
    <3>1. StmtIs(bs, Top, Top.pc, x)
      BY <1>1, <2>1, <2>2, RegionCode
    <3>2. bs \in SUBSET DOMAIN Block
      BY <1>1, FieldsOf, ReachedClosed
    <3> HIDE DEF bs, x
    <3>3. StmtsOf(bs) \subseteq Stmts
      BY <3>2, GrownIs
    <3>4. CASE x \in StmtsOf(bs)
      BY <3>3, <3>4, BlockAssumption
    <3>5. CASE x = I("return", NoArg) \/ x = I("finally", NoArg)
      BY <3>5 DEF I
    <3>6. CASE Top.pc = 1 /\ x = I("savepoint", Attempt)
      BY <3>6 DEF I
    <3> QED BY <2>1, <3>1, <3>4, <3>5, <3>6 DEF StmtIs
  <2> QED BY <1>2, <1>4, <2>1, <2>2
<1> QED BY <1>2, <1>3, <1>4

\* It calls no finally block after a COMMIT of a block that holds.
LEMMA ArmCalm ==
  ASSUME TypeOK, ArmsInv(stack), NEW i \in 1..Len(stack), Holding(stack[i]),
         HoldIs(stack, mode, txs, committed, i), Arm(stack, i, Len(stack))
  PROVE  /\ ~At("finally")
         /\ At("flag") => Committing(stack, mode, i)
<1> DEFINE n == Len(stack)
           e == Code(Top)
           p == Top.pc
<1>1. /\ n \in i..n /\ FrameOK(stack[i]) /\ Top = stack[n] /\ FrameOK(Top) /\ n \in Nat
  BY LevelsUpTo
<1>2. ArmCode(Top)
  BY ArmTop DEF Holding, PlainTx
<1> SUFFICES ASSUME NEW op \in {"flag", "finally"}, At(op)
             PROVE  op # "finally" /\ Committing(stack, mode, i)
  OBVIOUS
<1>3. p \in 1..Len(e) /\ e[p].op = op
  BY AtIs
<1>4. PastCommit(Top)
  <2>1. TidyAt(e, Top.depth, p)
    BY <1>2, <1>3 DEF ArmCode, Tidy
  <2> QED BY <1>3, <2>1 DEF TidyAt, PastCommit
<1>5. Committing(stack, mode, i)
  <2>1. CASE stack[i].pc = 1
    <3>1. i = n
      BY <2>1 DEF HoldIs, Begins
    <3>2. Top.pc = 1
      BY <1>1, <2>1, <3>1
    <3> QED BY <1>4, <3>2 DEF PastCommit
  <2>2. CASE Held(stack, mode, txs[stack[i].level], committed, i)
    BY <1>1, <1>4, <2>2 DEF Held, NoCommit
  <2> QED BY <2>1, <2>2 DEF HoldIs
<1>6. e[p] \in Commits
  <2>1. PICK q \in p..Len(e) : \A r \in p..q : e[r] \in Commits
    BY <1>1, <1>5 DEF Committing, Ending
  <2>2. p \in p..q
    BY <1>3, <2>1
  <2> QED BY <2>1, <2>2
<1> QED BY <1>3, <1>5, <1>6, OpsOf

LEMMA RegionedEntered ==
  ASSUME TypeOK, ArmsInv(stack), Enters, NEW i \in 1..Len(stack), Holding(stack[i]),
         HoldIs(stack, mode, txs, committed, i), stack'[Len(stack) + 1].level = stack[i].level,
         NEW c, c = stack'[Len(stack) + 1]
  PROVE  (Arm(stack, i, Len(stack)) /\ c.kind = "if") \/ Under(Reached[stack[i].blk], c)
<1> DEFINE b == stack[i].blk
           bs == Reached[b]
<1>1. /\ stack[i].level = Len(txs) /\ c.level = Len(txs) /\ Regioned(stack, i) /\ PlainTx(stack[i])
      /\ FrameOK(stack[i]) /\ b \in Plain
  BY EnteredLevel, LevelsUpTo DEF HoldIs, Holding, PlainTx
<1>2. bs \in SUBSET DOMAIN Block /\ ClosedSet(bs)
  BY <1>1, FieldsOf, ReachedClosed
<1>3. \A s \in StmtsOf(bs) : s.op # "transaction"
  BY <1>1 DEF Plain
<1> HIDE DEF bs
<1>4. CASE Arm(stack, i, Len(stack))
  <2>1. Went /\ Pushed /\ (c.kind = "tx" => b \notin Plain)
    BY <1>1, <1>4, ArmEntered DEF PlainTx
  <2>2. Top.blk \in bs
    BY <1>1, <1>4, ArmTop DEF PlainTx, bs
  <2>3. ~At("finally")
    BY <1>4, ArmCalm
  <2>4. /\ c.blk \in bs
        /\ c.kind = "fn" => /\ ~OwnTx(c) /\ c.fn \in Calls(bs) /\ c.depth = 0
                            /\ Def[c.fn].finally \in bs \cup {NoBlock} /\ At("call")
        /\ c.kind = "finally" => At("finally")
    BY <1>1, <1>2, <2>1, <2>2, <2>3, PushedIn
  <2>5. c.kind \in Kinds
    BY FieldsOf DEF Enters
  <2>6. c.kind \in {"if", "fn"}
    BY <1>1, <2>1, <2>3, <2>4, <2>5 DEF Kinds
  <2> QED BY <1>4, <2>4, <2>6 DEF Under, Within, bs
<1>5. CASE Under(bs, Top)
  <2>1. Top.blk \in bs /\ Def[Top.fn].finally \in bs \cup {NoBlock} /\ Top.depth = 0
    BY <1>5 DEF Under, Within
  <2>2. CASE Pushed
    <3>1. /\ c.blk \in bs
          /\ c.kind = "fn" => /\ ~OwnTx(c) /\ c.fn \in Calls(bs) /\ c.depth = 0
                              /\ Def[c.fn].finally \in bs \cup {NoBlock} /\ At("call")
          /\ c.kind # "fn" => c.fn = Top.fn
          /\ c.kind = "if" => c.depth = Top.depth
          /\ c.kind = "tx" => \E s \in StmtsOf(bs) : s.op = "transaction"
          /\ c.kind = "finally" => c.depth = 0
      BY <1>1, <1>2, <2>1, <2>2, PushedIn
    <3>2. c.kind \in Kinds
      BY FieldsOf DEF Enters
    <3> QED BY <1>3, <2>1, <3>1, <3>2 DEF Under, Within, OwnTx, Kinds, bs
  <2>3. CASE /\ Def[Top.fn].finally # NoBlock /\ c.kind = "finally" /\ c.fn = Top.fn
             /\ c.blk = Def[Top.fn].finally /\ c.depth = 0
    BY <2>1, <2>3 DEF Under, Within, OwnTx, bs
  <2> QED BY <2>2, <2>3 DEF Enters
<1> QED BY <1>1, <1>4, <1>5, HoldTop DEF bs

LEMMA RegionedNext ==
  ASSUME TypeOK, ArmsInv(stack), [Next]_vars, NEW i \in 1..Len(stack), i <= Len(stack'),
         Holding(stack[i]), HoldIs(stack, mode, txs, committed, i)
  PROVE  Regioned(stack', i)
<1> DEFINE n == Len(stack)
<1>1. /\ n \in Nat /\ Len(stack') \in Nat /\ Len(stack') <= n + 1
      /\ \A j \in 1..n : j <= Len(stack') => SamePlace(stack[j], stack'[j])
      /\ Len(stack') = n + 1 => Enters
  BY PlacesKept
<1>2. SamePlace(stack[i], stack'[i]) /\ Regioned(stack, i)
  BY <1>1 DEF HoldIs
<1>3. \A k \in i..n : k <= Len(stack') /\ Arm(stack, i, k) => Arm(stack', i, k)
  <2>1. \A k \in i..n : \A j \in (i + 1)..k : k <= Len(stack') => j \in 1..n /\ j <= Len(stack')
    BY <1>1
  <2> QED BY <1>1, <2>1 DEF Arm, SamePlace
<1> SUFFICES ASSUME NEW k \in (i + 1)..Len(stack'), stack'[k].level = stack'[i].level
             PROVE  Arm(stack', i, k) \/ Under(Reached[stack'[i].blk], stack'[k])
  BY DEF Regioned
<1>4. CASE k <= n
  <2>1. k \in 1..n /\ k \in (i + 1)..n /\ k <= Len(stack') /\ k \in i..n
    BY <1>1, <1>4
  <2>2. SamePlace(stack[k], stack'[k])
    BY <1>1, <2>1
  <2>3. stack[k].level = stack[i].level /\ stack'[i].blk = stack[i].blk
    BY <1>2, <2>2 DEF SamePlace
  <2>4. Arm(stack, i, k) \/ Under(Reached[stack[i].blk], stack[k])
    BY <1>2, <2>1, <2>3 DEF Regioned
  <2> QED BY <1>3, <2>1, <2>2, <2>3, <2>4, SamePlaceIs
<1>5. CASE k > n
  <2>1. k = n + 1 /\ Len(stack') = n + 1 /\ n \in i..n
    BY <1>1, <1>5
  <2>2. Enters
    BY <1>1, <2>1
  <2>3. stack'[n + 1].level = stack[i].level /\ stack'[i].blk = stack[i].blk
    BY <1>2, <2>1 DEF SamePlace
  <2>4. (Arm(stack, i, n) /\ stack'[n + 1].kind = "if")
          \/ Under(Reached[stack[i].blk], stack'[n + 1])
    BY <2>2, <2>3, RegionedEntered
  <2>5. ASSUME Arm(stack, i, n), stack'[n + 1].kind = "if" PROVE Arm(stack', i, n + 1)
    <3>1. Arm(stack', i, n)
      BY <1>1, <1>3, <2>1, <2>5
    <3>2. \A j \in (i + 1)..(n + 1) : j = n + 1 \/ j \in (i + 1)..n
      BY <1>1
    <3> QED BY <2>5, <3>1, <3>2 DEF Arm
  <2> QED BY <2>1, <2>3, <2>4, <2>5
<1> QED BY <1>1, <1>4, <1>5

----------------------------------------------------------------------------
(* How a transaction block comes to commit, and what its savepoint keeps.   *)

LEMMA RunsOn ==
  ASSUME TypeOK, [Next]_vars, stack # <<>>, mode = "run", Top.phase # "cleanup",
         Top.pc \in 1..Len(Code(Top)), Len(Code(Top)) \in Nat
  PROVE  Statement \/ UNCHANGED vars
<1>1. ~(Top.pc > Len(Code(Top)))
  OBVIOUS
<1> QED BY <1>1 DEF Next, Handler, AfterBody, FallOut, Returning, AtEnd, TransactionHandler,
      RetryHandler, FinallyHandler, Reraise, AutonomousHandler, Unwind, Raising, Finished

LEMMA QuietMoves ==
  ASSUME TypeOK, [Next]_vars, NEW i \in 1..Len(stack), i <= Len(stack'),
         Quiet(stack[i], committed), ~(Commit /\ stack[i].level = Len(txs))
  PROVE  Quiet(stack'[i], committed')
<1>1. stack'[i].committed = stack[i].committed /\ stack'[i].level = stack[i].level
  BY TxPhase DEF Stays, SamePlace
<1>2. CASE committed' = committed
  BY <1>1, <1>2 DEF Quiet
<1>3. CASE CommitsTop /\ stack[i].level # Len(txs)
  <2> DEFINE o == Len(stack[i].committed)
             m == Len(committed)
  <2>1. /\ Len(committed') \in Nat /\ m <= Len(committed')
        /\ \A x \in 1..m : committed'[x] = committed[x]
        /\ \A x \in (m + 1)..Len(committed') : committed'[x].level = Len(txs)
    BY <1>3 DEF CommitsTop
  <2>2. o \in Nat /\ m \in Nat
    BY LevelsUpTo, FieldsOf DEF TypeOK, SessionOK
  <2>3. \A x \in (o + 1)..m : committed[x].level # stack[i].level
    BY DEF Quiet
  <2> HIDE DEF o, m
  <2>4. ASSUME NEW x \in (o + 1)..Len(committed') PROVE committed'[x].level # stack[i].level
    <3>1. (x \in (o + 1)..m /\ x \in 1..m) \/ x \in (m + 1)..Len(committed')
      BY <2>1, <2>2
    <3> QED BY <1>3, <2>1, <2>3, <3>1
  <2> QED BY <1>1, <2>4 DEF Quiet, o
<1> QED BY <1>2, <1>3, CommittedMoves DEF CommitsTop

\* One statement on the way to the flag.
LEMMA EndingWent ==
  ASSUME NEW fr, NEW g, g.pc = fr.pc + 1, Code(g) = Code(fr), g.depth = fr.depth,
         fr.pc \in Nat, Len(Code(fr)) \in Nat,
         NEW q \in fr.pc..Len(Code(fr)), q # fr.pc,
         Code(fr)[q] = I("flag", fr.depth), \A r \in fr.pc..q : Code(fr)[r] \in Commits
  PROVE  Ending(g)
<1>1. q \in g.pc..Len(Code(g)) /\ \A r \in g.pc..q : r \in fr.pc..q
  OBVIOUS
<1> QED BY <1>1 DEF Ending

LEMMA CommittingNext ==
  ASSUME TypeOK, ArmsInv(stack), [Next]_vars, NEW i \in 1..Len(stack), i <= Len(stack'),
         Holding(stack[i]), Holding(stack'[i]), Committing(stack, mode, i)
  PROVE  Committing(stack', mode', i)
<1> DEFINE n == Len(stack)
           e == Code(Top)
           p == Top.pc
<1>1. /\ n \in i..n /\ Top = stack[n] /\ FrameOK(Top) /\ n \in Nat /\ p \in Nat \ {0}
      /\ stack # <<>>
  BY LevelsUpTo, FieldsOf
<1>2. /\ Top.kind \in {"tx", "if"} /\ Top.depth = stack[i].depth /\ ArmCode(Top)
      /\ stack[i].kind = "tx" /\ Arm(stack, i, n) /\ mode = "run"
  BY ArmTop DEF Holding, PlainTx, Committing
<1>3. e \in Seq(Instr) /\ Len(e) \in Nat
  BY <1>2 DEF ArmCode
<1>4. PICK q \in p..Len(e) : e[q] = I("flag", Top.depth) /\ \A r \in p..q : e[r] \in Commits
  BY <1>1, <1>2 DEF Committing, Ending
<1>5. p \in 1..Len(e) /\ p \in p..q
  BY <1>1, <1>3, <1>4
<1>6. Top.phase # "cleanup"
  BY <1>1, <1>2 DEF FrameOK
<1>7. CASE UNCHANGED vars
  BY <1>7 DEF vars, Committing
<1>8. CASE Statement
  <2>1. e[p].op \in {"commit", "flag"}
    BY <1>4, <1>5, OpsOf
  <2>2. ~Turns
    BY <2>1 DEF Turns
  <2>3. Went
    BY <1>8, <2>2, StatementStep
  <2>4. At(e[p].op)
    BY <1>8, <2>3, WentOp
  <2>5. Commit \/ Flag
    BY <1>8, <2>1, <2>4, AtOnly
  <2>6. Len(stack') = n /\ mode' = "run"
    BY <2>3, <2>5, CommitStep, FlagGoes DEF Went
  <2>7. q # p
    <3> SUFFICES ASSUME q = p PROVE FALSE
      OBVIOUS
    <3>1. e[p].op = "flag" /\ e[p].arg = Top.depth
      BY <1>4 DEF I
    <3>2. Flag /\ Arg = stack[i].depth
      BY <1>2, <1>8, <2>4, <3>1, AtOnly DEF Arg
    <3>3. stack'[i].flag
      BY <1>2, <3>2, FlagSets
    <3> QED BY <3>3 DEF Holding
  <2>8. /\ stack'[n].pc = p + 1 /\ Code(stack'[n]) = e
        /\ \A j \in 1..n : SamePlace(stack[j], stack'[j])
    BY <2>3, WentPlaces
  <2>9. stack'[n].depth = Top.depth
    BY <1>1, <2>8 DEF SamePlace
  <2>10. Ending(stack'[n])
    BY <1>1, <1>3, <1>4, <2>7, <2>8, <2>9, EndingWent
  <2>11. Arm(stack', i, n)
    <3>1. \A j \in (i + 1)..n : j \in 1..n
      BY <1>1
    <3> QED BY <1>2, <2>8, <3>1 DEF Arm, SamePlace
  <2> QED BY <2>6, <2>10, <2>11 DEF Committing
<1> QED BY <1>1, <1>2, <1>3, <1>5, <1>6, <1>7, <1>8, RunsOn

\* The first COMMIT.
LEMMA CommittingStarts ==
  ASSUME TypeOK, ArmsInv(stack), Commit, NEW i \in 1..Len(stack), i <= Len(stack'),
         PlainTx(stack[i]), Regioned(stack, i), stack[i].level = Len(txs)
  PROVE  Committing(stack', mode', i)
<1> DEFINE n == Len(stack)
           e == Code(Top)
           p == Top.pc
<1>1. /\ n \in i..n /\ Top = stack[n] /\ FrameOK(Top) /\ n \in Nat /\ p \in Nat \ {0}
  BY LevelsUpTo, FieldsOf
<1>2. At("commit") /\ Went /\ Len(stack') = n /\ mode' = "run"
  BY CommitStep DEF Commit, Went
<1>3. p \in 1..Len(e) /\ e[p].op = "commit" /\ e \in Seq(Instr) /\ e[p] \in Instr
  BY <1>2, AtIs
<1>4. Arm(stack, i, n)
  BY <1>3, HoldTop
<1>5. ArmCode(Top) /\ Len(e) \in Nat
  <2>1. ArmCode(Top)
    BY <1>4, ArmTop DEF PlainTx
  <2> QED BY <1>3, <2>1
<1>6. e[p] = I("commit", NoArg)
  <2> HIDE DEF e, p
  <2>1. \A x \in Stmts : x.op # "commit"
    BY BlockAssumption
  <2>2. e[p] \in Stmts \/ e[p] \in Commits \/ e[p].op \in {"return", "finally", "call", "savepoint"}
    BY <1>3 DEF Instr, I
  <2>3. e[p] \in Commits
    BY <1>3, <2>1, <2>2
  <2> QED BY <1>3, <2>3 DEF Commits, I
<1>7. TidyAt(e, Top.depth, p)
  BY <1>3, <1>5 DEF ArmCode, Tidy
<1>8. PICK q \in p..Len(e) : e[q] = I("flag", Top.depth) /\ \A r \in p..q : e[r] \in Commits
  BY <1>6, <1>7 DEF TidyAt
<1>9. q # p
  BY <1>3, <1>8 DEF I
<1>10. /\ stack'[n].pc = p + 1 /\ Code(stack'[n]) = e
       /\ \A j \in 1..n : SamePlace(stack[j], stack'[j])
  BY <1>2, WentPlaces
<1>11. stack'[n].depth = Top.depth
  BY <1>1, <1>10 DEF SamePlace
<1>12. Ending(stack'[n])
  BY <1>1, <1>5, <1>8, <1>9, <1>10, <1>11, EndingWent
<1>13. Arm(stack', i, n)
  <2>1. \A j \in (i + 1)..n : j \in 1..n
    BY <1>1
  <2> QED BY <1>4, <1>10, <2>1 DEF Arm, SamePlace
<1> QED BY <1>2, <1>12, <1>13 DEF Committing

\* What a block at its savepoint does.
LEMMA SaveFirst ==
  ASSUME TypeOK, [Next]_vars, stack # <<>>, mode = "run", Top.phase = "body", Top.pc = 1,
         NEW name \in SaveNames, Code(Top)[1] = I("savepoint", name),
         Len(Code(Top)) \in Nat, Len(Code(Top)) >= 1
  PROVE  \/ UNCHANGED vars
         \/ /\ Savepoint /\ Arg = name /\ Went /\ Len(stack') = Len(stack)
            /\ committed' = committed /\ txs'[Len(txs)] = WithSave(name)
<1>1. Top.pc \in 1..Len(Code(Top))
  OBVIOUS
<1>2. CASE Statement
  <2>1. Code(Top)[Top.pc].op = "savepoint" /\ Arg = name
    BY DEF Arg, I
  <2>2. At("savepoint")
    BY <1>1, <2>1 DEF At
  <2>3. Savepoint
    BY <1>2, <2>2, AtOnly
  <2>4. SetTx(WithSave(name)) /\ committed' = committed
    BY <2>1, <2>3 DEF Savepoint, WithSave
  <2>5. txs'[Len(txs)] = WithSave(name)
    <3>1. txs \in Seq(TxT) /\ Len(txs) \in 1..Len(txs)
      BY TopIs DEF TypeOK, TxsOK
    <3> QED BY <2>4, <3>1 DEF SetTx
  <2> QED BY <2>1, <2>3, <2>4, <2>5, SavepointStep
<1> QED BY <1>1, <1>2, RunsOn

LEMMA SpNames ==
  ASSUME NEW fr, FrameOK(fr)
  PROVE  SpName(fr) \in SaveNames /\ SpName(fr) # Attempt /\ Attempt \in SaveNames
<1>1. fr.depth \in Nat
  BY FieldsOf
<1> QED BY <1>1 DEF SpName, SaveNames, Attempt

\* The savepoint of a block that goes on: it is kept, and so is a later one of an attempt.
LEMMA SavesMove ==
  ASSUME TypeOK, ArmsInv(stack), [Next]_vars, NEW i \in 1..Len(stack), i <= Len(stack'),
         Holding(stack[i]), Holding(stack'[i]), Regioned(stack, i), stack[i].pc # 1,
         Held(stack, mode, txs[stack[i].level], committed, i),
         ~(Commit /\ stack[i].level = Len(txs)), NEW l, l = stack[i].level,
         NEW name, name = SpName(stack[i])
  PROVE  /\ HasSave(txs'[l], name, stack[i].work)
         /\ Later(txs[l], name) => Later(txs'[l], name)
<1> DEFINE w == stack[i].work
           n == Len(stack)
<1>0. HasSave(txs[l], name, w) /\ Retries(stack, mode, txs[l], i)
  BY DEF Held
<1>9. PlainTx(stack[i]) /\ Top = stack[n] /\ n \in 1..n /\ n \in Nat /\ i \in Nat
  BY LevelsUpTo DEF Holding
<1>1. CASE txs'[l] = txs[l]
  BY <1>0, <1>1
<1>2. CASE l = Len(txs) /\ TxChanges(txs'[l])
  <2>1. Tx = txs[l] /\ TxOK(Tx) /\ FrameOK(stack[i]) /\ Top.level = l
    BY <1>2, TopIs, LevelsUpTo DEF Tx
  <2>2. name # Attempt /\ name \in SaveNames /\ Attempt \in SaveNames
    BY <2>1, SpNames
  <2>3. /\ Arm(stack, i, n) \/ (i # n /\ Under(Reached[stack[i].blk], Top))
        /\ Top.kind = "tx" => i = n
        /\ ~OwnTx(Top)
    BY <1>2, <1>9, HoldTop
  <2>4. CASE Dml /\ Arg \in Row /\ txs'[l] = WithRow(Tx, Arg)
    BY <1>0, <2>1, <2>4, SavesRow
  <2>5. CASE At("savepoint") /\ txs'[l] = WithSave(Arg)
    <3>1. /\ Top.pc \in 1..Len(Code(Top)) /\ Code(Top)[Top.pc].op = "savepoint"
          /\ Code(Top)[Top.pc].arg = Arg
      BY <2>5, AtIs DEF Arg
    <3>2. Top.pc = 1 /\ (i = n \/ Arg = Attempt)
      BY <1>2, <1>9, <3>1, HoldTop
    <3>3. Arg = Attempt
      BY <1>9, <3>2
    <3> QED BY <1>0, <2>1, <2>2, <2>5, <3>3, SavesSet
  <2>6. CASE TransactionHandler
    <3>1. i = n
      BY <2>3, <2>6, TransactionHandlerStep
    <3>2. stack'[i].phase = "raised"
      BY <2>6, <3>1, TransactionHandlerStep
    <3> QED BY <3>2 DEF Holding
  <2>7. CASE RetryHandler /\ txs'[l] = RolledBack(Attempt)
    <3>1. mode = "raise" /\ Top.kind = "fn" /\ Top.phase = "body" /\ Def[Top.fn].retry > 0
      BY <2>7, RetryHandlerStep
    <3>2. i # n
      BY <1>9, <3>1 DEF PlainTx
    <3>3. n \in (i + 1)..n
      BY <1>9, <3>2
    <3>4. Later(txs[l], name)
      BY <1>0, <1>9, <2>1, <3>1, <3>3 DEF Retries, Retrying, Starts
    <3> QED BY <1>0, <2>1, <2>7, <3>4, SavesKept
  <2>8. CASE AutonomousHandler
    BY <2>3, <2>8, AutonomousHandlerStep DEF OwnTx
  <2> QED BY <1>2, <2>4, <2>5, <2>6, <2>7, <2>8 DEF TxChanges
<1> QED BY <1>1, <1>2, TxMoves

LEMMA NoCommitNext ==
  ASSUME TypeOK, ArmsInv(stack), [Next]_vars, NEW i \in 1..Len(stack), i <= Len(stack'),
         Holding(stack[i]), NoCommit(stack, i), ~(Commit /\ stack[i].level = Len(txs))
  PROVE  NoCommit(stack', i)
<1> DEFINE n == Len(stack)
<1>1. /\ n \in Nat /\ Len(stack') \in Nat /\ Len(stack') <= n + 1
      /\ \A j \in 1..n : j <= Len(stack') => SamePlace(stack[j], stack'[j])
      /\ Len(stack') = n + 1 => Enters
  BY PlacesKept
<1> SUFFICES ASSUME NEW k \in i..Len(stack'), Arm(stack', i, k), PastCommit(stack'[k]) PROVE FALSE
  BY DEF NoCommit
<1>2. CASE k > n
  <2>1. k = n + 1 /\ Len(stack') = n + 1 /\ k \in (i + 1)..k
    BY <1>1, <1>2
  <2>2. stack'[n + 1].kind = "if" /\ Enters
    BY <1>1, <2>1 DEF Arm
  <2>3. stack'[n + 1].pc = 1
    BY <2>2, EnteredNow DEF Fresh
  <2> QED BY <2>1, <2>3 DEF PastCommit
<1>3. CASE k <= n
  <2>1. k \in 1..n /\ k \in i..n /\ k <= Len(stack') /\ \A j \in (i + 1)..k : j \in 1..n /\ j <= Len(stack')
    BY <1>1, <1>3
  <2>2. Arm(stack, i, k)
    BY <1>1, <2>1 DEF Arm, SamePlace
  <2>3. ~PastCommit(stack[k])
    BY <2>1, <2>2 DEF NoCommit
  <2>4. stack[k].kind \in {"tx", "if"}
    <3>1. CASE k = i
      BY <3>1 DEF Holding, PlainTx
    <3>2. CASE k # i
      <4>1. k \in (i + 1)..k
        BY <1>1, <2>1, <3>2
      <4> QED BY <2>2, <4>1 DEF Arm
    <3> QED BY <3>1, <3>2
  <2>5. ~SamePoint(stack[k], stack'[k])
    BY <2>3 DEF SamePoint, PastCommit
  <2>6. /\ Went /\ Statement /\ k = n /\ stack'[k].pc = stack[k].pc + 1
        /\ Code(stack'[k]) = Code(stack[k]) /\ Top = stack[k]
    BY <2>1, <2>4, <2>5, ArmMoves
  <2> DEFINE x == Code(Top)[Top.pc]
  <2>7. At(x.op) /\ Top.pc \in 1..Len(Code(Top)) /\ Top.pc \in Nat \ {0}
    BY <2>6, WentOp
  <2>8. x \in Commits
    <3>1. (Top.pc + 1) - 1 = Top.pc
      BY <2>7
    <3> QED BY <2>6, <3>1 DEF PastCommit
  <2>9. Arm(stack, i, n) /\ stack[i].kind = "tx"
    BY <2>2, <2>6 DEF Holding, PlainTx
  <2>10. stack[i].level = Len(txs) /\ ArmCode(Top)
    BY <2>9, ArmTop
  <2>11. x.op \in {"commit", "flag"}
    BY <2>8, OpsOf
  <2>12. CASE x.op = "commit"
    <3>1. Commit
      BY <2>6, <2>7, <2>12, AtOnly
    <3> QED BY <2>10, <3>1
  <2>13. CASE x.op = "flag"
    <3>1. TidyAt(Code(Top), Top.depth, Top.pc)
      BY <2>7, <2>10 DEF ArmCode, Tidy
    <3>2. PastCommit(Top)
      BY <2>13, <3>1 DEF TidyAt, PastCommit
    <3> QED BY <2>3, <2>6, <3>2
  <2> QED BY <2>11, <2>12, <2>13
<1> QED BY <1>1, <1>2, <1>3

LEMMA RetriesNext ==
  ASSUME TypeOK, ArmsInv(stack), [Next]_vars, NEW i \in 1..Len(stack), i <= Len(stack'),
         Holding(stack[i]), Holding(stack'[i]), Regioned(stack, i), stack[i].pc # 1,
         Held(stack, mode, txs[stack[i].level], committed, i),
         ~(Commit /\ stack[i].level = Len(txs))
  PROVE  Retries(stack', mode', txs'[stack[i].level], i)
<1> DEFINE n == Len(stack)
           l == stack[i].level
           name == SpName(stack[i])
<1>1. /\ n \in Nat /\ Len(stack') \in Nat /\ Len(stack') <= n + 1
      /\ \A j \in 1..n : j <= Len(stack') => SamePlace(stack[j], stack'[j])
      /\ Len(stack') = n + 1 => Enters
  BY PlacesKept
<1>2. Later(txs[l], name) => Later(txs'[l], name)
  BY SavesMove
<1>3. stack'[i].level = l /\ SpName(stack'[i]) = name
  BY <1>1 DEF SamePlace, SpName
<1> SUFFICES ASSUME NEW k \in (i + 1)..Len(stack'), stack'[k].level = l, Retrying(stack'[k])
             PROVE  Later(txs'[l], name) \/ Starts(stack', mode', k)
  BY <1>3 DEF Retries
<1>4. CASE k > n
  <2>1. k = n + 1 /\ Len(stack') = n + 1
    BY <1>1, <1>4
  <2>2. Fresh(stack'[k]) /\ mode' = "run"
    BY <1>1, <2>1, EnteredNow DEF Retrying
  <2> QED BY <2>1, <2>2 DEF Starts, Fresh
<1>5. CASE k <= n
  <2>1. k \in 1..n /\ k \in (i + 1)..n /\ k <= Len(stack')
    BY <1>1, <1>5
  <2>2. Stays(stack[k], stack'[k])
    BY <2>1, TxPhase
  <2>3. Retrying(stack[k]) /\ stack[k].level = l
    BY <2>2 DEF Stays, SamePlace, Retrying
  <2>4. Later(txs[l], name) \/ Starts(stack, mode, k)
    BY <2>1, <2>3 DEF Held, Retries
  <2>5. CASE Starts(stack, mode, k)
    <3>1. /\ k = n /\ Top = stack[n] /\ Top.pc = 1 /\ mode = "run" /\ FrameOK(Top) /\ stack # <<>>
          /\ Top.level = Len(txs) /\ FrameOK(stack[i])
      BY <2>5, LevelsUpTo DEF Starts
    <3>2. Top.kind = "fn" /\ Def[Top.fn].retry > 0 /\ Top.phase = "body"
      BY <2>3, <3>1 DEF Retrying
    <3>3. CodeOK(Top)
      BY <3>1, <3>2, CodeIs
    <3>4. Code(Top)[1] = I("savepoint", Attempt) /\ Len(Code(Top)) \in Nat /\ Len(Code(Top)) >= 1
      <4>1. Code(Top) \in Seq(Instr)
        BY <3>3 DEF CodeOK
      <4>2. Len(Code(Top)) \in Nat
        BY <4>1
      <4> QED BY <3>2, <3>3, <4>2 DEF CodeOK
    <3>5. Attempt \in SaveNames /\ name # Attempt
      BY <3>1, SpNames
    <3>6. UNCHANGED vars \/ txs'[Len(txs)] = WithSave(Attempt)
      BY <3>1, <3>2, <3>4, <3>5, SaveFirst
    <3>7. CASE UNCHANGED vars
      BY <2>5, <3>7 DEF vars, Starts
    <3>8. CASE txs'[Len(txs)] = WithSave(Attempt)
      <4>1. Tx = txs[l] /\ txs'[l] = WithSave(Attempt)
        BY <2>3, <3>1, <3>8 DEF Tx
      <4>2. HasSave(Tx, name, stack[i].work)
        BY <4>1 DEF Held
      <4>3. Later(WithSave(Attempt), name)
        BY <3>5, <4>2, SavesSet
      <4> QED BY <4>1, <4>3
    <3> QED BY <3>6, <3>7, <3>8
  <2> QED BY <1>2, <2>4, <2>5
<1> QED BY <1>1, <1>4, <1>5

\* A transaction block sets its savepoint first.
LEMMA HoldBegins ==
  ASSUME TypeOK, [Next]_vars, NEW i \in 1..Len(stack), i <= Len(stack'), Holding(stack[i]),
         stack[i].pc = 1, Begins(stack, mode, txs[stack[i].level], committed, i),
         NEW l, l = stack[i].level
  PROVE  IF stack'[i].pc = 1 THEN Begins(stack', mode', txs'[l], committed', i)
         ELSE Held(stack', mode', txs'[l], committed', i)
<1> DEFINE n == Len(stack)
           name == SpName(stack[i])
<1>1. /\ i = n /\ mode = "run" /\ Top = stack[n] /\ FrameOK(Top) /\ stack # <<>> /\ Top.level = Len(txs)
      /\ n \in Nat /\ Top.kind = "tx" /\ Top.phase = "body" /\ Top.pc = 1 /\ l = Len(txs)
  BY LevelsUpTo DEF Begins, Holding, PlainTx
<1>2. ArmCode(Top) /\ name \in SaveNames
  BY <1>1, TransactionCode, SpNames
<1>3. Code(Top)[1] = I("savepoint", name) /\ Len(Code(Top)) \in Nat /\ Len(Code(Top)) >= 1
  <2>1. Len(Code(Top)) \in Nat
    BY <1>2 DEF ArmCode
  <2> QED BY <1>1, <1>2, <2>1 DEF ArmCode, SpName
<1>4. CASE UNCHANGED vars
  BY <1>4 DEF vars, Begins
<1>5. CASE /\ Went /\ Len(stack') = n /\ committed' = committed
           /\ txs'[Len(txs)] = WithSave(name)
  <2>1. stack'[n].pc = 1 + 1 /\ Code(stack'[n]) = Code(Top)
    BY <1>1, <1>5, WentPlaces
  <2>2. Stays(stack[i], stack'[i]) /\ SpName(stack'[i]) = name
    BY TxPhase DEF Stays, SamePlace, SpName
  <2>3. Quiet(stack'[i], committed')
    BY <1>5, <2>2 DEF Begins, Quiet, Stays, SamePlace
  <2>4. HasSave(txs'[l], name, stack'[i].work)
    <3>1. HasSave(WithSave(name), name, Tx.work)
      BY <1>2, SavesSet
    <3>2. Tx.work = stack[i].work
      BY <1>1 DEF Begins, Tx
    <3> QED BY <1>1, <1>5, <2>2, <3>1, <3>2 DEF Stays
  <2>5. NoCommit(stack', i)
    <3>1. ~PastCommit(stack'[n])
      <4>1. stack'[n].pc - 1 = 1
        BY <2>1
      <4>2. Code(Top)[1] \notin Commits
        BY <1>3, OpsOf DEF I
      <4> QED BY <2>1, <4>1, <4>2 DEF PastCommit
    <3>2. \A k \in i..n : k = n
      BY <1>1
    <3> QED BY <1>5, <3>1, <3>2 DEF NoCommit
  <2>6. Retries(stack', mode', txs'[l], i)
    <3>1. \A k \in (i + 1)..n : FALSE
      BY <1>1
    <3> QED BY <1>5, <3>1 DEF Retries
  <2>7. stack'[i].pc # 1
    BY <1>1, <2>1
  <2> QED BY <2>2, <2>3, <2>4, <2>5, <2>6, <2>7 DEF Held
<1> QED BY <1>1, <1>2, <1>3, <1>4, <1>5, SaveFirst

\* A transaction block that has been entered.
LEMMA HoldEntered ==
  ASSUME TypeOK, Enters, [Next]_vars, NEW i, i = Len(stack) + 1, stack'[i].kind = "tx"
  PROVE  HoldIs(stack', mode', txs', committed', i) /\ stack'[i].phase = "body"
<1> DEFINE c == stack'[i]
<1>1. Went /\ Pushed /\ Fresh(c) /\ mode' = "run" /\ Len(stack') = i /\ Len(stack) \in Nat
  BY EnteredNow DEF TypeOK, Shape
<1>2. At("transaction") /\ c = Frame("tx", Top.fn, Arg, Top.depth + 1)
  <2>1. ASSUME Arg \in Fns PROVE Called(Arg).kind = "fn"
    BY <2>1, CalledIs
  <2> QED BY <1>1, <2>1 DEF Pushed, Frame
<1>3. Statement
  BY <1>1 DEF Went, Enters, Next, Handler, AfterBody, FallOut, Returning, AtEnd, TransactionHandler,
      RetryHandler, FinallyHandler, Reraise, AutonomousHandler, Unwind, Raising, Finished, vars
<1>4. Transaction
  BY <1>2, <1>3, AtOnly
<1>5. UNCHANGED <<txs, committed>>
  BY <1>4 DEF Transaction
<1>6. c.work = Tx.work /\ c.committed = committed /\ c.level = Len(txs)
  BY <1>2 DEF Frame
<1>7. Quiet(c, committed')
  <2>1. \A x \in (Len(committed) + 1)..Len(committed) : FALSE
    <3>1. Len(committed) \in Nat
      BY DEF TypeOK, SessionOK
    <3> QED BY <3>1
  <2> QED BY <1>5, <1>6, <2>1 DEF Quiet
<1>8. Regioned(stack', i)
  <2>1. \A k \in (i + 1)..i : FALSE
    BY <1>1
  <2> QED BY <1>1, <2>1 DEF Regioned
<1>9. Begins(stack', mode', txs'[c.level], committed', i)
  BY <1>1, <1>5, <1>6, <1>7 DEF Begins, Tx
<1> QED BY <1>1, <1>8, <1>9 DEF HoldIs, Fresh

\* The pc of a transaction block does not go back.
LEMMA PcGoesOn ==
  ASSUME TypeOK, [Next]_vars, NEW i \in 1..Len(stack), i <= Len(stack'), stack[i].kind = "tx",
         stack[i].pc # 1
  PROVE  stack'[i].pc # 1
<1>1. stack[i].pc \in Nat \ {0}
  BY LevelsUpTo, FieldsOf
<1>2. stack'[i].pc = stack[i].pc \/ stack'[i].pc = stack[i].pc + 1
  BY ArmMoves DEF SamePoint
<1> QED BY <1>1, <1>2

LEMMA HoldNext ==
  ASSUME TypeOK, ArmsInv(stack), [Next]_vars, NEW i \in 1..Len(stack), i <= Len(stack'),
         HoldIs(stack, mode, txs, committed, i)
  PROVE  HoldIs(stack', mode', txs', committed', i)
<1> DEFINE l == stack[i].level
<1> SUFFICES ASSUME Holding(stack'[i]) PROVE HoldIs(stack', mode', txs', committed', i)
  BY DEF HoldIs
<1>1. Stays(stack[i], stack'[i]) /\ FrameOK(stack[i])
  BY TxPhase, LevelsUpTo
<1>2. Holding(stack[i]) /\ PlainTx(stack[i]) /\ stack[i].kind = "tx" /\ stack'[i].level = l
      /\ SpName(stack'[i]) = SpName(stack[i]) /\ stack'[i].work = stack[i].work
  BY <1>1 DEF Holding, PlainTx, Stays, SamePlace, SpName
<1>3. Regioned(stack, i) /\ Regioned(stack', i)
  BY <1>2, RegionedNext DEF HoldIs
<1>4. CASE stack[i].pc = 1
  <2>1. Begins(stack, mode, txs[l], committed, i)
    BY <1>2, <1>4 DEF HoldIs
  <2> QED BY <1>2, <1>3, <1>4, <2>1, HoldBegins DEF HoldIs
<1>5. CASE stack[i].pc # 1
  <2>1. stack'[i].pc # 1
    BY <1>2, <1>5, PcGoesOn
  <2>2. CASE Committing(stack, mode, i)
    <3>1. Committing(stack', mode', i)
      BY <1>2, <2>2, CommittingNext
    <3> QED BY <1>3, <2>1, <3>1 DEF HoldIs
  <2>3. CASE Commit /\ l = Len(txs)
    <3>1. Committing(stack', mode', i)
      BY <1>2, <1>3, <2>3, CommittingStarts
    <3> QED BY <1>3, <2>1, <3>1 DEF HoldIs
  <2>4. CASE Held(stack, mode, txs[l], committed, i) /\ ~(Commit /\ l = Len(txs))
    <3>1. Quiet(stack'[i], committed')
      BY <2>4, QuietMoves DEF Held
    <3>2. HasSave(txs'[l], SpName(stack[i]), stack[i].work)
      BY <1>2, <1>3, <1>5, <2>4, SavesMove
    <3>3. NoCommit(stack', i)
      BY <1>2, <2>4, NoCommitNext DEF Held
    <3>4. Retries(stack', mode', txs'[l], i)
      BY <1>2, <1>3, <1>5, <2>4, RetriesNext
    <3>5. Held(stack', mode', txs'[l], committed', i)
      BY <1>2, <3>1, <3>2, <3>3, <3>4 DEF Held
    <3> QED BY <1>2, <1>3, <2>1, <3>5 DEF HoldIs
  <2> QED BY <1>2, <1>5, <2>2, <2>3, <2>4 DEF HoldIs
<1> QED BY <1>4, <1>5

\* The handler restores the work the block found.
LEMMA UndoneNow ==
  ASSUME TypeOK, TransactionHandler, [Next]_vars, NEW i \in 1..Len(stack), i = Len(stack),
         PlainTx(stack[i]), HoldIs(stack, mode, txs, committed, i)
  PROVE  UndoneIs(stack', mode', err', txs', committed', i)
<1>1. /\ TopOnly /\ mode = "raise" /\ mode' = "raise" /\ Top.phase = "body"
      /\ stack'[Len(stack)].phase = "raised" /\ Len(stack') = Len(stack) /\ Kept(Top, stack'[Len(stack)])
  BY TransactionHandlerStep DEF TopOnly
<1>2. Top = stack[i] /\ stack # <<>> /\ Top.level = Len(txs) /\ FrameOK(Top) /\ i <= Len(stack')
  BY <1>1, LevelsUpTo
<1>3. stack'[i].cause = err
  <2>1. stack' = [stack EXCEPT ![Len(stack)] = Raised]
    BY DEF TransactionHandler, SetTop
  <2>2. stack'[i] = Raised
    <3> HIDE DEF Raised
    <3> QED BY <2>1 DEF TypeOK, Shape
  <2> QED BY <1>2, <2>2, RaisedIs
<1>4. committed' = committed /\ stack'[i].flag = stack[i].flag /\ stack'[i].work = stack[i].work
      /\ stack'[i].committed = stack[i].committed /\ stack'[i].level = stack[i].level
  BY <1>1, <1>2 DEF TransactionHandler, Kept, Like
<1>5. CASE stack[i].flag
  <2>1. err' = err
    BY <1>2, <1>5 DEF TransactionHandler
  <2> QED BY <1>1, <1>3, <1>4, <1>5, <2>1 DEF UndoneIs
<1>6. CASE ~stack[i].flag
  <2>1. Holding(stack[i])
    BY <1>1, <1>2, <1>6 DEF Holding
  <2>2. Held(stack, mode, txs[stack[i].level], committed, i)
    BY <1>1, <2>1 DEF HoldIs, Begins, Committing
  <2> DEFINE name == SpName(Top)
             t == RolledBack(name)
  <2>3. HasSave(Tx, name, Top.work) /\ Quiet(Top, committed)
    BY <1>2, <2>2 DEF Held, Tx
  <2>4. Saved(name) # {} /\ t.work = Top.work
    BY <2>3, SavesUndone
  <2>5. SetTx(t) /\ err' = err
    BY <1>2, <1>6, <2>4 DEF TransactionHandler, SpName
  <2> HIDE DEF t
  <2>6. txs'[Len(txs)] = t
    <3>1. txs \in Seq(TxT) /\ Len(txs) \in 1..Len(txs)
      BY TopIs DEF TypeOK, TxsOK
    <3> QED BY <2>5, <3>1 DEF SetTx
  <2>7. Quiet(stack'[i], committed')
    BY <1>2, <1>4, <2>3 DEF Quiet
  <2> QED BY <1>1, <1>2, <1>3, <1>4, <2>4, <2>5, <2>6, <2>7 DEF UndoneIs
<1> QED BY <1>5, <1>6

LEMMA UndoneNext ==
  ASSUME TypeOK, [Next]_vars, NEW i \in 1..Len(stack), i <= Len(stack'),
         HoldIs(stack, mode, txs, committed, i), UndoneIs(stack, mode, err, txs, committed, i)
  PROVE  UndoneIs(stack', mode', err', txs', committed', i)
<1> SUFFICES ASSUME PlainTx(stack'[i]), stack'[i].phase = "raised"
             PROVE  UndoneIs(stack', mode', err', txs', committed', i)
  BY DEF UndoneIs
<1>1. /\ Stays(stack[i], stack'[i]) /\ PlainTx(stack[i])
      /\ Catches(i) \/ (stack'[i].phase = stack[i].phase /\ stack'[i].cause = stack[i].cause)
  <2>1. Stays(stack[i], stack'[i])
    BY TxPhase
  <2>2. PlainTx(stack[i])
    BY <2>1 DEF PlainTx, Stays, SamePlace
  <2> QED BY <2>1, <2>2, TxPhase DEF PlainTx
<1>2. CASE Catches(i)
  BY <1>1, <1>2, UndoneNow DEF Catches
<1>3. CASE stack[i].phase = "raised"
  <2>1. i = Len(stack) /\ mode = "raise" /\ Top = stack[i] /\ Len(stack) \in Nat /\ stack # <<>>
    BY <1>1, <1>3, LevelsUpTo DEF UndoneIs
  <2>2. Top.kind = "tx" /\ Top.phase = "raised"
    BY <1>1, <1>3, <2>1 DEF PlainTx
  <2>3. ~(FallOut \/ Returning \/ Unwind)
    <3> SUFFICES ASSUME FallOut \/ Returning \/ Unwind PROVE FALSE
      OBVIOUS
    <3>1. Len(stack') = Len(stack) - 1
      BY LeavesStep, LeavesPlaces
    <3> QED BY <2>1, <3>1
  <2>4. ~Statement
    BY <2>1, StatementStep DEF Went, Turns
  <2>5. UNCHANGED vars
    BY <2>1, <2>2, <2>3, <2>4
       DEF Next, Handler, AfterBody, AtEnd, TransactionHandler, RetryHandler, FinallyHandler,
           Reraise, AutonomousHandler, Raising, Finished
  <2> QED BY <2>5 DEF vars, UndoneIs
<1> QED BY <1>1, <1>2, <1>3

LEMMA HoldInit == Init => HoldInv(stack, mode, err, txs, committed)
<1> SUFFICES ASSUME Init PROVE HoldInv(stack, mode, err, txs, committed)
  OBVIOUS
<1>1. \A i \in 1..Len(stack) : stack[i].kind = "fn"
  <2>1. Len(stack) = 1 /\ stack[1].kind = "fn"
    BY DEF Init
  <2> QED BY <2>1
<1> QED BY <1>1 DEF HoldInv, HoldIs, UndoneIs, Holding, PlainTx

LEMMA HoldInvNext ==
  TypeOK /\ ArmsInv(stack) /\ HoldInv(stack, mode, err, txs, committed) /\ [Next]_vars
    => HoldInv(stack', mode', err', txs', committed')
<1> SUFFICES ASSUME TypeOK, ArmsInv(stack), HoldInv(stack, mode, err, txs, committed), [Next]_vars,
                    NEW i \in 1..Len(stack')
             PROVE  /\ HoldIs(stack', mode', txs', committed', i)
                    /\ UndoneIs(stack', mode', err', txs', committed', i)
  BY DEF HoldInv
<1>1. /\ Len(stack) \in Nat /\ Len(stack') \in Nat /\ Len(stack') <= Len(stack) + 1
      /\ Len(stack') = Len(stack) + 1 => Enters
  BY PlacesKept
<1>2. CASE i <= Len(stack)
  <2>1. i \in 1..Len(stack) /\ i <= Len(stack')
    BY <1>1, <1>2
  <2>2. HoldIs(stack, mode, txs, committed, i) /\ UndoneIs(stack, mode, err, txs, committed, i)
    BY <2>1 DEF HoldInv
  <2> QED BY <2>1, <2>2, HoldNext, UndoneNext
<1>3. CASE i > Len(stack)
  <2>1. i = Len(stack) + 1 /\ Enters
    BY <1>1, <1>3
  <2>2. CASE stack'[i].kind = "tx"
    BY <2>1, <2>2, HoldEntered DEF UndoneIs
  <2>3. CASE stack'[i].kind # "tx"
    BY <2>3 DEF HoldIs, UndoneIs, Holding, PlainTx
  <2> QED BY <2>2, <2>3
<1> QED BY <1>1, <1>2, <1>3

----------------------------------------------------------------------------
(* Transaction blocks are atomic.                                           *)

AtomicAll ==
  /\ TypeOK /\ CleanupInv(stack) /\ ArmsInv(stack) /\ EndInv(stack) /\ RowsInv(stack, mode, txs)
  /\ HoldInv(stack, mode, err, txs, committed)
  /\ TransactionIsAtomic

LEMMA AtomicSame == TransactionIsAtomic /\ left' = left => TransactionIsAtomic'
BY DEF TransactionIsAtomic, CommittedInside

\* What is recorded of a block that is left.
LEMMA LeftIs ==
  ASSUME NEW how, LeaveWith(how)
  PROVE  /\ left'.kind = Top.kind /\ left'.fn = Top.fn /\ left'.blk = Top.blk /\ left'.how = how
         /\ left'.level = Top.level /\ left'.err = err /\ left'.cause = Top.cause
         /\ left'.flag = Top.flag /\ left'.work = Top.work /\ left'.committed = Top.committed
         /\ left'.remains = Tx.work /\ left'.durable = committed
BY DEF LeaveWith

\* An error leaves it: its handler has been there.
LEMMA AtomicRaise ==
  ASSUME AtomicAll, Leaves("raise"), Top.kind = "tx", Top.blk \in Plain
  PROVE  /\ err = Top.cause
         /\ ~Top.flag => Tx.work = Top.work /\ Quiet(Top, committed)
<1>1. /\ stack # <<>> /\ Len(stack) \in 1..Len(stack) /\ Top = stack[Len(stack)] /\ FrameOK(Top)
      /\ Top.level = Len(txs)
  BY TopIs DEF AtomicAll, Leaves, Top
<1>2. Top.phase = "raised"
  BY <1>1, FieldsOf DEF Leaves, FrameOK, Phases
<1>3. UndoneIs(stack, mode, err, txs, committed, Len(stack))
  BY <1>1 DEF AtomicAll, HoldInv
<1> QED BY <1>1, <1>2, <1>3 DEF UndoneIs, PlainTx, Tx

\* It ends by itself: it has committed.
LEMMA AtomicEnd ==
  ASSUME AtomicAll, Leaves("end"), Top.kind = "tx"
  PROVE  ToSet(Tx.work) \subseteq FinallyRows(Top.fn)
<1> DEFINE n == Len(stack)
           e == Code(Top)
<1>1. /\ stack # <<>> /\ n \in 1..n /\ Top = stack[n] /\ FrameOK(Top) /\ Top.level = Len(txs)
      /\ Top.pc \in Nat /\ n \in Nat
  BY TopIs, FieldsOf DEF AtomicAll, Leaves, Top, TypeOK, Shape
<1>2. ArmCode(Top)
  BY <1>1, TransactionCode
<1>3. e \in Seq(Instr) /\ Len(e) \in Nat /\ Len(e) >= 1
  <2>1. e \in Seq(Instr)
    BY <1>2 DEF ArmCode
  <2>2. Len(e) \in Nat
    BY <2>1
  <2> QED BY <1>2, <2>1, <2>2 DEF ArmCode
<1>4. Top.pc <= Len(e) + 1 /\ (Top.pc > 1 => e[Top.pc - 1].op \notin {"return", "err"})
  BY <1>1 DEF AtomicAll, EndInv, EndIs
<1>5. Top.pc > 1 /\ Top.pc - 1 = Len(e)
  <2>1. Top.pc > Len(e)
    BY DEF Leaves
  <2> QED BY <1>1, <1>3, <1>4, <2>1
<1>6. e[Len(e)] = I("flag", Top.depth)
  BY <1>2, <1>4, <1>5 DEF ArmCode
<1>7. Top.depth \in Nat
  BY <1>1, FieldsOf
<1>8. Past(Top)
  BY <1>5, <1>6, <1>7 DEF Past, Commits
<1>9. n \in n..n /\ \A j \in (n + 1)..n : FALSE
  BY <1>1
<1>10. RowsAre(stack, mode, txs, n) /\ Arm(stack, n, n)
  BY <1>1, <1>9 DEF AtomicAll, RowsInv, Arm
<1>11. Cleared(stack, txs, n)
  BY <1>1, <1>8, <1>9, <1>10 DEF RowsAre
<1> QED BY <1>1, <1>11 DEF Cleared, Tx

\* A return leaves it: the return has committed first.
LEMMA AtomicReturn ==
  ASSUME AtomicAll, Leaves("return"), Top.kind = "tx", Top.blk \in Plain
  PROVE  ToSet(Tx.work) \subseteq FinallyRows(Top.fn)
<1> DEFINE n == Len(stack)
<1>1. /\ stack # <<>> /\ n \in 1..n /\ Top = stack[n] /\ Top.level = Len(txs) /\ n \in Nat
      /\ mode = "return"
  BY TopIs DEF AtomicAll, Leaves, Top, TypeOK, Shape
<1>2. \A j \in (n + 1)..n : FALSE
  BY <1>1
<1>3. RowsAre(stack, mode, txs, n) /\ Arm(stack, n, n)
  BY <1>1, <1>2 DEF AtomicAll, RowsInv, Arm
<1>4. Cleared(stack, txs, n)
  BY <1>1, <1>3 DEF RowsAre
<1> QED BY <1>1, <1>4 DEF Cleared, Tx

LEMMA AtomicLeaves ==
  ASSUME AtomicAll, NEW how \in Hows, Leaves(how)
  PROVE  TransactionIsAtomic'
<1>1. LeaveWith(how)
  BY DEF Leaves
<1>2. /\ left'.kind = Top.kind /\ left'.fn = Top.fn /\ left'.blk = Top.blk /\ left'.how = how
      /\ left'.level = Top.level /\ left'.err = err /\ left'.cause = Top.cause
      /\ left'.flag = Top.flag /\ left'.work = Top.work /\ left'.committed = Top.committed
      /\ left'.remains = Tx.work /\ left'.durable = committed
  BY <1>1, LeftIs
<1> SUFFICES ASSUME Top.kind = "tx", Top.blk \in Plain
             PROVE  IF how = "raise"
                    THEN /\ err = Top.cause
                         /\ ~Top.flag => Tx.work = Top.work /\ CommittedInside' = {}
                    ELSE ToSet(Tx.work) \subseteq FinallyRows(Top.fn)
  BY <1>2 DEF TransactionIsAtomic
<1>3. CASE how = "raise"
  <2>1. err = Top.cause /\ (~Top.flag => Tx.work = Top.work /\ Quiet(Top, committed))
    BY <1>3, AtomicRaise
  <2>2. Quiet(Top, committed) => CommittedInside' = {}
    BY <1>2 DEF Quiet, CommittedInside
  <2> QED BY <1>3, <2>1, <2>2
<1>4. CASE how = "end"
  BY <1>4, AtomicEnd
<1>5. CASE how = "return"
  BY <1>5, AtomicReturn
<1> QED BY <1>3, <1>4, <1>5 DEF Hows

LEMMA AtomicInit == Init => AtomicAll
<1> SUFFICES ASSUME Init PROVE AtomicAll
  OBVIOUS
<1>1. TransactionIsAtomic
  BY DEF Init, NotLeft, TransactionIsAtomic
<1> QED BY <1>1, TypeInit, CleanupInit, ArmsInit, EndInit, RowsInit, HoldInit DEF AtomicAll

LEMMA AtomicNext == AtomicAll /\ [Next]_vars => AtomicAll'
<1> SUFFICES ASSUME AtomicAll, [Next]_vars PROVE AtomicAll'
  OBVIOUS
<1>1. /\ TypeOK /\ CleanupInv(stack) /\ ArmsInv(stack) /\ EndInv(stack) /\ RowsInv(stack, mode, txs)
      /\ HoldInv(stack, mode, err, txs, committed) /\ TransactionIsAtomic
  BY DEF AtomicAll
<1>2. TypeOK'
  BY <1>1, TypeStep
<1>3. CleanupInv(stack')
  BY <1>1, CleanupNext
<1>4. ArmsInv(stack') /\ EndInv(stack')
  BY <1>1, ArmsNext, EndNext
<1>5. RowsInv(stack', mode', txs')
  BY <1>1, RowsNext
<1>6. HoldInv(stack', mode', err', txs', committed')
  BY <1>1, HoldInvNext
<1>7. TransactionIsAtomic'
  <2>1. CASE FallOut \/ Returning \/ Unwind
    BY <1>1, <2>1, AtomicLeaves, LeavesStep
  <2>2. CASE ~(FallOut \/ Returning \/ Unwind)
    <3>1. left' = left
      BY <2>2 DEF Next, Statement, Handler, Finished, vars, Dml, DmlFails, Savepoint, Commit, Flag, If,
         Transaction, Call, Finally, Return, RaiseErr, AfterBody, TransactionHandler, RetryHandler,
         FinallyHandler, Reraise, AutonomousHandler
    <3> QED BY <1>1, <3>1, AtomicSame
  <2> QED BY <2>1, <2>2
<1> QED BY <1>2, <1>3, <1>4, <1>5, <1>6, <1>7 DEF AtomicAll

\* A transaction block whose statements leave transactions alone is all or nothing, however it
\* is left: after an error its work is undone and none of it committed, unless a return had
\* committed it; otherwise nothing of it is left uncommitted.
THEOREM TransactionIsAtomicHolds == Spec => []TransactionIsAtomic
<1>1. Init => AtomicAll
  BY AtomicInit
<1>2. AtomicAll /\ [Next]_vars => AtomicAll'
  BY AtomicNext
<1>3. AtomicAll => TransactionIsAtomic
  BY DEF AtomicAll
<1> QED BY <1>1, <1>2, <1>3, PTL DEF Spec
====
