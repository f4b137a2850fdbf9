------------------------- MODULE CommandLineProofs --------------------------
(***************************************************************************)
(* What msb reads out of a command line is what the request asked, for       *)
(* requests, texts and lists of any length.                                  *)
(***************************************************************************)
EXTENDS CommandLine, SequenceTheorems, FiniteSetTheorems, WellFoundedInduction, TLAPS

-----------------------------------------------------------------------------
(* Induction, and folds of any length.                                       *)

\* What holds of 0, and of n + 1 when it holds of n, holds of every number.
LEMMA Induct ==
  ASSUME NEW T, 0 \in T, \A n \in Nat : n \in T => n + 1 \in T
  PROVE  \A n \in Nat : n \in T
<1> DEFINE R == OpToRel(<, Nat)
           U == {n \in Nat : n \notin T}
<1>1. IsWellFoundedOn(R, Nat)
  BY NatLessThanWellFounded
<1>2. \A m, n \in Nat : m < n => <<m, n>> \in R
  BY DEF OpToRel
<1> HIDE DEF R
<1>3. SUFFICES ASSUME U # {} PROVE FALSE
  OBVIOUS
<1>4. U \subseteq Nat
  OBVIOUS
<1>5. PICK m \in U : \A n \in U : <<n, m>> \notin R
  BY <1>1, <1>3, <1>4, WFMin
<1>6. m \in Nat /\ m \notin T
  OBVIOUS
<1>7. m # 0
  BY <1>6
<1>8. m - 1 \in Nat /\ m - 1 < m
  BY <1>6, <1>7
<1>9. m - 1 \in T
  BY <1>2, <1>5, <1>6, <1>8
<1>10. (m - 1) + 1 \in T
  BY <1>8, <1>9
<1> QED BY <1>6, <1>8, <1>10

\* The two readers: msb's of arguments, sh's of tokens.
Step(who, r, x) == IF who = "msb" THEN ReadArg(r, x) ELSE ShToken(r, x)
Read(who, r, s) == IF who = "msb" THEN FoldLeft(ReadArg, r, s) ELSE FoldLeft(ShToken, r, s)

Recursion(who, r, s, n, g) ==
  g = [t \in SUBSET (1 .. n) |-> IF t = {} THEN r ELSE Step(who, g[t \ {Max(t)}], s[Max(t)])]

LEMMA ReadIs ==
  ASSUME NEW who, NEW r, NEW s, NEW n, DOMAIN s = 1 .. n
  PROVE  Read(who, r, s) = (CHOOSE g : Recursion(who, r, s, n, g))[1 .. n]
<1>1. CASE who = "msb"
  BY <1>1 DEF Read, Step, FoldLeft, MapThenFoldSet, Recursion
<1>2. CASE who # "msb"
  BY <1>2 DEF Read, Step, FoldLeft, MapThenFoldSet, Recursion
<1> QED BY <1>1, <1>2

LEMMA MaxUpTo == ASSUME NEW n \in Nat, NEW t, t \subseteq 1 .. n + 1, n + 1 \in t PROVE Max(t) = n + 1
<1>1. \A y \in t : n + 1 >= y
  OBVIOUS
<1>2. \A x \in t : (\A y \in t : x >= y) => x = n + 1
  OBVIOUS
<1> QED BY <1>1, <1>2 DEF Max

LEMMA MaxBelow ==
  ASSUME NEW n \in Nat, NEW t, t \subseteq 1 .. n, t # {}
  PROVE  Max(t) \in t
<1> DEFINE T == {k \in Nat : \A u : u \subseteq 1 .. k /\ u # {} => Max(u) \in u}
<1>1. 0 \in T
  OBVIOUS
<1>2. ASSUME NEW k \in Nat, k \in T PROVE k + 1 \in T
  <2> SUFFICES ASSUME NEW u, u \subseteq 1 .. k + 1, u # {} PROVE Max(u) \in u
    OBVIOUS
  <2>1. CASE k + 1 \in u
    BY <2>1, MaxUpTo
  <2>2. CASE k + 1 \notin u
    <3>1. u \subseteq 1 .. k
      BY <2>2
    <3> QED BY <1>2, <3>1
  <2> QED BY <2>1, <2>2
<1> HIDE DEF T
<1>3. n \in T
  BY <1>1, <1>2, Induct
<1> QED BY <1>3 DEF T

\* A fold's recursion has a solution.
LEMMA RecursionExists ==
  ASSUME NEW who, NEW r, NEW s, NEW n \in Nat
  PROVE  \E g : Recursion(who, r, s, n, g)
<1> DEFINE T == {k \in Nat : \E g : Recursion(who, r, s, k, g)}
<1>1. 0 \in T
  <2> DEFINE g == [t \in SUBSET (1 .. 0) |-> r]
  <2>1. \A t \in SUBSET (1 .. 0) : t = {}
    OBVIOUS
  <2>2. Recursion(who, r, s, 0, g)
    BY <2>1 DEF Recursion
  <2> QED BY <2>2
<1>2. ASSUME NEW k \in Nat, k \in T PROVE k + 1 \in T
  <2>1. PICK g : Recursion(who, r, s, k, g)
    BY <1>2
  <2> DEFINE h == [t \in SUBSET (1 .. k + 1) |->
                     IF k + 1 \in t THEN Step(who, g[t \ {k + 1}], s[k + 1]) ELSE g[t]]
             val(t) == IF t = {} THEN r ELSE Step(who, h[t \ {Max(t)}], s[Max(t)])
  <2>2. ASSUME NEW t \in SUBSET (1 .. k + 1), k + 1 \in t PROVE h[t] = val(t)
    <3>1. Max(t) = k + 1
      BY <2>2, MaxUpTo
    <3>2. t \ {k + 1} \in SUBSET (1 .. k)
      OBVIOUS
    <3>3. h[t \ {k + 1}] = g[t \ {k + 1}]
      BY <3>2
    <3>4. h[t] = Step(who, g[t \ {k + 1}], s[k + 1])
      BY <2>2
    <3> HIDE DEF h
    <3> QED BY <2>2, <3>1, <3>3, <3>4
  <2>3. ASSUME NEW t \in SUBSET (1 .. k + 1), k + 1 \notin t PROVE h[t] = val(t)
    <3>1. t \in SUBSET (1 .. k)
      BY <2>3
    <3>2. h[t] = g[t]
      BY <2>3
    <3>3. g[t] = IF t = {} THEN r ELSE Step(who, g[t \ {Max(t)}], s[Max(t)])
      BY <2>1, <3>1 DEF Recursion
    <3>4. h[t \ {Max(t)}] = g[t \ {Max(t)}]
      BY <2>3
    <3> HIDE DEF h
    <3> QED BY <3>2, <3>3, <3>4
  <2>4. h = [t \in SUBSET (1 .. k + 1) |-> h[t]]
    OBVIOUS
  <2>5. \A t \in SUBSET (1 .. k + 1) : h[t] = val(t)
    BY <2>2, <2>3
  <2> HIDE DEF h
  <2>6. Recursion(who, r, s, k + 1, h)
    BY <2>4, <2>5 DEF Recursion
  <2> QED BY <2>6
<1> HIDE DEF T
<1>3. n \in T
  BY <1>1, <1>2, Induct
<1> QED BY <1>3 DEF T

\* A reading is what a trace of single steps ends in.
Trace(who, r, s, n, p) == p[0] = r /\ \A i \in 1 .. n : p[i] = Step(who, p[i - 1], s[i])

LEMMA Traced ==
  ASSUME NEW who, NEW r, NEW s, NEW n \in Nat, DOMAIN s = 1 .. n
  PROVE  \E p : Trace(who, r, s, n, p) /\ Read(who, r, s) = p[n]
<1> DEFINE g == CHOOSE g : Recursion(who, r, s, n, g)
           p == [i \in 0 .. n |-> g[1 .. i]]
<1>1. Recursion(who, r, s, n, g)
  BY RecursionExists
<1>2. Read(who, r, s) = g[1 .. n]
  BY ReadIs
<1> HIDE DEF g
<1>3. p[0] = r
  <2>1. p[0] = g[{}]
    OBVIOUS
  <2>2. {} \in SUBSET (1 .. n)
    OBVIOUS
  <2> QED BY <1>1, <2>1, <2>2 DEF Recursion
<1>4. ASSUME NEW i \in 1 .. n PROVE p[i] = Step(who, p[i - 1], s[i])
  <2>1. i - 1 \in Nat /\ i = (i - 1) + 1 /\ i - 1 \in 0 .. n /\ i \in 0 .. n
    OBVIOUS
  <2>2. Max(1 .. i) = i
    <3>1. 1 .. i \subseteq 1 .. (i - 1) + 1 /\ (i - 1) + 1 \in 1 .. i
      OBVIOUS
    <3>2. Max(1 .. i) = (i - 1) + 1
      BY <2>1, <3>1, MaxUpTo
    <3> QED BY <2>1, <3>2
  <2>3. (1 .. i) \ {i} = 1 .. i - 1
    OBVIOUS
  <2>4. 1 .. i \in SUBSET (1 .. n) /\ 1 .. i # {}
    OBVIOUS
  <2>5. g[1 .. i] = Step(who, g[1 .. i - 1], s[i])
    BY <1>1, <2>2, <2>3, <2>4 DEF Recursion
  <2>6. p[i] = g[1 .. i] /\ p[i - 1] = g[1 .. i - 1]
    BY <2>1
  <2> QED BY <2>5, <2>6
<1>5. p[n] = g[1 .. n]
  OBVIOUS
<1> HIDE DEF p
<1>6. Trace(who, r, s, n, p)
  BY <1>3, <1>4 DEF Trace
<1> QED BY <1>2, <1>5, <1>6

LEMMA TraceEnds ==
  ASSUME NEW who, NEW r, NEW s, NEW n \in Nat, DOMAIN s = 1 .. n,
         NEW p, Trace(who, r, s, n, p)
  PROVE  Read(who, r, s) = p[n]
<1>1. PICK q : Trace(who, r, s, n, q) /\ Read(who, r, s) = q[n]
  BY Traced
<1> DEFINE T == {i \in Nat : i <= n => p[i] = q[i]}
<1>2. 0 \in T
  BY <1>1 DEF Trace
<1>3. ASSUME NEW i \in Nat, i \in T PROVE i + 1 \in T
  <2> SUFFICES ASSUME i + 1 <= n PROVE p[i + 1] = q[i + 1]
    OBVIOUS
  <2>1. i + 1 \in 1 .. n /\ (i + 1) - 1 = i
    OBVIOUS
  <2>2. p[i] = q[i]
    BY <1>3
  <2> QED BY <1>1, <2>1, <2>2 DEF Trace
<1> HIDE DEF T
<1>4. n \in T
  BY <1>2, <1>3, Induct
<1>5. p[n] = q[n]
  BY <1>4 DEF T
<1> QED BY <1>1, <1>5

LEMMA ReadNone == ASSUME NEW who, NEW r PROVE Read(who, r, <<>>) = r
<1> DEFINE p == [i \in {0} |-> r]
<1>1. Trace(who, r, <<>>, 0, p)
  BY DEF Trace
<1>2. DOMAIN <<>> = 1 .. 0
  OBVIOUS
<1>3. p[0] = r
  OBVIOUS
<1> HIDE DEF p
<1> QED BY <1>1, <1>2, <1>3, TraceEnds

LEMMA ReadOne == ASSUME NEW who, NEW r, NEW x PROVE Read(who, r, <<x>>) = Step(who, r, x)
<1> DEFINE p == [i \in 0 .. 1 |-> IF i = 0 THEN r ELSE Step(who, r, x)]
           s == <<x>>
<1>1. s[1] = x
  OBVIOUS
<1>2. DOMAIN s = 1 .. 1
  OBVIOUS
<1>3. p[0] = r /\ p[1] = Step(who, r, x)
  OBVIOUS
<1> HIDE DEF p, s
<1>4. Trace(who, r, s, 1, p)
  <2>1. \A i \in 1 .. 1 : i = 1 /\ i - 1 = 0
    OBVIOUS
  <2> QED BY <1>1, <1>3, <2>1 DEF Trace
<1>5. Read(who, r, s) = p[1]
  BY <1>2, <1>4, TraceEnds
<1> QED BY <1>3, <1>5 DEF s

LEMMA ReadTwo == ASSUME NEW who, NEW r, NEW x, NEW y PROVE Read(who, r, <<x, y>>) = Step(who, Step(who, r, x), y)
<1> DEFINE p == [i \in 0 .. 2 |-> IF i = 0 THEN r ELSE IF i = 1 THEN Step(who, r, x) ELSE Step(who, Step(who, r, x), y)]
           s == <<x, y>>
<1>1. s[1] = x /\ s[2] = y
  OBVIOUS
<1>2. DOMAIN s = 1 .. 2
  OBVIOUS
<1>3. p[0] = r /\ p[1] = Step(who, r, x) /\ p[2] = Step(who, p[1], y)
  OBVIOUS
<1> HIDE DEF p, s
<1>4. Trace(who, r, s, 2, p)
  <2>1. \A i \in 1 .. 2 : (i = 1 /\ i - 1 = 0) \/ (i = 2 /\ i - 1 = 1)
    OBVIOUS
  <2> QED BY <1>1, <1>3, <2>1 DEF Trace
<1>5. Read(who, r, s) = p[2]
  BY <1>2, <1>4, TraceEnds
<1> QED BY <1>3, <1>5 DEF s

LEMMA ReadCat ==
  ASSUME NEW who, NEW r, NEW S, NEW s \in Seq(S), NEW t \in Seq(S)
  PROVE  Read(who, r, s \o t) = Read(who, Read(who, r, s), t)
<1> DEFINE m == Len(s)
           n == Len(t)
           u == s \o t
<1>1. m \in Nat /\ n \in Nat /\ DOMAIN s = 1 .. m /\ DOMAIN t = 1 .. n
  OBVIOUS
<1>2. DOMAIN u = 1 .. m + n
  OBVIOUS
<1>3. \A i \in 1 .. m : u[i] = s[i]
  OBVIOUS
<1>4. \A i \in 1 .. n : u[m + i] = t[i]
  OBVIOUS
<1> HIDE DEF m, n, u
<1>5. PICK p : Trace(who, r, s, m, p) /\ Read(who, r, s) = p[m]
  BY <1>1, Traced
<1>6. PICK q : Trace(who, Read(who, r, s), t, n, q) /\ Read(who, Read(who, r, s), t) = q[n]
  BY <1>1, Traced
<1> DEFINE w == [i \in 0 .. m + n |-> IF i <= m THEN p[i] ELSE q[i - m]]
<1>7. w[0] = r
  <2>1. w[0] = p[0]
    BY <1>1
  <2> QED BY <1>5, <2>1 DEF Trace
<1>8. ASSUME NEW i \in 1 .. m + n PROVE w[i] = Step(who, w[i - 1], u[i])
  <2>1. CASE i <= m
    <3>1. w[i] = p[i] /\ w[i - 1] = p[i - 1]
      BY <1>1, <2>1
    <3>2. i \in 1 .. m
      BY <1>1, <2>1
    <3> HIDE DEF w
    <3> QED BY <1>3, <1>5, <3>1, <3>2 DEF Trace
  <2>2. CASE ~(i <= m)
    <3> DEFINE j == i - m
    <3>1. j \in 1 .. n /\ i = m + j /\ i \in 0 .. m + n /\ i - 1 \in 0 .. m + n /\ (i - 1) - m = j - 1
      BY <1>1, <2>2
    <3>2. w[i] = q[j]
      BY <2>2, <3>1
    <3>3. w[i - 1] = q[j - 1]
      <4>1. CASE j = 1
        <5>1. w[i - 1] = p[m]
          <6>1. i - 1 = m /\ m <= m /\ m \in 0 .. m + n
            BY <1>1, <3>1, <4>1
          <6> QED BY <6>1
        <5>2. q[j - 1] = Read(who, r, s)
          BY <1>6, <4>1 DEF Trace
        <5> QED BY <1>5, <5>1, <5>2
      <4>2. CASE j # 1
        <5>1. ~(i - 1 <= m)
          BY <1>1, <3>1, <4>2
        <5> QED BY <3>1, <5>1
      <4> QED BY <4>1, <4>2
    <3>4. u[i] = t[j]
      BY <1>4, <3>1
    <3> HIDE DEF w, j
    <3> QED BY <1>6, <3>1, <3>2, <3>3, <3>4 DEF Trace
  <2> QED BY <2>1, <2>2
<1>9. w[m + n] = q[n]
  <2>1. CASE n = 0
    <3>1. w[m + n] = p[m]
      BY <1>1, <2>1
    <3>2. q[n] = Read(who, r, s)
      BY <1>6, <2>1 DEF Trace
    <3> QED BY <1>5, <3>1, <3>2
  <2>2. CASE n # 0
    BY <1>1, <2>2
  <2> QED BY <2>1, <2>2
<1> HIDE DEF w
<1>10. Trace(who, r, u, m + n, w)
  BY <1>7, <1>8 DEF Trace
<1>11. Read(who, r, u) = w[m + n]
  <2>1. m + n \in Nat
    BY <1>1
  <2> QED BY <1>2, <1>10, <2>1, TraceEnds
<1> QED BY <1>6, <1>9, <1>11 DEF u

\* FlattenSeq puts its sequences one behind the other.
Then(s, t) == s \o t
JoinedUpTo(ss, n, f) == f = [i \in 1 .. n |-> IF i = 1 THEN ss[i] ELSE Then(f[i - 1], ss[i])]
Joins(ss, f) ==
  /\ f[1] = ss[1]
  /\ \A i \in 2 .. Len(ss) : f[i] = Then(f[i - 1], ss[i])

LEMMA Flattened ==
  ASSUME NEW S, NEW ss \in Seq(S), ss # <<>>
  PROVE  \E f : Joins(ss, f) /\ FlattenSeq(ss) = f[Len(ss)]
<1> DEFINE n == Len(ss)
           Sol(k, f) == JoinedUpTo(ss, k, f)
           T == {k \in Nat : \E f : Sol(k, f)}
           f == CHOOSE f : Sol(n, f)
<1>1. n \in Nat /\ n # 0
  OBVIOUS
<1>2. 0 \in T
  <2>1. Sol(0, [i \in 1 .. 0 |-> i])
    BY DEF JoinedUpTo
  <2> QED BY <2>1
<1>3. ASSUME NEW k \in Nat, k \in T PROVE k + 1 \in T
  <2>1. PICK g : Sol(k, g)
    BY <1>3
  <2> DEFINE h == [i \in 1 .. k + 1 |->
                     IF i = 1 THEN ss[i] ELSE IF i = k + 1 THEN Then(g[k], ss[i]) ELSE g[i]]
  <2>2. ASSUME NEW i \in 1 .. k + 1 PROVE h[i] = IF i = 1 THEN ss[i] ELSE Then(h[i - 1], ss[i])
    <3>1. CASE i = 1
      BY <3>1
    <3>2. CASE i # 1
      <4>1. i - 1 \in 1 .. k /\ i - 1 # k + 1
        BY <3>2
      <4>2. h[i - 1] = g[i - 1]
        <5>1. CASE i - 1 = 1
          BY <2>1, <4>1, <5>1 DEF JoinedUpTo
        <5>2. CASE i - 1 # 1
          BY <4>1, <5>2
        <5> QED BY <5>1, <5>2
      <4>3. CASE i = k + 1
        BY <3>2, <4>2, <4>3
      <4>4. CASE i # k + 1
        <5>1. i \in 1 .. k
          BY <4>4
        <5>2. h[i] = g[i]
          BY <3>2, <4>4
        <5>3. g[i] = Then(g[i - 1], ss[i])
          BY <2>1, <3>2, <5>1 DEF JoinedUpTo
        <5> HIDE DEF h
        <5> QED BY <3>2, <4>2, <5>2, <5>3
      <4> QED BY <4>3, <4>4
    <3> QED BY <3>1, <3>2
  <2>3. h = [i \in 1 .. k + 1 |-> h[i]]
    OBVIOUS
  <2> HIDE DEF h
  <2>4. Sol(k + 1, h)
    BY <2>2, <2>3 DEF JoinedUpTo
  <2> QED BY <2>4
<1> HIDE DEF T
<1>4. n \in T
  BY <1>1, <1>2, <1>3, Induct
<1>5. Sol(n, f)
  BY <1>4 DEF T
<1>6. FlattenSeq(ss) = f[n]
  BY <1>1 DEF FlattenSeq, JoinedUpTo, Then
<1> HIDE DEF f
<1>7. f[1] = ss[1]
  BY <1>1, <1>5 DEF JoinedUpTo
<1>8. \A i \in 2 .. n : f[i] = Then(f[i - 1], ss[i])
  BY <1>5 DEF JoinedUpTo
<1> QED BY <1>6, <1>7, <1>8 DEF Joins

\* A reading in stages, one for each sequence.
Stages(who, r, ss, p) ==
  p[0] = r /\ \A i \in 1 .. Len(ss) : p[i] = Read(who, p[i - 1], ss[i])

LEMMA ReadFlat ==
  ASSUME NEW who, NEW r, NEW S, NEW ss \in Seq(Seq(S)), NEW p, Stages(who, r, ss, p)
  PROVE  FlattenSeq(ss) \in Seq(S) /\ Read(who, r, FlattenSeq(ss)) = p[Len(ss)]
<1> USE DEF Stages
<1>1. CASE ss = <<>>
  <2>1. Len(ss) = 0
    BY <1>1
  <2>2. FlattenSeq(ss) = <<>>
    BY <1>1, <2>1 DEF FlattenSeq
  <2>3. <<>> \in Seq(S)
    OBVIOUS
  <2> QED BY <2>1, <2>2, <2>3, ReadNone
<1>2. CASE ss # <<>>
  <2>1. PICK f : Joins(ss, f) /\ FlattenSeq(ss) = f[Len(ss)]
    BY <1>2, Flattened
  <2> DEFINE n == Len(ss)
             Good(i) == f[i] \in Seq(S) /\ Read(who, r, f[i]) = p[i]
             T == {k \in Nat : k < n => Good(k + 1)}
  <2>2. n \in Nat /\ n # 0 /\ \A i \in 1 .. n : ss[i] \in Seq(S)
    BY <1>2
  <2>3. 0 \in T
    <3>1. 1 \in 1 .. n /\ 1 - 1 = 0
      BY <2>2
    <3> QED BY <2>1, <2>2, <3>1 DEF Joins
  <2>4. ASSUME NEW k \in Nat, k \in T PROVE k + 1 \in T
    <3> SUFFICES ASSUME k + 1 < n PROVE Good((k + 1) + 1)
      OBVIOUS
    <3> DEFINE j == (k + 1) + 1
    <3>1. j \in 2 .. n /\ j \in 1 .. n /\ j - 1 = k + 1 /\ k < n
      BY <2>2
    <3>2. f[j] = f[j - 1] \o ss[j] /\ ss[j] \in Seq(S) /\ p[j] = Read(who, p[j - 1], ss[j])
      BY <2>1, <2>2, <3>1 DEF Joins, Then
    <3>3. Good(j - 1)
      BY <2>4, <3>1
    <3> HIDE DEF j
    <3>4. f[j] \in Seq(S)
      BY <3>2, <3>3
    <3>5. Read(who, r, f[j - 1] \o ss[j]) = Read(who, Read(who, r, f[j - 1]), ss[j])
      BY <3>2, <3>3, ReadCat
    <3>6. Good(j)
      BY <3>2, <3>3, <3>4, <3>5
    <3> QED BY <3>6 DEF j
  <2> HIDE DEF T
  <2>5. n - 1 \in Nat /\ n - 1 < n /\ (n - 1) + 1 = n
    BY <2>2
  <2>6. n - 1 \in T
    BY <2>3, <2>4, <2>5, Induct
  <2>7. Good(n)
    BY <2>5, <2>6 DEF T
  <2> QED BY <2>1, <2>7
<1> QED BY <1>1, <1>2

-----------------------------------------------------------------------------
(* How msb reads the parts of a command line.                                *)

Command == {"create", "run", "exec", "logs", "snapshot-create", "volume-create"} \cup OneName
Token ==
  Char \cup LogsSource \cup Switches \cup Options \cup Command
  \cup {"--", "printf", "install-ssh-keys", "json"} \cup {ToString(n) : n \in Int}
Arg == Seq(Token)

\* No number is printed like a flag or a separator.
NumbersPrint == \A n \in Int : ToString(n) \notin Switches \cup Options \cup {"-", "--", ":"}

\* msb between two options, and after "--".
Ready(opts, pos) == [ended |-> FALSE, flag |-> NoFlag, bad |-> FALSE, opts |-> opts, pos |-> pos]
Ended(opts, pos) == [ended |-> TRUE, flag |-> NoFlag, bad |-> FALSE, opts |-> opts, pos |-> pos]

LEMMA FlagsAreShaped ==
  /\ \A f \in Options : FlagShaped(<<f>>) /\ f \notin Switches /\ f # NoFlag
  /\ \A f \in Switches : FlagShaped(<<f>>)
  /\ FlagShaped(<<"--">>) /\ "--" \notin Switches /\ "--" \notin Options
<1>1. \A f : <<f>> # Empty /\ <<f>>[1] = f
  BY DEF Empty
<1>2. \A f \in Options : f \notin Switches /\ f # NoFlag
  BY DEF Options, Switches, NoFlag
<1>3. "--" \notin Switches /\ "--" \notin Options
  BY DEF Options, Switches
<1> QED BY <1>1, <1>2, <1>3 DEF FlagShaped

LEMMA ReadOption ==
  ASSUME NEW O, NEW P, NEW flag \in Options, NEW t, ~FlagShaped(t)
  PROVE  Read("msb", Ready(O, P), Option(flag, t)) = Ready(O \cup {<<flag, t>>}, P)
<1> DEFINE r == [Ready(O, P) EXCEPT !.flag = flag]
<1>1. flag # NoFlag /\ flag \notin Switches /\ FlagShaped(<<flag>>) /\ <<flag>>[1] = flag
  BY FlagsAreShaped
<1>2. ReadArg(Ready(O, P), <<flag>>) = r
  BY <1>1 DEF ReadArg, Ready
<1>3. ReadArg(r, t) = Ready(O \cup {<<flag, t>>}, P)
  BY <1>1 DEF ReadArg, Ready
<1> HIDE DEF r
<1> QED BY <1>2, <1>3, ReadTwo DEF Option, Step

LEMMA ReadSwitch ==
  ASSUME NEW O, NEW P, NEW f \in Switches
  PROVE  Read("msb", Ready(O, P), <<<<f>>>>) = Ready(O \cup {<<f>>}, P)
<1>1. FlagShaped(<<f>>) /\ <<f>>[1] = f
  BY FlagsAreShaped
<1>2. ReadArg(Ready(O, P), <<f>>) = Ready(O \cup {<<f>>}, P)
  BY <1>1 DEF ReadArg, Ready
<1> QED BY <1>2, ReadOne DEF Step

LEMMA ReadEnd ==
  ASSUME NEW O, NEW P
  PROVE  Read("msb", Ready(O, P), <<<<"--">>>>) = Ended(O, P)
<1>1. FlagShaped(<<"--">>) /\ <<"--">>[1] = "--" /\ "--" \notin Switches /\ "--" \notin Options
  BY FlagsAreShaped
<1>2. ReadArg(Ready(O, P), <<"--">>) = Ended(O, P)
  BY <1>1 DEF ReadArg, Ready, Ended
<1> QED BY <1>2, ReadOne DEF Step

\* After "--" every argument is a positional.
LEMMA ReadRest ==
  ASSUME NEW O, NEW S, NEW P \in Seq(S), NEW s \in Seq(S)
  PROVE  Read("msb", Ended(O, P), s) = Ended(O, P \o s)
<1> DEFINE n == Len(s)
           Q(i) == P \o SubSeq(s, 1, i)
           p == [i \in 0 .. n |-> Ended(O, Q(i))]
<1>1. n \in Nat /\ DOMAIN s = 1 .. n
  OBVIOUS
<1>2. Q(0) = P
  OBVIOUS
<1>3. Q(n) = P \o s
  OBVIOUS
<1>4. \A i \in 1 .. n : Q(i) = Append(Q(i - 1), s[i])
  <2> TAKE i \in 1 .. n
  <2>1. SubSeq(s, 1, i - 1) \in Seq(S) /\ SubSeq(s, 1, i) \in Seq(S)
    OBVIOUS
  <2>2. SubSeq(s, 1, i) = Append(SubSeq(s, 1, i - 1), s[i])
    OBVIOUS
  <2> QED BY <2>1, <2>2
<1> HIDE DEF n, Q
<1>5. p[0] = Ended(O, P) /\ p[n] = Ended(O, P \o s)
  <2>1. p[0] = Ended(O, Q(0)) /\ p[n] = Ended(O, Q(n))
    BY <1>1
  <2> HIDE DEF p
  <2> QED BY <1>2, <1>3, <2>1
<1>6. ASSUME NEW i \in 1 .. n PROVE p[i] = Step("msb", p[i - 1], s[i])
  <2>1. p[i - 1] = Ended(O, Q(i - 1))
    BY <1>1
  <2>2. p[i] = Ended(O, Append(Q(i - 1), s[i]))
    <3>1. p[i] = Ended(O, Q(i))
      BY <1>1
    <3> HIDE DEF p
    <3> QED BY <1>4, <3>1
  <2> HIDE DEF p
  <2>3. ReadArg(Ended(O, Q(i - 1)), s[i]) = Ended(O, Append(Q(i - 1), s[i]))
    BY DEF ReadArg, Ended
  <2> QED BY <2>1, <2>2, <2>3 DEF Step
<1> HIDE DEF p
<1>7. Trace("msb", Ended(O, P), s, n, p)
  BY <1>5, <1>6 DEF Trace
<1> QED BY <1>1, <1>5, <1>7, TraceEnds

\* The trailing name of a command that has had no positional.
LEMMA ReadTrailing ==
  ASSUME NEW O, NEW name
  PROVE  Read("msb", Ready(O, <<>>), Trailing(name)) = Ended(O, <<name>>)
<1>1. ReadArg(Ready(O, <<>>), <<"--">>) = Ended(O, <<>>)
  BY ReadEnd, ReadOne DEF Step
<1>2. ReadArg(Ended(O, <<>>), name) = Ended(O, Append(<<>>, name))
  BY DEF ReadArg, Ended
<1>3. Append(<<>>, name) = <<name>>
  OBVIOUS
<1> QED BY <1>1, <1>2, <1>3, ReadTwo DEF Trailing, Step

\* One option for each text of a list.
OptionsOf(flag, ts) == FlattenSeq([i \in DOMAIN ts |-> Option(flag, ts[i])])
Facts(flag, ts) == {<<flag, ts[i]>> : i \in DOMAIN ts}

LEMMA ReadOptions ==
  ASSUME NEW O, NEW P, NEW flag \in Options, NEW ts \in Seq(Arg),
         \A i \in DOMAIN ts : ~FlagShaped(ts[i])
  PROVE  /\ OptionsOf(flag, ts) \in Seq(Arg)
         /\ Read("msb", Ready(O, P), OptionsOf(flag, ts)) = Ready(O \cup Facts(flag, ts), P)
<1> DEFINE n == Len(ts)
           ss == [i \in DOMAIN ts |-> Option(flag, ts[i])]
           R(i) == O \cup {<<flag, ts[j]>> : j \in 1 .. i}
           st(i) == Ready(R(i), P)
           p == [i \in 0 .. n |-> st(i)]
<1>1. n \in Nat /\ DOMAIN ts = 1 .. n
  OBVIOUS
<1>2. <<flag>> \in Arg
  BY DEF Arg, Token
<1>3. ss \in Seq(Seq(Arg)) /\ Len(ss) = n
  <2>1. \A i \in 1 .. n : Option(flag, ts[i]) \in Seq(Arg)
    <3>1. \A t \in Arg : <<<<flag>>, t>> \in Seq(Arg)
      BY <1>2
    <3> QED BY <1>1, <3>1 DEF Option
  <2> QED BY <1>1, <2>1
<1>4. \A i \in 1 .. n : ss[i] = Option(flag, ts[i])
  BY <1>1
<1>5. p[0] = Ready(O, P)
  <2>1. R(0) = O
    OBVIOUS
  <2> HIDE DEF R
  <2>2. p[0] = Ready(R(0), P)
    BY <1>1
  <2> QED BY <2>1, <2>2
<1>6. p[n] = Ready(O \cup {<<flag, ts[i]>> : i \in DOMAIN ts}, P)
  BY <1>1
<1>7. ASSUME NEW i \in 1 .. n PROVE p[i] = Read("msb", p[i - 1], ss[i])
  <2>1. R(i) = R(i - 1) \cup {<<flag, ts[i]>>}
    <3>1. \A j : j \in 1 .. i <=> j \in 1 .. i - 1 \/ j = i
      BY <1>1
    <3> QED BY <3>1
  <2>2. p[i] = Ready(R(i), P) /\ p[i - 1] = Ready(R(i - 1), P)
    BY <1>1
  <2>3. Read("msb", Ready(R(i - 1), P), Option(flag, ts[i])) = Ready(R(i - 1) \cup {<<flag, ts[i]>>}, P)
    BY <1>1, ReadOption
  <2> HIDE DEF R, p, ss
  <2> QED BY <1>4, <2>1, <2>2, <2>3
<1> HIDE DEF n, R, p
<1>8. FlattenSeq(ss) \in Seq(Arg) /\ Read("msb", Ready(O, P), FlattenSeq(ss)) = p[Len(ss)]
  <2> HIDE DEF ss
  <2>1. \A i \in 1 .. Len(ss) : p[i] = Read("msb", p[i - 1], ss[i])
    BY <1>3, <1>7
  <2>2. ss \in Seq(Seq(Arg))
    BY <1>3
  <2>3. Stages("msb", Ready(O, P), ss, p)
    BY <1>5, <2>1 DEF Stages
  <2> QED BY <2>2, <2>3, ReadFlat
<1> QED BY <1>3, <1>6, <1>8 DEF OptionsOf, Facts

-----------------------------------------------------------------------------
(* Cutting a text at a separator.                                            *)

LEMMA Parts ==
  ASSUME NEW S, NEW a \in Seq(S), NEW b \in Seq(S), NEW c \in S
  PROVE  LET u == a \o <<c>> \o b
             m == Len(a) + 1
         IN /\ u \in Seq(S) /\ m \in 1 .. Len(u) /\ Len(u) = Len(a) + 1 + Len(b)
            /\ u[m] = c
            /\ \A i \in 1 .. Len(a) : u[i] = a[i]
            /\ \A i \in 1 .. Len(b) : u[m + i] = b[i]
            /\ CutAt(u, m) = <<a, b>>
<1> DEFINE s == a \o <<c>>
           u == s \o b
           m == Len(a) + 1
<1>1. s \in Seq(S) /\ Len(s) = m /\ s[m] = c /\ \A i \in 1 .. Len(a) : s[i] = a[i]
  OBVIOUS
<1> HIDE DEF s
<1>2. u \in Seq(S) /\ Len(u) = m + Len(b)
  BY <1>1
<1>3. \A i \in 1 .. m : u[i] = s[i]
  BY <1>1
<1>4. \A i \in 1 .. Len(b) : u[m + i] = b[i]
  BY <1>1
<1>5. Len(a) \in Nat /\ Len(b) \in Nat
  OBVIOUS
<1> HIDE DEF u
<1>6. u[m] = c /\ \A i \in 1 .. Len(a) : u[i] = a[i]
  BY <1>1, <1>3, <1>5
<1>7. SubSeq(u, 1, m - 1) = a
  BY <1>2, <1>5, <1>6
<1>8. SubSeq(u, m + 1, Len(u)) = b
  <2>1. \A i \in m + 1 .. Len(u) : u[i] \in S
    BY <1>2, <1>5
  <2>2. /\ SubSeq(u, m + 1, Len(u)) \in Seq(S)
        /\ Len(SubSeq(u, m + 1, Len(u))) = Len(b)
        /\ \A i \in 1 .. Len(b) : SubSeq(u, m + 1, Len(u))[i] = u[m + i]
    BY <1>2, <1>5, <2>1
  <2> QED BY <1>4, <2>2, SeqEqual
<1>9. CutAt(u, m) = <<a, b>>
  <2>1. m # 0
    BY <1>5
  <2> HIDE DEF m
  <2> QED BY <1>7, <1>8, <2>1 DEF CutAt
<1> QED BY <1>2, <1>4, <1>5, <1>6, <1>9 DEF u, s

LEMMA Extremes ==
  ASSUME NEW I, I \subseteq Nat, NEW m \in I
  PROVE  /\ (\A i \in I : m <= i) => Min(I) = m
         /\ (\A i \in I : i <= m) => Max(I) = m
<1>1. ASSUME \A i \in I : m <= i PROVE Min(I) = m
  <2>1. \A x \in I : (\A y \in I : x <= y) => x = m
    BY <1>1
  <2> QED BY <1>1, <2>1 DEF Min
<1>2. ASSUME \A i \in I : i <= m PROVE Max(I) = m
  <2>1. \A x \in I : (\A y \in I : x >= y) => x = m
    BY <1>2
  <2>2. \A y \in I : m >= y
    BY <1>2
  <2> QED BY <2>1, <2>2 DEF Max
<1> QED BY <1>1, <1>2

LEMMA CutFirst ==
  ASSUME NEW S, NEW a \in Seq(S), NEW b \in Seq(S), NEW c \in S, ~Has(a, c)
  PROVE  AtFirst(a \o <<c>> \o b, c) = <<a, b>>
<1> DEFINE u == a \o <<c>> \o b
           m == Len(a) + 1
           I == {i \in 1 .. Len(u) : u[i] = c}
<1>1. /\ u \in Seq(S) /\ m \in 1 .. Len(u)
      /\ u[m] = c
      /\ \A i \in 1 .. Len(a) : u[i] = a[i]
      /\ CutAt(u, m) = <<a, b>>
  BY Parts
<1>2. Len(a) \in Nat /\ \A i \in 1 .. Len(a) : a[i] # c
  BY DEF Has
<1> HIDE DEF u
<1>3. m \in I /\ \A i \in I : m <= i
  <2>1. ASSUME NEW i \in I, i < m PROVE FALSE
    <3>1. i \in 1 .. Len(a)
      BY <1>2, <2>1
    <3> QED BY <1>1, <1>2, <3>1
  <2> QED BY <1>1, <1>2, <2>1
<1>4. Min(I) = m
  <2>1. I \subseteq Nat
    OBVIOUS
  <2> HIDE DEF I, m
  <2> QED BY <1>3, <2>1, Extremes
<1>5. SelectInSeq(u, LAMBDA x : x = c) = m
  BY <1>3, <1>4 DEF SelectInSeq
<1>6. AtFirst(u, c) = <<a, b>>
  BY <1>1, <1>5 DEF AtFirst
<1> QED BY <1>6 DEF u

LEMMA CutLast ==
  ASSUME NEW S, NEW a \in Seq(S), NEW b \in Seq(S), NEW c \in S, ~Has(b, c)
  PROVE  AtLast(a \o <<c>> \o b, c) = <<a, b>>
<1> DEFINE u == a \o <<c>> \o b
           m == Len(a) + 1
           I == {i \in 1 .. Len(u) : u[i] = c}
<1>1. /\ u \in Seq(S) /\ m \in 1 .. Len(u) /\ Len(u) = Len(a) + 1 + Len(b)
      /\ u[m] = c
      /\ \A i \in 1 .. Len(b) : u[m + i] = b[i]
      /\ CutAt(u, m) = <<a, b>>
  BY Parts
<1>2. Len(a) \in Nat /\ Len(b) \in Nat /\ \A i \in 1 .. Len(b) : b[i] # c
  BY DEF Has
<1> HIDE DEF u
<1>3. m \in I /\ \A i \in I : i <= m
  <2>1. ASSUME NEW i \in I, m < i PROVE FALSE
    <3>1. i - m \in 1 .. Len(b) /\ i = m + (i - m)
      BY <1>1, <1>2, <2>1
    <3> QED BY <1>1, <1>2, <3>1
  <2> QED BY <1>1, <1>2, <2>1
<1>4. Max(I) = m
  <2>1. I \subseteq Nat
    OBVIOUS
  <2> HIDE DEF I, m
  <2> QED BY <1>3, <2>1, Extremes
<1>5. SelectLastInSeq(u, LAMBDA x : x = c) = m
  BY <1>3, <1>4 DEF SelectLastInSeq
<1>6. AtLast(u, c) = <<a, b>>
  BY <1>1, <1>5 DEF AtLast
<1> QED BY <1>6 DEF u

-----------------------------------------------------------------------------
(* The script with the keys.                                                 *)

Sh(mode, word, lines) == [mode |-> mode, word |-> word, lines |-> lines]
Quote(c) == IF c = "'" THEN <<"'", "\\", "'", "'">> ELSE <<c>>

LEMMA ShSteps ==
  ASSUME NEW w, NEW L
  PROVE  /\ Step("sh", Sh("quoted", w, L), "'") = Sh("bare", w, L)
         /\ \A c : c # "'" => Step("sh", Sh("quoted", w, L), c) = Sh("quoted", Append(w, c), L)
         /\ \A c : Step("sh", Sh("escaped", w, L), c) = Sh("bare", Append(w, c), L)
         /\ Step("sh", Sh("bare", w, L), "printf") = Sh("bare", w, L)
         /\ Step("sh", Sh("bare", w, L), "'") = Sh("quoted", w, L)
         /\ Step("sh", Sh("bare", w, L), "\\") = Sh("escaped", w, L)
         /\ Step("sh", Sh("bare", w, L), "nl") = Sh("bare", Empty, Append(L, w))
<1> USE DEF Step, ShToken, Sh
<1>1. Step("sh", Sh("quoted", w, L), "'") = Sh("bare", w, L)
  OBVIOUS
<1>2. \A c : c # "'" => Step("sh", Sh("quoted", w, L), c) = Sh("quoted", Append(w, c), L)
  OBVIOUS
<1>3. \A c : Step("sh", Sh("escaped", w, L), c) = Sh("bare", Append(w, c), L)
  OBVIOUS
<1>4. Step("sh", Sh("bare", w, L), "printf") = Sh("bare", w, L)
  OBVIOUS
<1>5. Step("sh", Sh("bare", w, L), "'") = Sh("quoted", w, L)
  OBVIOUS
<1>6. Step("sh", Sh("bare", w, L), "\\") = Sh("escaped", w, L)
  OBVIOUS
<1>7. Step("sh", Sh("bare", w, L), "nl") = Sh("bare", Empty, Append(L, w))
  OBVIOUS
<1> QED BY <1>1, <1>2, <1>3, <1>4, <1>5, <1>6, <1>7

LEMMA ReadQuote ==
  ASSUME NEW w, NEW L, NEW c
  PROVE  Read("sh", Sh("quoted", w, L), Quote(c)) = Sh("quoted", Append(w, c), L)
<1>1. CASE c # "'"
  BY <1>1, ReadOne, ShSteps DEF Quote
<1>2. CASE c = "'"
  <2> DEFINE S == {"'", "\\"}
             s == <<"'", "\\">>
             t == <<"'", "'">>
  <2>1. s \in Seq(S) /\ t \in Seq(S) /\ Quote(c) = s \o t
    BY <1>2 DEF Quote
  <2>2. Read("sh", Sh("quoted", w, L), s) = Sh("escaped", w, L)
    BY ReadTwo, ShSteps
  <2>3. Read("sh", Sh("escaped", w, L), t) = Sh("quoted", Append(w, c), L)
    BY <1>2, ReadTwo, ShSteps
  <2> HIDE DEF s, t, S
  <2> QED BY <2>1, <2>2, <2>3, ReadCat
<1> QED BY <1>1, <1>2

LEMMA CharsAreTokens == Text \subseteq Arg /\ \A c \in Char : c \in Token /\ Quote(c) \in Arg
<1>1. Char \subseteq Token
  BY DEF Token
<1>2. Text \subseteq Arg
  BY <1>1 DEF Text, Arg
<1>3. "'" \in Token /\ "\\" \in Token
  BY DEF Token, Char
<1>4. <<"'", "\\", "'", "'">> \in Arg /\ \A c \in Token : <<c>> \in Arg
  BY <1>3 DEF Arg
<1> QED BY <1>1, <1>2, <1>4 DEF Quote

\* Between its quotes a key is read as it is.
LEMMA ReadQuotes ==
  ASSUME NEW k \in Text, NEW L
  PROVE  LET body == FlattenSeq([i \in DOMAIN k |-> Quote(k[i])])
         IN /\ body \in Seq(Token)
            /\ Read("sh", Sh("quoted", Empty, L), body) = Sh("quoted", k, L)
<1> DEFINE n == Len(k)
           ss == [i \in DOMAIN k |-> Quote(k[i])]
           W(i) == SubSeq(k, 1, i)
           st(i) == Sh("quoted", W(i), L)
           p == [i \in 0 .. n |-> st(i)]
<1>1. n \in Nat /\ DOMAIN k = 1 .. n /\ \A i \in 1 .. n : k[i] \in Char
  BY DEF Text
<1>2. ss \in Seq(Seq(Token)) /\ Len(ss) = n
  <2>1. \A i \in 1 .. n : Quote(k[i]) \in Seq(Token)
    BY <1>1, CharsAreTokens DEF Arg
  <2> QED BY <1>1, <2>1
<1>3. \A i \in 1 .. n : ss[i] = Quote(k[i])
  BY <1>1
<1>4. W(0) = Empty /\ W(n) = k
  BY DEF Text, Empty
<1>5. \A i \in 1 .. n : W(i) = Append(W(i - 1), k[i])
  BY DEF Text
<1> HIDE DEF n, ss, W
<1>6. p[0] = Sh("quoted", Empty, L) /\ p[n] = Sh("quoted", k, L)
  <2>1. p[0] = st(0) /\ p[n] = st(n)
    BY <1>1
  <2> HIDE DEF p
  <2> QED BY <1>4, <2>1
<1>7. ASSUME NEW i \in 1 .. n PROVE p[i] = Read("sh", p[i - 1], ss[i])
  <2>1. p[i] = st(i) /\ p[i - 1] = st(i - 1)
    BY <1>1
  <2>2. Read("sh", Sh("quoted", W(i - 1), L), Quote(k[i])) = Sh("quoted", Append(W(i - 1), k[i]), L)
    BY ReadQuote
  <2> HIDE DEF p
  <2> QED BY <1>3, <1>5, <2>1, <2>2
<1> HIDE DEF p
<1>8. FlattenSeq(ss) \in Seq(Token) /\ Read("sh", Sh("quoted", Empty, L), FlattenSeq(ss)) = p[Len(ss)]
  <2>1. \A i \in 1 .. Len(ss) : p[i] = Read("sh", p[i - 1], ss[i])
    BY <1>2, <1>7
  <2>2. ss \in Seq(Seq(Token))
    BY <1>2
  <2>3. Stages("sh", Sh("quoted", Empty, L), ss, p)
    BY <1>6, <2>1 DEF Stages
  <2> QED BY <2>2, <2>3, ReadFlat
<1> QED BY <1>2, <1>6, <1>8 DEF ss

\* The line of the script for one key.
LineFor(k) == <<"printf">> \o ShellSingleQuote(k) \o <<"nl">>

LEMMA ReadKey ==
  ASSUME NEW k \in Text, NEW L
  PROVE  /\ LineFor(k) \in Seq(Token)
         /\ Read("sh", Sh("bare", Empty, L), LineFor(k)) = Sh("bare", Empty, Append(L, k))
<1> DEFINE body == FlattenSeq([i \in DOMAIN k |-> Quote(k[i])])
           s == <<"printf", "'">>
           u == <<"'", "nl">>
<1>1. body \in Seq(Token) /\ Read("sh", Sh("quoted", Empty, L), body) = Sh("quoted", k, L)
  BY ReadQuotes
<1>2. ShellSingleQuote(k) = <<"'">> \o body \o <<"'">>
  BY DEF ShellSingleQuote, Each, Quote
<1> HIDE DEF body
<1>3. LineFor(k) = s \o body \o u
  BY <1>1, <1>2 DEF LineFor
<1>4. s \in Seq(Token) /\ u \in Seq(Token)
  BY DEF Token, Char
<1>5. Read("sh", Sh("bare", Empty, L), s) = Sh("quoted", Empty, L)
  BY ReadTwo, ShSteps
<1>6. Read("sh", Sh("quoted", k, L), u) = Sh("bare", Empty, Append(L, k))
  BY ReadTwo, ShSteps
<1> HIDE DEF s, u
<1>7. s \o body \in Seq(Token) /\ LineFor(k) \in Seq(Token)
  BY <1>1, <1>3, <1>4
<1>8. Read("sh", Sh("bare", Empty, L), s \o body) = Sh("quoted", k, L)
  BY <1>1, <1>4, <1>5, ReadCat
<1> DEFINE sb == s \o body
<1>9. LineFor(k) = sb \o u /\ sb \in Seq(Token) /\ Read("sh", Sh("bare", Empty, L), sb) = Sh("quoted", k, L)
  BY <1>3, <1>7, <1>8
<1> HIDE DEF sb
<1>10. Read("sh", Sh("bare", Empty, L), sb \o u) = Read("sh", Read("sh", Sh("bare", Empty, L), sb), u)
  BY <1>4, <1>9, ReadCat
<1> QED BY <1>6, <1>7, <1>9, <1>10

\* sh leaves in authorized_keys the keys that the script was made of.
LEMMA KeysArrive ==
  ASSUME NEW keys \in Seq(Text)
  PROVE  SshKeysScript(keys) \in Seq(Token) /\ AuthorizedKeys(SshKeysScript(keys)) = keys
<1> DEFINE n == Len(keys)
           ss == [i \in DOMAIN keys |-> LineFor(keys[i])]
           W(i) == SubSeq(keys, 1, i)
           st(i) == Sh("bare", Empty, W(i))
           p == [i \in 0 .. n |-> st(i)]
<1>1. n \in Nat /\ DOMAIN keys = 1 .. n /\ \A i \in 1 .. n : keys[i] \in Text
  OBVIOUS
<1>2. ss \in Seq(Seq(Token)) /\ Len(ss) = n
  <2>1. \A i \in 1 .. n : LineFor(keys[i]) \in Seq(Token)
    BY <1>1, ReadKey
  <2> QED BY <1>1, <2>1
<1>3. \A i \in 1 .. n : ss[i] = LineFor(keys[i])
  BY <1>1
<1>4. W(0) = <<>> /\ W(n) = keys
  OBVIOUS
<1>5. \A i \in 1 .. n : W(i) = Append(W(i - 1), keys[i])
  OBVIOUS
<1>6. SshKeysScript(keys) = FlattenSeq(ss)
  BY DEF SshKeysScript, Each, LineFor
<1> HIDE DEF n, ss, W
<1>7. p[0] = Sh("bare", Empty, <<>>) /\ p[n] = Sh("bare", Empty, keys)
  <2>1. p[0] = st(0) /\ p[n] = st(n)
    BY <1>1
  <2> HIDE DEF p
  <2> QED BY <1>4, <2>1
<1>8. ASSUME NEW i \in 1 .. n PROVE p[i] = Read("sh", p[i - 1], ss[i])
  <2>1. p[i] = st(i) /\ p[i - 1] = st(i - 1)
    BY <1>1
  <2>2. Read("sh", Sh("bare", Empty, W(i - 1)), LineFor(keys[i]))
          = Sh("bare", Empty, Append(W(i - 1), keys[i]))
    BY <1>1, ReadKey
  <2> HIDE DEF p
  <2> QED BY <1>3, <1>5, <2>1, <2>2
<1> HIDE DEF p
<1>9. /\ FlattenSeq(ss) \in Seq(Token)
      /\ Read("sh", Sh("bare", Empty, <<>>), FlattenSeq(ss)) = p[Len(ss)]
  <2>1. \A i \in 1 .. Len(ss) : p[i] = Read("sh", p[i - 1], ss[i])
    BY <1>2, <1>8
  <2>2. ss \in Seq(Seq(Token))
    BY <1>2
  <2>3. Stages("sh", Sh("bare", Empty, <<>>), ss, p)
    BY <1>7, <2>1 DEF Stages
  <2> QED BY <2>2, <2>3, ReadFlat
<1>10. AuthorizedKeys(FlattenSeq(ss)) = Read("sh", Sh("bare", Empty, <<>>), FlattenSeq(ss)).lines
  BY DEF AuthorizedKeys, Read, Sh
<1>11. Sh("bare", Empty, keys).lines = keys
  BY DEF Sh
<1> QED BY <1>2, <1>6, <1>7, <1>9, <1>10, <1>11

-----------------------------------------------------------------------------
(* A command line, part by part.                                             *)

\* What msb has read of a command line, and the command it begins with.
Reads(args, c, r) ==
  /\ args \in Seq(Arg) /\ args # <<>>
  /\ args[1] = c
  /\ Read("msb", Ready({}, <<>>), Tail(args)) = r

Meanings(opts, lastAt) == {Meaning(o, lastAt) : o \in opts}

LEMMA FirstPart == ASSUME NEW c \in Arg PROVE Reads(<<c>>, c, Ready({}, <<>>))
<1>1. <<c>> \in Seq(Arg) /\ <<c>> # <<>> /\ <<c>>[1] = c /\ Tail(<<c>>) = <<>>
  OBVIOUS
<1> QED BY <1>1, ReadNone DEF Reads

LEMMA NextPart ==
  ASSUME NEW args, NEW c, NEW r, Reads(args, c, r), NEW x \in Seq(Arg)
  PROVE  Reads(args \o x, c, Read("msb", r, x))
<1> DEFINE u == args \o x
           s == Tail(args)
<1>1. args \in Seq(Arg) /\ args # <<>> /\ args[1] = c /\ Read("msb", Ready({}, <<>>), s) = r
  BY DEF Reads
<1>2. u \in Seq(Arg) /\ u # <<>> /\ u[1] = c
  BY <1>1
<1>3. s \in Seq(Arg)
  BY <1>1
<1>4. Tail(u) = s \o x
  BY <1>1
<1> HIDE DEF u, s
<1>5. Read("msb", Ready({}, <<>>), s \o x) = Read("msb", r, x)
  BY <1>1, <1>3, ReadCat
<1> QED BY <1>2, <1>4, <1>5 DEF Reads, u

LEMMA OptionPart ==
  ASSUME NEW args, NEW c, NEW O, NEW P, Reads(args, c, Ready(O, P)),
         NEW flag \in Options, NEW t \in Arg, ~FlagShaped(t)
  PROVE  Reads(args \o Option(flag, t), c, Ready(O \cup {<<flag, t>>}, P))
<1>1. <<flag>> \in Arg
  BY DEF Arg, Token
<1>2. Option(flag, t) \in Seq(Arg)
  BY <1>1 DEF Option
<1> QED BY <1>2, NextPart, ReadOption

LEMMA NoPart ==
  ASSUME NEW args, NEW c, NEW r, Reads(args, c, r)
  PROVE  Reads(args \o <<>>, c, r)
<1>1. args \o <<>> = args
  BY ConcatEmptySeq DEF Reads
<1> QED BY <1>1

LEMMA SwitchPart ==
  ASSUME NEW args, NEW c, NEW O, NEW P, Reads(args, c, Ready(O, P)), NEW f \in Switches
  PROVE  Reads(args \o <<<<f>>>>, c, Ready(O \cup {<<f>>}, P))
<1> DEFINE x == <<<<f>>>>
<1>1. x \in Seq(Arg)
  BY DEF Arg, Token
<1>2. Read("msb", Ready(O, P), x) = Ready(O \cup {<<f>>}, P)
  BY ReadSwitch
<1> HIDE DEF x
<1>3. Reads(args \o x, c, Ready(O \cup {<<f>>}, P))
  BY <1>1, <1>2, NextPart
<1> QED BY <1>3 DEF x

LEMMA ListPart ==
  ASSUME NEW args, NEW c, NEW O, NEW P, Reads(args, c, Ready(O, P)),
         NEW flag \in Options, NEW ts \in Seq(Arg), \A i \in DOMAIN ts : ~FlagShaped(ts[i])
  PROVE  Reads(args \o OptionsOf(flag, ts), c, Ready(O \cup Facts(flag, ts), P))
BY NextPart, ReadOptions

LEMMA NamePart ==
  ASSUME NEW args, NEW c, NEW O, Reads(args, c, Ready(O, <<>>)), NEW name \in Arg
  PROVE  Reads(args \o Trailing(name), c, Ended(O, <<name>>))
<1>1. <<"--">> \in Arg
  BY DEF Arg, Token
<1>2. Trailing(name) \in Seq(Arg)
  BY <1>1 DEF Trailing
<1> QED BY <1>2, NextPart, ReadTrailing

Positionals(pos) == <<"positionals">> \o pos
Heard(c, pos, opts, lastAt) == {<<"command", c>>, Positionals(pos)} \cup Meanings(opts, lastAt)

\* What msb understands of a command line it has read to its end.
LEMMA WholeRead ==
  ASSUME NEW args, NEW c, NEW O, NEW P, NEW lastAt, NEW r0 \in {Ready(O, P), Ended(O, P)}, Reads(args, c, r0)
  PROVE  Understood(args, lastAt) = Heard(c, P, O, lastAt)
<1> DEFINE r == Read("msb", Ready({}, <<>>), Tail(args))
<1>1. args[1] = c /\ (r = Ready(O, P) \/ r = Ended(O, P))
  BY DEF Reads
<1>2. r.bad = FALSE /\ r.flag = NoFlag /\ r.opts = O /\ r.pos = P
  BY <1>1 DEF Ready, Ended
<1>3. r = FoldLeft(ReadArg, [ended |-> FALSE, flag |-> NoFlag, bad |-> FALSE, opts |-> {}, pos |-> <<>>], Tail(args))
  BY DEF Read, Ready
<1>4. Understood(args, lastAt)
        = IF r.bad \/ r.flag # NoFlag THEN {}
          ELSE {<<"command", args[1]>>, Positionals(r.pos)} \cup {Meaning(o, lastAt) : o \in r.opts}
  BY <1>3 DEF Understood, Positionals
<1> HIDE DEF r
<1> QED BY <1>1, <1>2, <1>4 DEF Meanings, Heard

LEMMA ReadyRead ==
  ASSUME NEW args, NEW c, NEW O, NEW P, NEW lastAt, Reads(args, c, Ready(O, P))
  PROVE  Understood(args, lastAt) = Heard(c, P, O, lastAt)
BY WholeRead

LEMMA EndedRead ==
  ASSUME NEW args, NEW c, NEW O, NEW P, NEW lastAt, Reads(args, c, Ended(O, P))
  PROVE  Understood(args, lastAt) = Heard(c, P, O, lastAt)
BY WholeRead

LEMMA OneAndOne == ASSUME NEW a, NEW b PROVE <<a>> \o <<b>> = <<a, b>>
<1> DEFINE S == {a, b}
           s == <<a>>
           t == <<b>>
           u == <<a, b>>
<1>1. s \in Seq(S) /\ t \in Seq(S) /\ u \in Seq(S)
  OBVIOUS
<1>2. Len(s) = 1 /\ Len(t) = 1 /\ Len(u) = 2
  OBVIOUS
<1>3. s[1] = a /\ t[1] = b /\ u[1] = a /\ u[2] = b
  OBVIOUS
<1> HIDE DEF S, s, t, u
<1>4. s \o t \in Seq(S) /\ Len(s \o t) = 2 /\ (s \o t)[1] = a /\ (s \o t)[2] = b
  <2>1. /\ s \o t \in Seq(S) /\ Len(s \o t) = Len(s) + Len(t)
        /\ \A i \in 1 .. Len(s) + Len(t) : (s \o t)[i] = IF i <= Len(s) THEN s[i] ELSE t[i - Len(s)]
    BY <1>1, ConcatProperties
  <2> QED BY <1>2, <1>3, <2>1
<1>5. s \o t = u
  <2>1. \A i \in 1 .. 2 : i = 1 \/ i = 2
    OBVIOUS
  <2> QED BY <1>1, <1>2, <1>3, <1>4, <2>1, SeqEqual
<1> QED BY <1>5 DEF s, t, u

LEMMA OnePositional == ASSUME NEW name PROVE Positionals(<<name>>) = <<"positionals", name>>
<1> DEFINE a == "positionals"
<1>1. Positionals(<<name>>) = <<a>> \o <<name>>
  BY DEF Positionals
<1> HIDE DEF a
<1>2. <<a>> \o <<name>> = <<a, name>>
  BY OneAndOne
<1> QED BY <1>1, <1>2 DEF a

\* ... and of one that ends in a name.
Named(c, name, opts, lastAt) == {<<"command", c>>, <<"positionals", name>>} \cup Meanings(opts, lastAt)

LEMMA NameRead ==
  ASSUME NEW args, NEW c, NEW O, NEW name, NEW lastAt, Reads(args, c, Ended(O, <<name>>))
  PROVE  Understood(args, lastAt) = Named(c, name, O, lastAt)
<1> DEFINE P == <<name>>
<1>1. Reads(args, c, Ended(O, P))
  OBVIOUS
<1>2. Positionals(P) = <<"positionals", name>>
  BY OnePositional
<1> HIDE DEF P
<1>3. Understood(args, lastAt) = Heard(c, P, O, lastAt)
  BY <1>1, EndedRead
<1> QED BY <1>2, <1>3 DEF Heard, Named

-----------------------------------------------------------------------------
(* The commands of one name.                                                 *)

LEMMA OneNameRead ==
  ASSUME NEW q, q.op \in OneName, q.name \in Text, NEW lastAt
  PROVE  Understood(Argv(q), lastAt) = Asked(q)
<1> DEFINE c == <<q.op>>
           x == IF q.op \in Printed THEN Option("--format", <<"json">>) ELSE <<>>
           O == {<<"--format", <<"json">>>> : y \in {q.op} \cap Printed}
<1>1. c \in Arg /\ q.name \in Arg /\ <<"json">> \in Arg
  <2>1. q.op \in Token /\ "json" \in Token
    BY DEF Token, Command
  <2>2. c \in Arg /\ <<"json">> \in Arg
    BY <2>1 DEF Arg
  <2> QED BY <2>2, CharsAreTokens
<1>2. "--format" \in Options /\ ~FlagShaped(<<"json">>)
  <2>1. <<"json">>[1] = "json"
    OBVIOUS
  <2>2. "json" \notin Switches \cup Options \cup {"-", "--"}
    BY DEF Switches, Options
  <2>3. "--format" \in Options
    BY DEF Options
  <2> QED BY <2>1, <2>2, <2>3 DEF FlagShaped
<1>3. Argv(q) = <<c>> \o x \o Trailing(q.name)
  BY DEF Argv, OneName, OneNameArgs
<1>4. Asked(q) = {<<"command", c>>, <<"positionals", q.name>>} \cup O
  BY DEF Asked, OneName
<1>5. Reads(<<c>>, c, Ready({}, <<>>))
  BY <1>1, FirstPart
<1> DEFINE args == <<c>>
<1> HIDE DEF args
<1>6. Reads(args \o x, c, Ready(O, <<>>))
  <2>1. CASE q.op \in Printed
    <3>1. O = {} \cup {<<"--format", <<"json">>>>}
      BY <2>1
    <3>2. Reads(args \o Option("--format", <<"json">>), c, Ready({} \cup {<<"--format", <<"json">>>>}, <<>>))
      BY <1>1, <1>2, <1>5, OptionPart DEF args
    <3> QED BY <2>1, <3>1, <3>2
  <2>2. CASE q.op \notin Printed
    <3>1. O = {}
      BY <2>2
    <3>2. Reads(args \o <<>>, c, Ready({}, <<>>))
      BY <1>5, NoPart DEF args
    <3> QED BY <2>2, <3>1, <3>2
  <2> QED BY <2>1, <2>2
<1>7. Reads(Argv(q), c, Ended(O, <<q.name>>))
  <2> HIDE DEF O, x
  <2>1. Reads((args \o x) \o Trailing(q.name), c, Ended(O, <<q.name>>))
    BY <1>1, <1>6, NamePart
  <2> QED BY <1>3, <2>1 DEF args
<1>8. Meanings(O, lastAt) = O
  <2>1. Meaning(<<"--format", <<"json">>>>, lastAt) = <<"--format", <<"json">>>>
    BY DEF Meaning
  <2> QED BY <2>1 DEF Meanings
<1> HIDE DEF O, c
<1>9. Understood(Argv(q), lastAt) = Named(c, q.name, O, lastAt)
  BY <1>7, NameRead
<1> QED BY <1>4, <1>8, <1>9 DEF Named

-----------------------------------------------------------------------------
(* Texts that are accepted are not shaped like flags.                        *)

LEMMA TextShape == ASSUME NEW t \in Text PROVE t \in Arg /\ (FlagShaped(t) <=> Dashed(t))
<1>1. Char \cap (Switches \cup Options \cup {"-", "--"}) = {"-"}
  BY DEF Char, Switches, Options
<1>2. t # <<>> => t[1] \in Char
  BY DEF Text
<1>3. t \in Arg
  BY CharsAreTokens
<1> QED BY <1>1, <1>2, <1>3 DEF FlagShaped, Dashed, Empty

LEMMA ShapedChars ==
  ASSUME NEW t \in Text, NEW first, NEW rest, Shaped(t, first, rest),
         NEW c, c \notin first, c \notin rest
  PROVE  ~Has(t, c)
<1>1. DOMAIN t = 1 .. Len(t) /\ Len(t) \in Nat
  BY DEF Text
<1>2. \A i \in 1 .. Len(t) : i = 1 \/ i \in 2 .. Len(t)
  BY <1>1
<1> QED BY <1>1, <1>2 DEF Shaped, Has

\* A name has none of the characters that msb splits at, and does not begin with "-".
LEMMA NameShape ==
  ASSUME NEW t \in Text, ValidName(t)
  PROVE  t # Empty /\ ~Dashed(t) /\ ~FlagShaped(t) /\ ~Has(t, ":") /\ ~Has(t, "=")
<1> DEFINE first == Alnum
           rest == Alnum \cup {"_", ".", "-"}
<1>1. Shaped(t, first, rest)
  BY DEF ValidName
<1>2. "-" \notin first /\ ":" \notin first /\ "=" \notin first /\ ":" \notin rest /\ "=" \notin rest
  BY DEF Alnum, Letter, Digit
<1> HIDE DEF first, rest
<1>3. ~Has(t, ":") /\ ~Has(t, "=")
  BY <1>1, <1>2, ShapedChars
<1>4. t # Empty /\ ~Dashed(t)
  BY <1>1, <1>2 DEF Shaped, Dashed
<1> QED BY <1>3, <1>4, TextShape

LEMMA EnvKeyShape ==
  ASSUME NEW t \in Text, ValidEnvKey(t)
  PROVE  t # Empty /\ ~Dashed(t) /\ ~Has(t, "=")
<1> DEFINE first == Letter \cup {"_"}
           rest == Alnum \cup {"_"}
<1>1. Shaped(t, first, rest)
  BY DEF ValidEnvKey
<1>2. "-" \notin first /\ "=" \notin first /\ "=" \notin rest
  BY DEF Alnum, Letter, Digit
<1> HIDE DEF first, rest
<1>3. ~Has(t, "=")
  BY <1>1, <1>2, ShapedChars
<1> QED BY <1>1, <1>2, <1>3 DEF Shaped, Dashed

LEMMA SizeShape == ASSUME NEW t \in Text, ValidSize(t) PROVE ~FlagShaped(t)
<1>1. PICK n \in DOMAIN t : \A i \in DOMAIN t : t[i] \in (IF i <= n THEN Digit ELSE Letter)
  BY DEF ValidSize
<1>2. DOMAIN t = 1 .. Len(t) /\ Len(t) \in Nat
  BY DEF Text
<1>3. 1 \in DOMAIN t
  BY <1>1, <1>2
<1>4. t[1] # "-"
  BY <1>1, <1>3 DEF Digit, Letter
<1> QED BY <1>4, TextShape DEF Dashed

\* A pair's text begins as its key does.
Pair(k, v) == k \o <<"=">> \o v

LEMMA PairShape ==
  ASSUME NEW k \in Text, NEW v \in Text, k # Empty, ~Dashed(k), ~Has(k, "=")
  PROVE  /\ Pair(k, v) \in Text /\ ~FlagShaped(Pair(k, v))
         /\ AtFirst(Pair(k, v), "=") = <<k, v>>
<1> DEFINE u == Pair(k, v)
<1>1. "=" \in Char
  BY DEF Char
<1>2. k \in Seq(Char) /\ v \in Seq(Char)
  BY DEF Text
<1>3. u \in Seq(Char) /\ \A i \in 1 .. Len(k) : u[i] = k[i]
  BY <1>1, <1>2, Parts DEF Pair
<1>4. AtFirst(u, "=") = <<k, v>>
  BY <1>1, <1>2, CutFirst DEF Pair
<1>5. 1 \in 1 .. Len(k)
  BY <1>2 DEF Empty
<1> HIDE DEF u
<1>6. ~Dashed(u)
  BY <1>3, <1>5 DEF Dashed
<1>7. u \in Text
  BY <1>3 DEF Text
<1>8. ~FlagShaped(u)
  BY <1>6, <1>7, TextShape
<1> QED BY <1>4, <1>7, <1>8 DEF u

-----------------------------------------------------------------------------
(* Parts that are not always there.                                          *)

GivenFacts(flag, t) == IF t = Empty THEN {} ELSE {<<flag, t>>}
PositiveFacts(flag, n) == IF n > 0 THEN {<<flag, <<ToString(n)>>>>} ELSE {}

LEMMA GivenPart ==
  ASSUME NEW args, NEW c, NEW O, NEW P, Reads(args, c, Ready(O, P)),
         NEW flag \in Options, NEW t \in Arg, t # Empty => ~FlagShaped(t)
  PROVE  Reads(args \o Given(flag, t), c, Ready(O \cup GivenFacts(flag, t), P))
<1>1. CASE t = Empty
  <2>1. O \cup GivenFacts(flag, t) = O
    BY <1>1 DEF GivenFacts
  <2>2. Given(flag, t) = <<>>
    BY <1>1 DEF Given
  <2> QED BY <2>1, <2>2, NoPart
<1>2. CASE t # Empty
  BY <1>2, OptionPart DEF Given, GivenFacts
<1> QED BY <1>1, <1>2

LEMMA NumberShape ==
  ASSUME NumbersPrint, NEW n \in Int
  PROVE  <<ToString(n)>> \in Arg /\ ~FlagShaped(<<ToString(n)>>) /\ ToString(n) \in Token /\ ToString(n) # ":"
<1> DEFINE d == ToString(n)
<1>1. d \in Token /\ d \notin Switches \cup Options \cup {"-", "--", ":"}
  BY DEF NumbersPrint, Token
<1> HIDE DEF d
<1>2. <<d>> \in Arg /\ <<d>>[1] = d
  BY <1>1 DEF Arg
<1> QED BY <1>1, <1>2 DEF FlagShaped, d

LEMMA PositivePart ==
  ASSUME NumbersPrint,
         NEW args, NEW c, NEW O, NEW P, Reads(args, c, Ready(O, P)),
         NEW flag \in Options, NEW n \in Int
  PROVE  Reads(args \o Positive(flag, n), c, Ready(O \cup PositiveFacts(flag, n), P))
<1> DEFINE t == <<ToString(n)>>
<1>1. t \in Arg /\ ~FlagShaped(t)
  BY NumberShape
<1> HIDE DEF t
<1>2. CASE n > 0
  <2>1. Positive(flag, n) = Option(flag, t) /\ PositiveFacts(flag, n) = {<<flag, t>>}
    BY <1>2 DEF Positive, PositiveFacts, t
  <2> QED BY <1>1, <2>1, OptionPart
<1>3. CASE ~(n > 0)
  <2>1. O \cup PositiveFacts(flag, n) = O
    BY <1>3 DEF PositiveFacts
  <2>2. Positive(flag, n) = <<>>
    BY <1>3 DEF Positive
  <2> QED BY <2>1, <2>2, NoPart
<1> QED BY <1>2, <1>3

LEMMA MeaningsOfUnion ==
  ASSUME NEW A, NEW B, NEW lastAt
  PROVE  Meanings(A \cup B, lastAt) = Meanings(A, lastAt) \cup Meanings(B, lastAt)
BY DEF Meanings

LEMMA MeaningsOfOne ==
  ASSUME NEW o, NEW lastAt
  PROVE  Meanings({o}, lastAt) = {Meaning(o, lastAt)} /\ Meanings({}, lastAt) = {}
BY DEF Meanings

\* An option whose value msb does not take apart.
Plainly == {"-d", "--json", "--force", "-n", "-c", "-m", "--snapshot", "--format", "--tail",
            "--since", "--until", "--source", "--grep", "--from", "--size"}

LEMMA PlainMeaning ==
  ASSUME NEW o, o[1] \in Plainly, NEW lastAt
  PROVE  Meaning(o, lastAt) = o
BY DEF Meaning, Plainly

LEMMA PlainOption ==
  ASSUME NEW flag \in Plainly, NEW t, NEW lastAt
  PROVE  Meanings({<<flag, t>>}, lastAt) = {<<flag, t>>}
<1> DEFINE o == <<flag, t>>
<1>1. o[1] \in Plainly
  OBVIOUS
<1> HIDE DEF o
<1>2. Meanings({o}, lastAt) = {o}
  BY <1>1, PlainMeaning, MeaningsOfOne
<1> QED BY <1>2 DEF o

LEMMA PlainMeanings ==
  ASSUME NEW O, \A o \in O : o[1] \in Plainly, NEW lastAt
  PROVE  Meanings(O, lastAt) = O
BY PlainMeaning DEF Meanings

-----------------------------------------------------------------------------
(* The other commands.                                                       *)

LEMMA CommandShape == ASSUME NEW c \in Command PROVE <<c>> \in Arg
BY DEF Arg, Token

LEMMA VolumeCreateRead ==
  ASSUME NEW q, q.op = "volume-create", Decoded(q), Valid(q), NEW lastAt
  PROVE  Understood(Argv(q), lastAt) = Asked(q)
<1> DEFINE c == <<q.op>>
           args == <<c>>
           O == {<<"--size", q.size>>}
<1>1. q.name \in Arg /\ q.size \in Arg /\ ~FlagShaped(q.size)
  <2>1. q.name \in Text /\ q.size \in Text
    BY DEF Decoded
  <2>2. ValidSize(q.size)
    BY DEF Valid, OneName
  <2> QED BY <2>1, <2>2, SizeShape, TextShape
<1>2. c \in Arg /\ "--size" \in Options
  <2>1. q.op \in Command
    BY DEF Command
  <2> QED BY <2>1, CommandShape DEF Options
<1>3. Argv(q) = args \o Option("--size", q.size) \o Trailing(q.name)
  BY DEF Argv, OneName
<1>4. Asked(q) = {<<"command", c>>, <<"positionals", q.name>>} \cup O
  BY DEF Asked, OneName
<1>5. Reads(args, c, Ready({}, <<>>))
  BY <1>2, FirstPart
<1>6. O = {} \cup {<<"--size", q.size>>}
  OBVIOUS
<1> HIDE DEF c, args, O
<1>7. Reads(args \o Option("--size", q.size), c, Ready(O, <<>>))
  BY <1>1, <1>2, <1>5, <1>6, OptionPart
<1>8. Reads(Argv(q), c, Ended(O, <<q.name>>))
  BY <1>1, <1>3, <1>7, NamePart
<1>9. Meanings(O, lastAt) = O
  <2>1. "--size" \in Plainly
    BY DEF Plainly
  <2> QED BY <2>1, PlainOption DEF O
<1>10. Understood(Argv(q), lastAt) = Named(c, q.name, O, lastAt)
  <2> DEFINE all == Argv(q)
             name == q.name
  <2>1. Reads(all, c, Ended(O, <<name>>))
    BY <1>8
  <2> HIDE DEF all, name
  <2>2. Understood(all, lastAt) = Named(c, name, O, lastAt)
    BY <2>1, NameRead
  <2> QED BY <2>2 DEF all, name
<1> QED BY <1>4, <1>9, <1>10 DEF Named

LEMMA ExecRead ==
  ASSUME NEW q, q.op = "exec", Decoded(q), Valid(q), NEW lastAt
  PROVE  Understood(Argv(q), lastAt) = Asked(q)
<1> DEFINE c == <<"exec">>
           args == <<c>>
           x == <<q.name, <<"--">>>>
           pos == <<q.name>> \o q.command
<1>1. q.name \in Text /\ q.name \in Arg /\ ~FlagShaped(q.name)
  <2>1. q.name \in Text
    BY DEF Decoded
  <2>2. ValidName(q.name)
    BY DEF Valid, OneName
  <2> QED BY <2>1, <2>2, NameShape, TextShape
<1>2. q.command \in Seq(Arg)
  <2>1. q.command \in Seq(Text)
    BY DEF Decoded
  <2> QED BY <2>1, CharsAreTokens
<1>3. c \in Arg /\ <<"--">> \in Arg
  <2>1. "exec" \in Command
    BY DEF Command
  <2>2. "--" \in Token
    BY DEF Token
  <2> QED BY <2>1, <2>2, CommandShape DEF Arg
<1>4. Argv(q) = args \o x \o q.command
  <2>1. Argv(q) = <<c, q.name, <<"--">>>> \o q.command
    BY DEF Argv, OneName
  <2> DEFINE u == <<c, q.name, <<"--">>>>
             v == args \o x
  <2>2. args \in Seq(Arg) /\ x \in Seq(Arg) /\ u \in Seq(Arg)
    BY <1>1, <1>3
  <2>3. Len(args) = 1 /\ Len(x) = 2 /\ Len(u) = 3
    OBVIOUS
  <2>4. args[1] = u[1] /\ x[1] = u[2] /\ x[2] = u[3]
    OBVIOUS
  <2> HIDE DEF u, args, x
  <2>5. v \in Seq(Arg) /\ Len(v) = 3 /\ v[1] = u[1] /\ v[2] = u[2] /\ v[3] = u[3]
    <3>1. /\ v \in Seq(Arg) /\ Len(v) = Len(args) + Len(x)
          /\ \A i \in 1 .. Len(args) + Len(x) : v[i] = IF i <= Len(args) THEN args[i] ELSE x[i - Len(args)]
      BY <2>2, ConcatProperties
    <3> HIDE DEF v
    <3> QED BY <2>3, <2>4, <3>1
  <2> HIDE DEF v
  <2>6. u = v
    <3>1. \A i \in 1 .. 3 : i = 1 \/ i = 2 \/ i = 3
      OBVIOUS
    <3> QED BY <2>2, <2>3, <2>5, <3>1, SeqEqual
  <2> QED BY <2>1, <2>6 DEF u, v
<1>5. Asked(q) = {<<"command", c>>, <<"positionals", q.name>> \o q.command}
  BY DEF Asked, OneName
<1>6. Reads(args, c, Ready({}, <<>>))
  BY <1>3, FirstPart
<1>7. x \in Seq(Arg)
  BY <1>1, <1>3
<1>8. Read("msb", Ready({}, <<>>), x) = Ended({}, <<q.name>>)
  <2>1. ReadArg(Ready({}, <<>>), q.name) = Ready({}, Append(<<>>, q.name))
    BY <1>1 DEF ReadArg, Ready
  <2>2. Append(<<>>, q.name) = <<q.name>>
    OBVIOUS
  <2> DEFINE p == <<q.name>>
  <2> HIDE DEF p
  <2>3. ReadArg(Ready({}, p), <<"--">>) = Ended({}, p)
    BY ReadEnd, ReadOne DEF Step
  <2>4. Step("msb", Step("msb", Ready({}, <<>>), q.name), <<"--">>) = Ended({}, p)
    BY <2>1, <2>2, <2>3 DEF Step, p
  <2> QED BY <2>4, ReadTwo DEF p
<1>9. Read("msb", Ended({}, <<q.name>>), q.command) = Ended({}, pos)
  <2> DEFINE p == <<q.name>>
  <2>1. p \in Seq(Arg)
    BY <1>1
  <2> HIDE DEF p
  <2>2. Read("msb", Ended({}, p), q.command) = Ended({}, p \o q.command)
    BY <1>2, <2>1, ReadRest
  <2> QED BY <2>2 DEF p
<1>10. Positionals(pos) = <<"positionals", q.name>> \o q.command
  <2> DEFINE a == "positionals"
             S == {a} \cup Arg
             s == <<a>>
             n == <<q.name>>
  <2>1. s \in Seq(S) /\ n \in Seq(S) /\ q.command \in Seq(S)
    BY <1>1, <1>2
  <2>2. s \o n = <<a, q.name>>
    BY OneAndOne
  <2>3. Positionals(pos) = s \o (n \o q.command)
    BY DEF Positionals
  <2> DEFINE e == q.command
  <2> HIDE DEF S, s, n, e
  <2>5. e \in Seq(S) /\ s \in Seq(S) /\ n \in Seq(S)
    BY <2>1 DEF e
  <2>4. s \o (n \o e) = (s \o n) \o e
    BY <2>5, ConcatAssociative
  <2> QED BY <2>2, <2>3, <2>4 DEF e
<1> HIDE DEF c, args, x, pos
<1>11. Reads(args \o x, c, Ended({}, <<q.name>>))
  BY <1>6, <1>7, <1>8, NextPart
<1>12. Reads((args \o x) \o q.command, c, Ended({}, pos))
  BY <1>2, <1>9, <1>11, NextPart
<1>13. Understood(Argv(q), lastAt) = Heard(c, pos, {}, lastAt)
  BY <1>4, <1>12, EndedRead
<1> QED BY <1>5, <1>10, <1>13, MeaningsOfOne DEF Heard

\* A list of at most one number.
LEMMA TailPart ==
  ASSUME NumbersPrint,
         NEW args, NEW c, NEW O, NEW P, Reads(args, c, Ready(O, P)),
         NEW ns \in Seq(Int), Len(ns) <= 1, \A i \in DOMAIN ns : ns[i] > 0
  PROVE  Reads(args \o Each(LAMBDA n : Positive("--tail", n), ns), c,
               Ready(O \cup {<<"--tail", <<ToString(n)>>>> : n \in ToSet(ns)}, P))
<1> DEFINE ss == [i \in DOMAIN ns |-> Positive("--tail", ns[i])]
           x == Each(LAMBDA n : Positive("--tail", n), ns)
           F == {<<"--tail", <<ToString(n)>>>> : n \in ToSet(ns)}
<1>1. x = FlattenSeq(ss)
  BY DEF Each
<1>2. CASE ns = <<>>
  <2>1. Len(ss) = 0 /\ ss = <<>>
    BY <1>2
  <2>2. x = <<>>
    BY <1>1, <2>1 DEF FlattenSeq
  <2>3. O \cup F = O
    BY <1>2 DEF ToSet
  <2> HIDE DEF x, F
  <2> QED BY <2>2, <2>3, NoPart DEF x, F
<1>3. CASE ns # <<>>
  <2> DEFINE n == ns[1]
  <2>1. Len(ns) = 1 /\ DOMAIN ns = {1} /\ n \in Int /\ n > 0
    <3>1. Len(ns) \in Nat /\ Len(ns) # 0 /\ DOMAIN ns = 1 .. Len(ns)
      BY <1>3, EmptySeq
    <3>2. Len(ns) = 1
      BY <3>1
    <3>3. DOMAIN ns = {1}
      BY <3>1, <3>2
    <3> QED BY <3>2, <3>3
  <2> HIDE DEF n
  <2>2. ss = [i \in 1 .. 1 |-> Positive("--tail", n)]
    BY <2>1 DEF n
  <2> HIDE DEF ss
  <2>7. ss \in Seq({Positive("--tail", n)}) /\ ss # <<>> /\ Len(ss) = 1 /\ ss[1] = Positive("--tail", n)
    BY <2>2
  <2>3. F = PositiveFacts("--tail", n)
    BY <2>1 DEF ToSet, PositiveFacts, n
  <2>4. FlattenSeq(ss) = Positive("--tail", n)
    BY <2>7, Flattened DEF Joins
  <2>5. "--tail" \in Options
    BY DEF Options
  <2> HIDE DEF x, F
  <2>6. Reads(args \o x, c, Ready(O \cup F, P))
    BY <1>1, <2>1, <2>3, <2>4, <2>5, PositivePart
  <2> QED BY <2>6 DEF x, F
<1> QED BY <1>2, <1>3

LEMMA SourceShape ==
  ASSUME NEW t \in Seq(Char \cup LogsSource), t # Empty => ValidSource(t)
  PROVE  t \in Arg /\ (t # Empty => ~FlagShaped(t))
<1>1. Char \cup LogsSource \subseteq Token
  BY DEF Token
<1>2. t \in Arg
  BY <1>1 DEF Arg
<1>3. ASSUME t # Empty PROVE ~FlagShaped(t)
  <2>1. DOMAIN t = 1 .. Len(t) /\ Len(t) \in Nat \ {0}
    BY <1>3 DEF Empty
  <2>2. t[1] \in LogsSource
    <3>1. \A i \in DOMAIN t : t[i] \in (IF i % 2 = 1 THEN LogsSource ELSE {","})
      BY <1>3 DEF ValidSource
    <3>2. 1 \in DOMAIN t /\ 1 % 2 = 1
      BY <2>1
    <3> QED BY <3>1, <3>2
  <2>3. LogsSource \cap (Switches \cup Options \cup {"-", "--"}) = {}
    BY DEF LogsSource, Switches, Options
  <2> QED BY <2>2, <2>3 DEF FlagShaped
<1> QED BY <1>2, <1>3

LEMMA GivenFactsAre ==
  ASSUME NEW flag, NEW t
  PROVE  \A f : f \in GivenFacts(flag, t) <=> f = <<flag, t>> /\ f[2] # Empty
<1> DEFINE p == <<flag, t>>
<1>1. p[2] = t
  OBVIOUS
<1>2. GivenFacts(flag, t) = IF t = Empty THEN {} ELSE {p}
  BY DEF GivenFacts
<1> HIDE DEF p
<1>3. \A f : f \in GivenFacts(flag, t) <=> f = p /\ f[2] # Empty
  BY <1>1, <1>2
<1> QED BY <1>3 DEF p

LEMMA PlainGiven ==
  ASSUME NEW flag \in Plainly, NEW t, NEW lastAt
  PROVE  Meanings(GivenFacts(flag, t), lastAt) = GivenFacts(flag, t)
BY PlainOption, MeaningsOfOne DEF GivenFacts

\* The tail that msb is not told of (Client.Logs).
ZeroTail == <<0>>

LEMMA LogsRead ==
  ASSUME NumbersPrint, NEW q, q.op = "logs", Decoded(q), Valid(q), q.tail # ZeroTail, NEW lastAt
  PROVE  Understood(Argv(q), lastAt) = Asked(q)
<1> DEFINE c == <<"logs">>
           a0 == <<c>>
           a1 == a0 \o Each(LAMBDA n : Positive("--tail", n), q.tail)
           a2 == a1 \o Given("--since", q.since)
           a3 == a2 \o Given("--until", q.until)
           a4 == a3 \o Given("--source", q.source)
           a5 == a4 \o Given("--grep", q.grep)
           a6 == a5 \o <<<<"--json">>>>
           O1 == {} \cup {<<"--tail", <<ToString(n)>>>> : n \in ToSet(q.tail)}
           O2 == O1 \cup GivenFacts("--since", q.since)
           O3 == O2 \cup GivenFacts("--until", q.until)
           O4 == O3 \cup GivenFacts("--source", q.source)
           O5 == O4 \cup GivenFacts("--grep", q.grep)
           O6 == O5 \cup {<<"--json">>}
<1>1. /\ {q.name, q.since, q.until, q.grep} \subseteq Text
      /\ q.source \in Seq(Char \cup LogsSource)
      /\ q.tail \in Seq(Int) /\ Len(q.tail) <= 1
  BY DEF Decoded
<1>2. ValidLogs(q)
  BY DEF Valid, OneName
<1>3. /\ q.name \in Arg /\ q.since \in Arg /\ q.until \in Arg /\ q.grep \in Arg /\ q.source \in Arg
      /\ ~FlagShaped(q.since) /\ ~FlagShaped(q.until) /\ ~FlagShaped(q.grep)
      /\ q.source # Empty => ~FlagShaped(q.source)
  <2>1. ~Dashed(q.since) /\ ~Dashed(q.until) /\ ~Dashed(q.grep) /\ (q.source # Empty => ValidSource(q.source))
    BY <1>2 DEF ValidLogs
  <2>2. q.name \in Text /\ q.since \in Text /\ q.until \in Text /\ q.grep \in Text
    BY <1>1
  <2> QED BY <1>1, <2>1, <2>2, TextShape, SourceShape
<1>4. \A i \in DOMAIN q.tail : q.tail[i] > 0
  <2> SUFFICES ASSUME NEW i \in DOMAIN q.tail PROVE q.tail[i] > 0
    OBVIOUS
  <2>1. DOMAIN q.tail = 1 .. Len(q.tail) /\ Len(q.tail) \in Nat
    BY <1>1
  <2>2. i = 1 /\ Len(q.tail) = 1
    <3> DEFINE n == Len(q.tail)
    <3>1. n \in Nat /\ n <= 1 /\ i \in 1 .. n
      BY <1>1, <2>1
    <3> HIDE DEF n
    <3>2. i = 1 /\ n = 1
      BY <3>1
    <3> QED BY <3>2 DEF n
  <2>3. q.tail[i] \in Int /\ q.tail[i] >= 0
    BY <1>1, <1>2 DEF ValidLogs
  <2>4. ASSUME q.tail[1] = 0 PROVE FALSE
    <3> DEFINE z == <<0>>
    <3>1. z \in Seq(Int) /\ Len(z) = 1 /\ z[1] = 0
      OBVIOUS
    <3>2. z # q.tail
      BY DEF ZeroTail
    <3> HIDE DEF z
    <3>3. \A j \in 1 .. 1 : j = 1
      OBVIOUS
    <3> QED BY <1>1, <2>2, <2>4, <3>1, <3>2, <3>3, SeqEqual
  <2> QED BY <2>2, <2>3, <2>4
<1>5. Argv(q) = a6 \o Trailing(q.name)
  BY DEF Argv, OneName
<1>6. c \in Arg
  <2>1. "logs" \in Command
    BY DEF Command
  <2> QED BY <2>1, CommandShape
<1>7. {"--tail", "--since", "--until", "--source", "--grep"} \subseteq Options \cap Plainly /\ "--json" \in Switches
  BY DEF Options, Plainly, Switches
<1>8. Reads(a0, c, Ready({}, <<>>))
  BY <1>6, FirstPart
<1> HIDE DEF a0, c
<1>9. Reads(a1, c, Ready(O1, <<>>))
  BY <1>1, <1>4, <1>8, TailPart
<1> HIDE DEF a1, O1
<1>10. Reads(a2, c, Ready(O2, <<>>))
  BY <1>3, <1>7, <1>9, GivenPart
<1> HIDE DEF a2, O2
<1>11. Reads(a3, c, Ready(O3, <<>>))
  BY <1>3, <1>7, <1>10, GivenPart
<1> HIDE DEF a3, O3
<1>12. Reads(a4, c, Ready(O4, <<>>))
  BY <1>3, <1>7, <1>11, GivenPart
<1> HIDE DEF a4, O4
<1>13. Reads(a5, c, Ready(O5, <<>>))
  BY <1>3, <1>7, <1>12, GivenPart
<1> HIDE DEF a5, O5
<1>14. Reads(a6, c, Ready(O6, <<>>))
  BY <1>7, <1>13, SwitchPart
<1> HIDE DEF a6, O6
<1>15. Understood(Argv(q), lastAt) = Named(c, q.name, O6, lastAt)
  <2>1. Reads(a6 \o Trailing(q.name), c, Ended(O6, <<q.name>>))
    BY <1>3, <1>14, NamePart
  <2> QED BY <1>5, <2>1, NameRead
<1>16. Meanings(O6, lastAt) = O6
  <2>1. Meanings(O1, lastAt) = O1
    <3>1. \A o \in O1 : o[1] \in Plainly
      BY <1>7 DEF O1
    <3> QED BY <3>1, PlainMeanings
  <2>2. Meanings(O2, lastAt) = O2
    BY <1>7, <2>1, MeaningsOfUnion, PlainGiven DEF O2
  <2>3. Meanings(O3, lastAt) = O3
    BY <1>7, <2>2, MeaningsOfUnion, PlainGiven DEF O3
  <2>4. Meanings(O4, lastAt) = O4
    BY <1>7, <2>3, MeaningsOfUnion, PlainGiven DEF O4
  <2>5. Meanings(O5, lastAt) = O5
    BY <1>7, <2>4, MeaningsOfUnion, PlainGiven DEF O5
  <2>6. Meanings({<<"--json">>}, lastAt) = {<<"--json">>}
    <3> DEFINE o == <<"--json">>
    <3>1. o[1] \in Plainly
      BY DEF Plainly
    <3> HIDE DEF o
    <3>2. Meanings({o}, lastAt) = {o}
      BY <3>1, PlainMeaning, MeaningsOfOne
    <3> QED BY <3>2 DEF o
  <2> QED BY <2>5, <2>6, MeaningsOfUnion DEF O6
<1>17. Asked(q) = {<<"command", c>>, <<"positionals", q.name>>} \cup O6
  <2> DEFINE since == <<"--since", q.since>>
             until == <<"--until", q.until>>
             source == <<"--source", q.source>>
             grep == <<"--grep", q.grep>>
             json == <<"--json">>
             named == <<"positionals", q.name>>
             cmd == <<"command", c>>
  <2>1. Asked(q) = {cmd, json, named} \cup O1 \cup {f \in {since, until, source, grep} : f[2] # Empty}
    BY DEF Asked, OneName, O1, c
  <2>2. \A f : f \in O6 <=> \/ f \in O1
                           \/ (f = since /\ f[2] # Empty)
                           \/ (f = until /\ f[2] # Empty)
                           \/ (f = source /\ f[2] # Empty)
                           \/ (f = grep /\ f[2] # Empty)
                           \/ f = json
    BY GivenFactsAre DEF O6, O5, O4, O3, O2
  <2> HIDE DEF since, until, source, grep, json, named, cmd
  <2>3. Asked(q) = {cmd, named} \cup O6
    BY <2>1, <2>2
  <2> QED BY <2>3 DEF cmd, named
<1> QED BY <1>15, <1>16, <1>17 DEF Named

\* SetToSeq lists every element of a finite set.
LEMMA Listed ==
  ASSUME NEW S, IsFiniteSet(S)
  PROVE  SetToSeq(S) \in Seq(S) /\ \A x : x \in S <=> \E i \in DOMAIN SetToSeq(S) : SetToSeq(S)[i] = x
<1> DEFINE n == Cardinality(S)
           s == SetToSeq(S)
<1>1. n \in Nat /\ ExistsBijection(1 .. n, S)
  BY FS_CardinalityType
<1>2. \E f \in [1 .. n -> S] : IsInjective(f)
  BY <1>1 DEF ExistsBijection, Bijection, Injection
<1>3. s \in [1 .. n -> S] /\ IsInjective(s)
  BY <1>2 DEF SetToSeq
<1>4. IsFiniteSet(1 .. n) /\ Cardinality(1 .. n) = n
  BY <1>1, FS_Interval
<1> HIDE DEF s, n
<1>5. s \in Injection(1 .. n, S)
  BY <1>3 DEF Injection
<1>6. s \in Surjection(1 .. n, S)
  BY <1>4, <1>5, FS_Injection DEF n
<1>7. \A x \in S : \E i \in 1 .. n : s[i] = x
  BY <1>6 DEF Surjection
<1>8. s \in Seq(S) /\ DOMAIN s = 1 .. n
  BY <1>1, <1>3
<1> QED BY <1>3, <1>7, <1>8 DEF s

\* The pairs of a map, each an option.
Good(k) == k # Empty /\ ~Dashed(k) /\ ~Has(k, "=")
PairFacts(flag, kvs) == {<<flag, Pair(kv[1], kv[2])>> : kv \in kvs}
PairMeanings(flag, kvs) == {<<flag>> \o kv : kv \in kvs}

LEMMA PairsPart ==
  ASSUME NEW args, NEW c, NEW O, NEW P, Reads(args, c, Ready(O, P)), NEW flag \in Options,
         NEW kvs, kvs \in SUBSET (Text \X Text), IsFiniteSet(kvs), \A kv \in kvs : Good(kv[1])
  PROVE  Reads(args \o Pairs(flag, kvs), c, Ready(O \cup PairFacts(flag, kvs), P))
<1> DEFINE s == SetToSeq(kvs)
           ts == [i \in DOMAIN s |-> Pair(s[i][1], s[i][2])]
<1>1. s \in Seq(kvs) /\ \A x : x \in kvs <=> \E i \in DOMAIN s : s[i] = x
  BY Listed
<1> HIDE DEF s
<1>2. \A kv \in kvs : kv[1] \in Text /\ kv[2] \in Text
  OBVIOUS
<1>3. \A kv \in kvs : Pair(kv[1], kv[2]) \in Arg /\ ~FlagShaped(Pair(kv[1], kv[2]))
  BY <1>2, PairShape, TextShape DEF Good
<1>4. ts \in Seq(Arg) /\ DOMAIN ts = DOMAIN s
  <2>1. \A i \in DOMAIN s : ts[i] \in Arg
    BY <1>1, <1>3
  <2>2. DOMAIN s = 1 .. Len(s) /\ Len(s) \in Nat
    BY <1>1
  <2> QED BY <2>1, <2>2
<1>5. \A i \in DOMAIN ts : ~FlagShaped(ts[i])
  BY <1>1, <1>3
<1>6. Facts(flag, ts) = PairFacts(flag, kvs)
  BY <1>1 DEF Facts, PairFacts
<1>7. OptionsOf(flag, ts) = Pairs(flag, kvs)
  <2>1. Pairs(flag, kvs) = FlattenSeq([i \in DOMAIN s |-> Option(flag, ts[i])])
    BY DEF Pairs, Each, Pair, s
  <2> QED BY <1>4, <2>1 DEF OptionsOf
<1> HIDE DEF ts
<1> QED BY <1>4, <1>5, <1>6, <1>7, ListPart

LEMMA OneAndTwo == ASSUME NEW a, NEW b, NEW d PROVE <<a>> \o <<b, d>> = <<a, b, d>>
<1> DEFINE S == {a, b, d}
           s == <<a>>
           t == <<b, d>>
           u == <<a, b, d>>
<1>1. s \in Seq(S) /\ t \in Seq(S) /\ u \in Seq(S)
  OBVIOUS
<1>2. Len(s) = 1 /\ Len(t) = 2 /\ Len(u) = 3
  OBVIOUS
<1>3. s[1] = a /\ t[1] = b /\ t[2] = d /\ u[1] = a /\ u[2] = b /\ u[3] = d
  OBVIOUS
<1> HIDE DEF S, s, t, u
<1>4. s \o t \in Seq(S) /\ Len(s \o t) = 3 /\ (s \o t)[1] = a /\ (s \o t)[2] = b /\ (s \o t)[3] = d
  <2>1. /\ s \o t \in Seq(S) /\ Len(s \o t) = Len(s) + Len(t)
        /\ \A i \in 1 .. Len(s) + Len(t) : (s \o t)[i] = IF i <= Len(s) THEN s[i] ELSE t[i - Len(s)]
    BY <1>1, ConcatProperties
  <2> QED BY <1>2, <1>3, <2>1
<1>5. s \o t = u
  <2>1. \A i \in 1 .. 3 : i = 1 \/ i = 2 \/ i = 3
    OBVIOUS
  <2> QED BY <1>1, <1>2, <1>3, <1>4, <2>1, SeqEqual
<1> QED BY <1>5 DEF s, t, u

LEMMA PairsMean ==
  ASSUME NEW flag \in {"-e", "--label"}, NEW lastAt,
         NEW kvs, kvs \in SUBSET (Text \X Text), \A kv \in kvs : Good(kv[1])
  PROVE  Meanings(PairFacts(flag, kvs), lastAt) = PairMeanings(flag, kvs)
<1>1. ASSUME NEW kv \in kvs PROVE Meaning(<<flag, Pair(kv[1], kv[2])>>, lastAt) = <<flag>> \o kv
  <2> DEFINE u == Pair(kv[1], kv[2])
             o == <<flag, u>>
  <2>1. AtFirst(u, "=") = <<kv[1], kv[2]>>
    BY PairShape DEF Good
  <2>2. kv = <<kv[1], kv[2]>>
    OBVIOUS
  <2>3. o[1] = flag /\ o[2] = u
    OBVIOUS
  <2> HIDE DEF o, u
  <2>4. Meaning(o, lastAt) = <<flag>> \o AtFirst(u, "=")
    BY <2>3 DEF Meaning
  <2> QED BY <2>1, <2>2, <2>4 DEF o, u
<1> QED BY <1>1 DEF Meanings, PairFacts, PairMeanings

LEMMA SnapshotCreateRead ==
  ASSUME NEW q, q.op = "snapshot-create", Decoded(q), Valid(q), NEW lastAt
  PROVE  Understood(Argv(q), lastAt) = Asked(q)
<1> DEFINE c == <<q.op>>
           a0 == <<c>>
           a1 == a0 \o Option("--from", q.from)
           a2 == a1 \o Pairs("--label", q.labels)
           a3 == a2 \o (IF q.force THEN <<<<"--force">>>> ELSE <<>>)
           F == {<<"--force">> : x \in {q.force} \ {FALSE}}
           O1 == {} \cup {<<"--from", q.from>>}
           O2 == O1 \cup PairFacts("--label", q.labels)
           O3 == O2 \cup F
<1>1. /\ q.name \in Text /\ q.from \in Text /\ q.force \in BOOLEAN
      /\ q.labels \in SUBSET (Text \X Text) /\ IsFiniteSet(q.labels)
  BY DEF Decoded
<1>2. ValidName(q.from) /\ \A kv \in q.labels : ValidName(kv[1])
  BY DEF Valid, OneName
<1>3. q.name \in Arg /\ q.from \in Arg /\ ~FlagShaped(q.from)
  BY <1>1, <1>2, NameShape, TextShape
<1>4. \A kv \in q.labels : Good(kv[1])
  BY <1>1, <1>2, NameShape DEF Good
<1>5. Argv(q) = a3 \o Trailing(q.name)
  BY DEF Argv, OneName
<1>6. Asked(q) = {<<"command", c>>, <<"--from", q.from>>, <<"positionals", q.name>>}
                   \cup PairMeanings("--label", q.labels) \cup F
  BY DEF Asked, OneName, PairMeanings
<1>7. c \in Arg /\ "--from" \in Options /\ "--label" \in Options /\ "--force" \in Switches
  <2>1. q.op \in Command
    BY DEF Command
  <2> QED BY <2>1, CommandShape DEF Options, Switches
<1>8. Reads(a0, c, Ready({}, <<>>))
  BY <1>7, FirstPart
<1> HIDE DEF a0, c
<1>9. Reads(a1, c, Ready(O1, <<>>))
  BY <1>3, <1>7, <1>8, OptionPart
<1> HIDE DEF a1, O1
<1>10. Reads(a2, c, Ready(O2, <<>>))
  BY <1>1, <1>4, <1>7, <1>9, PairsPart
<1> HIDE DEF a2, O2
<1>11. Reads(a3, c, Ready(O3, <<>>))
  <2>1. CASE q.force
    <3>1. a3 = a2 \o <<<<"--force">>>> /\ F = {<<"--force">>}
      BY <2>1
    <3> HIDE DEF a3, F
    <3> QED BY <1>7, <1>10, <3>1, SwitchPart
  <2>2. CASE ~q.force
    <3>1. a3 = a2 \o <<>> /\ O3 = O2
      BY <1>1, <2>2
    <3> HIDE DEF a3, O3
    <3> QED BY <1>10, <3>1, NoPart
  <2> QED BY <2>1, <2>2
<1> HIDE DEF a3, O3, F
<1>12. Understood(Argv(q), lastAt) = Named(c, q.name, O3, lastAt)
  <2>1. Reads(a3 \o Trailing(q.name), c, Ended(O3, <<q.name>>))
    BY <1>3, <1>11, NamePart
  <2> QED BY <1>5, <2>1, NameRead
<1>13. Meanings(O3, lastAt) = {<<"--from", q.from>>} \cup PairMeanings("--label", q.labels) \cup F
  <2>1. Meanings(O1, lastAt) = {<<"--from", q.from>>}
    <3>1. "--from" \in Plainly
      BY DEF Plainly
    <3>2. O1 = {<<"--from", q.from>>}
      BY DEF O1
    <3> QED BY <3>1, <3>2, PlainOption
  <2>2. Meanings(O2, lastAt) = {<<"--from", q.from>>} \cup PairMeanings("--label", q.labels)
    BY <1>1, <1>4, <2>1, MeaningsOfUnion, PairsMean DEF O2
  <2>3. Meanings(F, lastAt) = F
    <3>1. \A o \in F : o[1] \in Plainly
      <4>1. <<"--force">>[1] \in Plainly
        BY DEF Plainly
      <4> QED BY <4>1 DEF F
    <3> QED BY <3>1, PlainMeanings
  <2> QED BY <2>2, <2>3, MeaningsOfUnion DEF O3
<1> QED BY <1>6, <1>12, <1>13 DEF Named
-----------------------------------------------------------------------------
(* The lists of a spec.                                                      *)

LEMMA SplitShape ==
  ASSUME NEW k \in Arg, NEW v \in Arg, NEW sep \in Token, k # Empty, ~FlagShaped(k), ~Has(k, sep)
  PROVE  /\ k \o <<sep>> \o v \in Arg /\ ~FlagShaped(k \o <<sep>> \o v)
         /\ AtFirst(k \o <<sep>> \o v, sep) = <<k, v>>
<1> DEFINE u == k \o <<sep>> \o v
<1>1. k \in Seq(Token) /\ v \in Seq(Token)
  BY DEF Arg
<1>2. u \in Seq(Token) /\ \A i \in 1 .. Len(k) : u[i] = k[i]
  BY <1>1, Parts
<1>3. AtFirst(u, sep) = <<k, v>>
  BY <1>1, CutFirst
<1>4. 1 \in 1 .. Len(k)
  BY <1>1 DEF Empty
<1> HIDE DEF u
<1>5. u[1] = k[1]
  BY <1>2, <1>4
<1>6. ~FlagShaped(u)
  BY <1>5 DEF FlagShaped
<1> QED BY <1>2, <1>3, <1>6 DEF u, Arg

LEMMA SplitMeaning ==
  ASSUME NEW flag \in {"-v", "-p"}, NEW u, NEW a, NEW b, AtFirst(u, ":") = <<a, b>>, NEW lastAt
  PROVE  Meaning(<<flag, u>>, lastAt) = <<flag, a, b>>
<1> DEFINE o == <<flag, u>>
<1>1. o[1] = flag /\ o[2] = u
  OBVIOUS
<1> HIDE DEF o
<1>2. Meaning(o, lastAt) = <<flag>> \o AtFirst(u, ":")
  BY <1>1 DEF Meaning
<1>3. <<flag>> \o <<a, b>> = <<flag, a, b>>
  BY OneAndTwo
<1> QED BY <1>2, <1>3 DEF o

Mount == [name : Text, mount : Text]
MountText(v) == v.name \o <<":">> \o v.mount
Mounts(vs) == Each(LAMBDA v : Option("-v", v.name \o <<":">> \o v.mount), vs)
MountFacts(vs) == {<<"-v", MountText(v)>> : v \in ToSet(vs)}
MountMeanings(vs) == {<<"-v", v.name, v.mount>> : v \in ToSet(vs)}

LEMMA MountShape ==
  ASSUME NEW v \in Mount, ValidName(v.name)
  PROVE  /\ MountText(v) \in Arg /\ ~FlagShaped(MountText(v))
         /\ AtFirst(MountText(v), ":") = <<v.name, v.mount>>
<1>1. v.name \in Text /\ v.mount \in Text
  BY DEF Mount
<1>2. v.name \in Arg /\ v.mount \in Arg /\ v.name # Empty /\ ~FlagShaped(v.name) /\ ~Has(v.name, ":")
  BY <1>1, NameShape, TextShape
<1>3. ":" \in Token
  BY DEF Token, Char
<1> QED BY <1>2, <1>3, SplitShape DEF MountText

LEMMA MountsPart ==
  ASSUME NEW args, NEW c, NEW O, NEW P, Reads(args, c, Ready(O, P)),
         NEW vs \in Seq(Mount), \A i \in DOMAIN vs : ValidName(vs[i].name)
  PROVE  Reads(args \o Mounts(vs), c, Ready(O \cup MountFacts(vs), P))
<1> DEFINE ts == [i \in DOMAIN vs |-> MountText(vs[i])]
<1>1. \A i \in DOMAIN vs : vs[i] \in Mount /\ ts[i] = MountText(vs[i])
  OBVIOUS
<1>2. DOMAIN vs = 1 .. Len(vs) /\ Len(vs) \in Nat /\ DOMAIN ts = DOMAIN vs
  OBVIOUS
<1>3. \A i \in DOMAIN vs : ts[i] \in Arg /\ ~FlagShaped(ts[i])
  BY <1>1, MountShape
<1>4. ts \in Seq(Arg)
  BY <1>2, <1>3
<1>5. OptionsOf("-v", ts) = Mounts(vs)
  <2>1. Mounts(vs) = FlattenSeq([i \in DOMAIN vs |-> Option("-v", MountText(vs[i]))])
    BY DEF Mounts, Each, MountText
  <2>2. [i \in DOMAIN vs |-> Option("-v", MountText(vs[i]))] = [i \in DOMAIN ts |-> Option("-v", ts[i])]
    BY <1>1, <1>2
  <2> QED BY <2>1, <2>2 DEF OptionsOf
<1>6. Facts("-v", ts) = MountFacts(vs)
  BY <1>1, <1>2 DEF Facts, MountFacts, ToSet
<1>7. "-v" \in Options
  BY DEF Options
<1> HIDE DEF ts
<1> QED BY <1>2, <1>3, <1>4, <1>5, <1>6, <1>7, ListPart

LEMMA MountsMean ==
  ASSUME NEW vs \in Seq(Mount), \A i \in DOMAIN vs : ValidName(vs[i].name), NEW lastAt
  PROVE  Meanings(MountFacts(vs), lastAt) = MountMeanings(vs)
<1>1. \A v \in ToSet(vs) : v \in Mount /\ ValidName(v.name)
  BY DEF ToSet
<1>2. \A v \in ToSet(vs) : Meaning(<<"-v", MountText(v)>>, lastAt) = <<"-v", v.name, v.mount>>
  BY <1>1, MountShape, SplitMeaning
<1> QED BY <1>2 DEF Meanings, MountFacts, MountMeanings

PortPair == [host : Int, guest : Int]
PortText(p) == <<ToString(p.host), ":", ToString(p.guest)>>
Ports(ps) == Each(LAMBDA p : Option("-p", <<ToString(p.host), ":", ToString(p.guest)>>), ps)
PortFacts(ps) == {<<"-p", PortText(p)>> : p \in ToSet(ps)}
PortMeanings(ps) == {<<"-p", <<ToString(p.host)>>, <<ToString(p.guest)>>>> : p \in ToSet(ps)}

LEMMA PortShape ==
  ASSUME NumbersPrint, NEW p \in PortPair
  PROVE  /\ PortText(p) \in Arg /\ ~FlagShaped(PortText(p))
         /\ AtFirst(PortText(p), ":") = <<<<ToString(p.host)>>, <<ToString(p.guest)>>>>
<1> DEFINE h == ToString(p.host)
           g == ToString(p.guest)
           k == <<h>>
           v == <<g>>
           sep == ":"
<1>1. p.host \in Int /\ p.guest \in Int
  BY DEF PortPair
<1>2. k \in Arg /\ v \in Arg /\ ~FlagShaped(k) /\ h # sep
  BY <1>1, NumberShape
<1>3. sep \in Token
  BY DEF Token, Char
<1>4. PortText(p) = <<h, sep, g>>
  BY DEF PortText
<1> HIDE DEF h, g, sep
<1>5. k # Empty /\ ~Has(k, sep)
  BY <1>2 DEF Empty, Has
<1>6. k \o <<sep>> \o v = <<h, sep, g>>
  <2> DEFINE m == <<sep>>
             mv == <<sep, g>>
  <2>1. m \in Seq(Token) /\ k \in Seq(Token) /\ v \in Seq(Token)
    BY <1>2, <1>3 DEF Arg
  <2>2. m \o v = mv
    BY OneAndOne
  <2>3. k \o mv = <<h, sep, g>>
    BY OneAndTwo
  <2> HIDE DEF m, mv, k, v
  <2>4. (k \o m) \o v = k \o (m \o v)
    BY <2>1, ConcatAssociative
  <2> QED BY <2>2, <2>3, <2>4 DEF m
<1> HIDE DEF k, v
<1>7. /\ k \o <<sep>> \o v \in Arg /\ ~FlagShaped(k \o <<sep>> \o v)
      /\ AtFirst(k \o <<sep>> \o v, sep) = <<k, v>>
  BY <1>2, <1>3, <1>5, SplitShape
<1> QED BY <1>4, <1>6, <1>7 DEF k, v, h, g, sep

LEMMA PortsPart ==
  ASSUME NumbersPrint, NEW args, NEW c, NEW O, NEW P, Reads(args, c, Ready(O, P)),
         NEW ps \in Seq(PortPair)
  PROVE  Reads(args \o Ports(ps), c, Ready(O \cup PortFacts(ps), P))
<1> DEFINE ts == [i \in DOMAIN ps |-> PortText(ps[i])]
<1>1. \A i \in DOMAIN ps : ps[i] \in PortPair /\ ts[i] = PortText(ps[i])
  OBVIOUS
<1>2. DOMAIN ps = 1 .. Len(ps) /\ Len(ps) \in Nat /\ DOMAIN ts = DOMAIN ps
  OBVIOUS
<1>3. \A i \in DOMAIN ps : ts[i] \in Arg /\ ~FlagShaped(ts[i])
  BY <1>1, PortShape
<1>4. ts \in Seq(Arg)
  BY <1>2, <1>3
<1>5. OptionsOf("-p", ts) = Ports(ps)
  <2>1. Ports(ps) = FlattenSeq([i \in DOMAIN ps |-> Option("-p", PortText(ps[i]))])
    BY DEF Ports, Each, PortText
  <2>2. [i \in DOMAIN ps |-> Option("-p", PortText(ps[i]))] = [i \in DOMAIN ts |-> Option("-p", ts[i])]
    BY <1>1, <1>2
  <2> QED BY <2>1, <2>2 DEF OptionsOf
<1>6. Facts("-p", ts) = PortFacts(ps)
  BY <1>1, <1>2 DEF Facts, PortFacts, ToSet
<1>7. "-p" \in Options
  BY DEF Options
<1> HIDE DEF ts
<1> QED BY <1>2, <1>3, <1>4, <1>5, <1>6, <1>7, ListPart

LEMMA PortsMean ==
  ASSUME NumbersPrint, NEW ps \in Seq(PortPair), NEW lastAt
  PROVE  Meanings(PortFacts(ps), lastAt) = PortMeanings(ps)
<1>1. \A p \in ToSet(ps) : p \in PortPair
  BY DEF ToSet
<1>2. \A p \in ToSet(ps) :
        Meaning(<<"-p", PortText(p)>>, lastAt) = <<"-p", <<ToString(p.host)>>, <<ToString(p.guest)>>>>
  BY <1>1, PortShape, SplitMeaning
<1> QED BY <1>2 DEF Meanings, PortFacts, PortMeanings

LEMMA TwoAndTwo == ASSUME NEW a, NEW b, NEW d, NEW e PROVE <<a, b>> \o <<d, e>> = <<a, b, d, e>>
<1> DEFINE S == {a, b, d, e}
           s == <<a, b>>
           t == <<d, e>>
           u == <<a, b, d, e>>
<1>1. s \in Seq(S) /\ t \in Seq(S) /\ u \in Seq(S)
  OBVIOUS
<1>2. Len(s) = 2 /\ Len(t) = 2 /\ Len(u) = 4
  OBVIOUS
<1>3. s[1] = a /\ s[2] = b /\ t[1] = d /\ t[2] = e /\ u[1] = a /\ u[2] = b /\ u[3] = d /\ u[4] = e
  OBVIOUS
<1> HIDE DEF S, s, t, u
<1>4. /\ s \o t \in Seq(S) /\ Len(s \o t) = 4
      /\ (s \o t)[1] = a /\ (s \o t)[2] = b /\ (s \o t)[3] = d /\ (s \o t)[4] = e
  <2>1. /\ s \o t \in Seq(S) /\ Len(s \o t) = Len(s) + Len(t)
        /\ \A i \in 1 .. Len(s) + Len(t) : (s \o t)[i] = IF i <= Len(s) THEN s[i] ELSE t[i - Len(s)]
    BY <1>1, ConcatProperties
  <2> QED BY <1>2, <1>3, <2>1
<1>5. s \o t = u
  <2>1. \A i \in 1 .. 4 : i = 1 \/ i = 2 \/ i = 3 \/ i = 4
    OBVIOUS
  <2> QED BY <1>1, <1>2, <1>3, <1>4, <2>1, SeqEqual
<1> QED BY <1>5 DEF s, t, u

Secret == [key : Text, value : Text, host : Text]
Rest(x) == x.value \o <<"@">> \o x.host
SecretText(x) == x.key \o <<"=">> \o x.value \o <<"@">> \o x.host
Secrets(xs) == Each(LAMBDA x : Option("--secret", x.key \o <<"=">> \o x.value \o <<"@">> \o x.host), xs)
SecretFacts(xs) == {<<"--secret", SecretText(x)>> : x \in ToSet(xs)}
SecretMeanings(xs) == {<<"--secret", x.key, x.value, x.host>> : x \in ToSet(xs)}

\* Neither the key's "=" nor the "@", whichever of them msb looks for, is mistaken.
LEMMA SecretShape ==
  ASSUME NEW x \in Secret, ValidSecret(x)
  PROVE  /\ SecretText(x) \in Arg /\ ~FlagShaped(SecretText(x))
         /\ AtFirst(SecretText(x), "=") = <<x.key, Rest(x)>>
         /\ AtFirst(Rest(x), "@") = <<x.value, x.host>>
         /\ AtLast(Rest(x), "@") = <<x.value, x.host>>
<1> DEFINE k == x.key
           v == x.value
           h == x.host
           eq == "="
           at == "@"
<1>1. k \in Arg /\ v \in Arg /\ h \in Arg /\ eq \in Token /\ at \in Token
  <2>1. k \in Text /\ v \in Text /\ h \in Text
    BY DEF Secret
  <2>2. eq \in Token /\ at \in Token
    BY DEF Token, Char
  <2> QED BY <2>1, <2>2, TextShape
<1>2. k # Empty /\ ~Has(k, eq) /\ ~Has(v, at) /\ ~Has(h, at)
  BY DEF ValidSecret
<1>3. ~FlagShaped(k)
  <2>1. k \in Text /\ ~Dashed(k)
    BY DEF Secret, ValidSecret
  <2> QED BY <2>1, TextShape
<1>4. SecretText(x) = k \o <<eq>> \o v \o <<at>> \o h /\ Rest(x) = v \o <<at>> \o h
  BY DEF SecretText, Rest
<1> HIDE DEF k, v, h, eq, at
<1> DEFINE ke == k \o <<eq>>
           va == v \o <<at>>
           rest == va \o h
<1>5. k \in Seq(Token) /\ v \in Seq(Token) /\ h \in Seq(Token)
  BY <1>1 DEF Arg
<1>6. ke \in Seq(Token) /\ va \in Seq(Token) /\ <<at>> \in Seq(Token)
  BY <1>1, <1>5
<1>7. rest \in Seq(Token)
  BY <1>5, <1>6
<1>8. SecretText(x) = ke \o rest
  <2> DEFINE m == <<at>>
             w == v \o m
  <2>1. m \in Seq(Token) /\ SecretText(x) = ((ke \o v) \o m) \o h
    BY <1>4, <1>6
  <2>2. w \in Seq(Token) /\ rest = w \o h
    BY <1>6
  <2> HIDE DEF ke, m, va, rest
  <2>3. (ke \o v) \o m = ke \o w
    <3>1. ke \in Seq(Token) /\ v \in Seq(Token) /\ m \in Seq(Token)
      BY <1>5, <1>6, <2>1
    <3> QED BY <3>1, ConcatAssociative DEF w
  <2> HIDE DEF w
  <2>4. (ke \o w) \o h = ke \o (w \o h)
    <3>1. ke \in Seq(Token) /\ w \in Seq(Token) /\ h \in Seq(Token)
      BY <1>5, <1>6, <2>2
    <3> QED BY <3>1, ConcatAssociative
  <2> QED BY <2>1, <2>2, <2>3, <2>4
<1>9. AtFirst(rest, at) = <<v, h>> /\ AtLast(rest, at) = <<v, h>>
  BY <1>1, <1>2, <1>5, CutFirst, CutLast
<1> HIDE DEF rest
<1>10. /\ k \o <<eq>> \o rest \in Arg /\ ~FlagShaped(k \o <<eq>> \o rest)
       /\ AtFirst(k \o <<eq>> \o rest, eq) = <<k, rest>>
  <2>1. rest \in Arg
    BY <1>7 DEF Arg
  <2> QED BY <1>1, <1>2, <1>3, <2>1, SplitShape
<1>11. Rest(x) = rest
  BY <1>4 DEF rest
<1> QED BY <1>8, <1>9, <1>10, <1>11 DEF k, v, h, eq, at

LEMMA SecretMeaning ==
  ASSUME NEW x \in Secret, ValidSecret(x), NEW lastAt
  PROVE  Meaning(<<"--secret", SecretText(x)>>, lastAt) = <<"--secret", x.key, x.value, x.host>>
<1> DEFINE flag == "--secret"
           u == SecretText(x)
           o == <<flag, u>>
           kv == AtFirst(u, "=")
           k == x.key
           rest == Rest(x)
<1>1. o[1] = flag /\ o[2] = u
  OBVIOUS
<1>2. /\ kv = <<k, rest>>
      /\ AtFirst(rest, "@") = <<x.value, x.host>> /\ AtLast(rest, "@") = <<x.value, x.host>>
  BY SecretShape
<1> HIDE DEF o, u
<1>3. Meaning(o, lastAt) = <<flag, kv[1]>> \o (IF lastAt THEN AtLast(kv[2], "@") ELSE AtFirst(kv[2], "@"))
  BY <1>1 DEF Meaning
<1>4. <<flag, k>> \o <<x.value, x.host>> = <<flag, k, x.value, x.host>>
  BY TwoAndTwo
<1> HIDE DEF kv, k, rest, flag
<1>5. kv[1] = k /\ kv[2] = rest
  BY <1>2
<1>6. Meaning(o, lastAt) = <<flag, k>> \o <<x.value, x.host>>
  BY <1>2, <1>3, <1>5
<1> QED BY <1>4, <1>6 DEF o, u, k, flag

LEMMA SecretsPart ==
  ASSUME NEW args, NEW c, NEW O, NEW P, Reads(args, c, Ready(O, P)),
         NEW xs \in Seq(Secret), \A i \in DOMAIN xs : ValidSecret(xs[i])
  PROVE  Reads(args \o Secrets(xs), c, Ready(O \cup SecretFacts(xs), P))
<1> DEFINE ts == [i \in DOMAIN xs |-> SecretText(xs[i])]
<1>1. \A i \in DOMAIN xs : xs[i] \in Secret /\ ts[i] = SecretText(xs[i])
  OBVIOUS
<1>2. DOMAIN xs = 1 .. Len(xs) /\ Len(xs) \in Nat /\ DOMAIN ts = DOMAIN xs
  OBVIOUS
<1>3. \A i \in DOMAIN xs : ts[i] \in Arg /\ ~FlagShaped(ts[i])
  BY <1>1, SecretShape
<1>4. ts \in Seq(Arg)
  BY <1>2, <1>3
<1>5. OptionsOf("--secret", ts) = Secrets(xs)
  <2>1. Secrets(xs) = FlattenSeq([i \in DOMAIN xs |-> Option("--secret", SecretText(xs[i]))])
    BY DEF Secrets, Each, SecretText
  <2>2. [i \in DOMAIN xs |-> Option("--secret", SecretText(xs[i]))]
          = [i \in DOMAIN ts |-> Option("--secret", ts[i])]
    BY <1>1, <1>2
  <2> QED BY <2>1, <2>2 DEF OptionsOf
<1>6. Facts("--secret", ts) = SecretFacts(xs)
  BY <1>1, <1>2 DEF Facts, SecretFacts, ToSet
<1>7. "--secret" \in Options
  BY DEF Options
<1> HIDE DEF ts
<1> QED BY <1>2, <1>3, <1>4, <1>5, <1>6, <1>7, ListPart

LEMMA SecretsMean ==
  ASSUME NEW xs \in Seq(Secret), \A i \in DOMAIN xs : ValidSecret(xs[i]), NEW lastAt
  PROVE  Meanings(SecretFacts(xs), lastAt) = SecretMeanings(xs)
<1>1. \A x \in ToSet(xs) : x \in Secret /\ ValidSecret(x)
  BY DEF ToSet
<1>2. \A x \in ToSet(xs) :
        Meaning(<<"--secret", SecretText(x)>>, lastAt) = <<"--secret", x.key, x.value, x.host>>
  BY <1>1, SecretMeaning
<1> QED BY <1>2 DEF Meanings, SecretFacts, SecretMeanings

KeysText(keys) == <<"install-ssh-keys", "=">> \o SshKeysScript(keys)
Keys(keys) == IF keys # <<>> THEN Option("--script-raw", KeysText(keys)) ELSE <<>>
KeysFacts(keys) == IF keys = <<>> THEN {} ELSE {<<"--script-raw", KeysText(keys)>>}
KeysMeanings(keys) == IF keys = <<>> THEN {} ELSE {<<"keys", keys>>}

LEMMA KeysShape ==
  ASSUME NEW keys \in Seq(Text)
  PROVE  /\ KeysText(keys) \in Arg /\ ~FlagShaped(KeysText(keys))
         /\ AtFirst(KeysText(keys), "=")[2] = SshKeysScript(keys)
<1> DEFINE w == "install-ssh-keys"
           eq == "="
           k == <<w>>
           v == SshKeysScript(keys)
<1>1. w \in Token /\ eq \in Token
  BY DEF Token, Char
<1>2. v \in Arg
  BY KeysArrive DEF Arg
<1>3. w # eq /\ w \notin Switches \cup Options \cup {"-", "--"}
  BY DEF Switches, Options
<1>4. KeysText(keys) = <<w, eq>> \o v
  BY DEF KeysText
<1> HIDE DEF w, eq, v
<1>5. k \in Arg /\ k # Empty /\ k[1] = w
  BY <1>1 DEF Arg, Empty
<1>6. ~FlagShaped(k) /\ ~Has(k, eq)
  BY <1>3, <1>5 DEF FlagShaped, Has
<1>7. k \o <<eq>> = <<w, eq>>
  BY OneAndOne
<1>8. /\ k \o <<eq>> \o v \in Arg /\ ~FlagShaped(k \o <<eq>> \o v)
      /\ AtFirst(k \o <<eq>> \o v, eq) = <<k, v>>
  BY <1>1, <1>2, <1>5, <1>6, SplitShape
<1>9. KeysText(keys) \in Arg /\ ~FlagShaped(KeysText(keys)) /\ AtFirst(KeysText(keys), eq) = <<k, v>>
  BY <1>4, <1>7, <1>8
<1> QED BY <1>9 DEF v, eq

LEMMA KeysPart ==
  ASSUME NEW args, NEW c, NEW O, NEW P, Reads(args, c, Ready(O, P)), NEW keys \in Seq(Text)
  PROVE  Reads(args \o Keys(keys), c, Ready(O \cup KeysFacts(keys), P))
<1>1. CASE keys = <<>>
  <2>1. Keys(keys) = <<>> /\ O \cup KeysFacts(keys) = O
    BY <1>1 DEF Keys, KeysFacts
  <2> QED BY <2>1, NoPart
<1>2. CASE keys # <<>>
  <2>1. Keys(keys) = Option("--script-raw", KeysText(keys)) /\ KeysFacts(keys) = {<<"--script-raw", KeysText(keys)>>}
    BY <1>2 DEF Keys, KeysFacts
  <2>2. "--script-raw" \in Options
    BY DEF Options
  <2> QED BY <2>1, <2>2, KeysShape, OptionPart
<1> QED BY <1>1, <1>2

LEMMA KeysMean ==
  ASSUME NEW keys \in Seq(Text), NEW lastAt
  PROVE  Meanings(KeysFacts(keys), lastAt) = KeysMeanings(keys)
<1>1. Meaning(<<"--script-raw", KeysText(keys)>>, lastAt) = <<"keys", keys>>
  <2> DEFINE u == KeysText(keys)
             o == <<"--script-raw", u>>
  <2>1. o[1] = "--script-raw" /\ o[2] = u
    OBVIOUS
  <2>2. AtFirst(u, "=")[2] = SshKeysScript(keys)
    BY KeysShape
  <2> HIDE DEF o, u
  <2>3. Meaning(o, lastAt) = <<"keys", AuthorizedKeys(AtFirst(u, "=")[2])>>
    BY <2>1 DEF Meaning
  <2> QED BY <2>2, <2>3, KeysArrive DEF o, u
<1> QED BY <1>1, MeaningsOfOne DEF KeysFacts, KeysMeanings
-----------------------------------------------------------------------------
(* The create, whose fields follow the image's or the snapshot's command.    *)

Fields(args, s) ==
  args \o Option("-n", s.name)
  \o Positive("-c", s.cpus) \o Positive("-m", s.memory)
  \o Mounts(s.volume) \o Pairs("-e", s.env) \o Ports(s.ports) \o Secrets(s.secrets) \o Keys(s.keys)
FieldFacts(s) ==
  {<<"-n", s.name>>} \cup PositiveFacts("-c", s.cpus) \cup PositiveFacts("-m", s.memory)
  \cup MountFacts(s.volume) \cup PairFacts("-e", s.env) \cup PortFacts(s.ports)
  \cup SecretFacts(s.secrets) \cup KeysFacts(s.keys)
FieldMeanings(s) ==
  {<<"-n", s.name>>} \cup PositiveFacts("-c", s.cpus) \cup PositiveFacts("-m", s.memory)
  \cup MountMeanings(s.volume) \cup PairMeanings("-e", s.env) \cup PortMeanings(s.ports)
  \cup SecretMeanings(s.secrets) \cup KeysMeanings(s.keys)

\* What the decoding and the validation of a spec say of its fields.
Accepted(s) ==
  /\ s.name \in Text /\ ValidName(s.name)
  /\ s.image \in Text /\ s.snapshot \in Text /\ (s.image = Empty) # (s.snapshot = Empty)
  /\ s.snapshot # Empty => ValidName(s.snapshot)
  /\ s.cpus \in Nat /\ s.memory \in Nat
  /\ s.volume \in Seq(Mount) /\ \A i \in DOMAIN s.volume : ValidName(s.volume[i].name)
  /\ s.env \in SUBSET (Text \X Text) /\ IsFiniteSet(s.env) /\ \A kv \in s.env : Good(kv[1])
  /\ s.ports \in Seq(PortPair)
  /\ s.secrets \in Seq(Secret) /\ \A i \in DOMAIN s.secrets : ValidSecret(s.secrets[i])
  /\ s.keys \in Seq(Text)

LEMMA AcceptedSpec ==
  ASSUME NEW s \in DecodedSpec, IsFiniteSet(s.env), ValidSpec(s)
  PROVE  Accepted(s)
<1>1. /\ s.name \in Text /\ s.image \in Text /\ s.snapshot \in Text
      /\ s.cpus \in Int /\ s.memory \in Int
      /\ s.volume \in Seq(Mount) /\ s.env \in SUBSET (Text \X Text)
      /\ s.ports \in Seq(PortPair) /\ s.secrets \in Seq(Secret) /\ s.keys \in Seq(Text)
  BY DEF DecodedSpec, Mount, PortPair, Secret
<1>2. /\ ValidName(s.name) /\ (s.image = Empty) # (s.snapshot = Empty)
      /\ s.snapshot # Empty => ValidName(s.snapshot)
      /\ s.cpus >= 0 /\ s.memory >= 0
      /\ \A i \in DOMAIN s.volume : ValidName(s.volume[i].name)
      /\ \A kv \in s.env : ValidEnvKey(kv[1])
      /\ \A i \in DOMAIN s.secrets : ValidSecret(s.secrets[i])
  BY DEF ValidSpec
<1>3. \A kv \in s.env : Good(kv[1])
  <2>1. \A kv \in s.env : kv[1] \in Text
    BY <1>1
  <2> QED BY <1>2, <2>1, EnvKeyShape DEF Good
<1>4. s.cpus \in Nat /\ s.memory \in Nat
  BY <1>1, <1>2
<1> QED BY <1>1, <1>2, <1>3, <1>4 DEF Accepted

LEMMA FieldsPart ==
  ASSUME NumbersPrint, NEW s, Accepted(s), NEW args, NEW c, NEW O, Reads(args, c, Ready(O, <<>>))
  PROVE  Reads(Fields(args, s), c, Ready(O \cup FieldFacts(s), <<>>))
<1> DEFINE P == <<>>
           a1 == args \o Option("-n", s.name)
           a2 == a1 \o Positive("-c", s.cpus)
           a3 == a2 \o Positive("-m", s.memory)
           a4 == a3 \o Mounts(s.volume)
           a5 == a4 \o Pairs("-e", s.env)
           a6 == a5 \o Ports(s.ports)
           a7 == a6 \o Secrets(s.secrets)
           a8 == a7 \o Keys(s.keys)
           O1 == O \cup {<<"-n", s.name>>}
           O2 == O1 \cup PositiveFacts("-c", s.cpus)
           O3 == O2 \cup PositiveFacts("-m", s.memory)
           O4 == O3 \cup MountFacts(s.volume)
           O5 == O4 \cup PairFacts("-e", s.env)
           O6 == O5 \cup PortFacts(s.ports)
           O7 == O6 \cup SecretFacts(s.secrets)
           O8 == O7 \cup KeysFacts(s.keys)
<1>1. {"-n", "-c", "-m", "-e"} \subseteq Options
  BY DEF Options
<1>2. s.name \in Arg /\ ~FlagShaped(s.name)
  BY NameShape, TextShape DEF Accepted
<1>3. s.cpus \in Int /\ s.memory \in Int
  BY DEF Accepted
<1>4. O8 = O \cup FieldFacts(s) /\ a8 = Fields(args, s)
  BY DEF FieldFacts, Fields
<1>5. Reads(args, c, Ready(O, P))
  OBVIOUS
<1> HIDE DEF P
<1>6. Reads(a1, c, Ready(O1, P))
  BY <1>1, <1>2, <1>5, OptionPart
<1> HIDE DEF a1, O1
<1>7. Reads(a2, c, Ready(O2, P))
  BY <1>1, <1>3, <1>6, PositivePart
<1> HIDE DEF a2, O2
<1>8. Reads(a3, c, Ready(O3, P))
  BY <1>1, <1>3, <1>7, PositivePart
<1> HIDE DEF a3, O3
<1>9. Reads(a4, c, Ready(O4, P))
  BY <1>8, MountsPart DEF Accepted
<1> HIDE DEF a4, O4
<1>10. Reads(a5, c, Ready(O5, P))
  BY <1>1, <1>9, PairsPart DEF Accepted
<1> HIDE DEF a5, O5
<1>11. Reads(a6, c, Ready(O6, P))
  BY <1>10, PortsPart DEF Accepted
<1> HIDE DEF a6, O6
<1>12. Reads(a7, c, Ready(O7, P))
  BY <1>11, SecretsPart DEF Accepted
<1> HIDE DEF a7, O7
<1>13. Reads(a8, c, Ready(O8, P))
  BY <1>12, KeysPart DEF Accepted
<1> QED BY <1>4, <1>13 DEF P

LEMMA PlainPositive ==
  ASSUME NEW flag \in Plainly, NEW n, NEW lastAt
  PROVE  Meanings(PositiveFacts(flag, n), lastAt) = PositiveFacts(flag, n)
BY PlainOption, MeaningsOfOne DEF PositiveFacts

LEMMA FieldsMean ==
  ASSUME NumbersPrint, NEW s, Accepted(s), NEW lastAt
  PROVE  Meanings(FieldFacts(s), lastAt) = FieldMeanings(s)
<1>1. {"-n", "-c", "-m"} \subseteq Plainly /\ "-e" \in {"-e", "--label"}
  BY DEF Plainly
<1>2. Meanings({<<"-n", s.name>>}, lastAt) = {<<"-n", s.name>>}
  BY <1>1, PlainOption
<1>3. /\ Meanings(PositiveFacts("-c", s.cpus), lastAt) = PositiveFacts("-c", s.cpus)
      /\ Meanings(PositiveFacts("-m", s.memory), lastAt) = PositiveFacts("-m", s.memory)
  BY <1>1, PlainPositive
<1>4. Meanings(MountFacts(s.volume), lastAt) = MountMeanings(s.volume)
  BY MountsMean DEF Accepted
<1>5. Meanings(PairFacts("-e", s.env), lastAt) = PairMeanings("-e", s.env)
  BY <1>1, PairsMean DEF Accepted
<1>6. Meanings(PortFacts(s.ports), lastAt) = PortMeanings(s.ports)
  BY PortsMean DEF Accepted
<1>7. Meanings(SecretFacts(s.secrets), lastAt) = SecretMeanings(s.secrets)
  BY SecretsMean DEF Accepted
<1>8. Meanings(KeysFacts(s.keys), lastAt) = KeysMeanings(s.keys)
  BY KeysMean DEF Accepted
<1> DEFINE A1 == {<<"-n", s.name>>}
           A2 == A1 \cup PositiveFacts("-c", s.cpus)
           A3 == A2 \cup PositiveFacts("-m", s.memory)
           A4 == A3 \cup MountFacts(s.volume)
           A5 == A4 \cup PairFacts("-e", s.env)
           A6 == A5 \cup PortFacts(s.ports)
           A7 == A6 \cup SecretFacts(s.secrets)
           A8 == A7 \cup KeysFacts(s.keys)
<1>9. FieldFacts(s) = A8
  BY DEF FieldFacts
<1>10. Meanings(A8, lastAt) = Meanings(A7, lastAt) \cup KeysMeanings(s.keys)
  BY <1>8, MeaningsOfUnion
<1> HIDE DEF A8
<1>11. Meanings(A7, lastAt) = Meanings(A6, lastAt) \cup SecretMeanings(s.secrets)
  BY <1>7, MeaningsOfUnion
<1> HIDE DEF A7
<1>12. Meanings(A6, lastAt) = Meanings(A5, lastAt) \cup PortMeanings(s.ports)
  BY <1>6, MeaningsOfUnion
<1> HIDE DEF A6
<1>13. Meanings(A5, lastAt) = Meanings(A4, lastAt) \cup PairMeanings("-e", s.env)
  BY <1>5, MeaningsOfUnion
<1> HIDE DEF A5
<1>14. Meanings(A4, lastAt) = Meanings(A3, lastAt) \cup MountMeanings(s.volume)
  BY <1>4, MeaningsOfUnion
<1> HIDE DEF A4
<1>15. Meanings(A3, lastAt) = Meanings(A2, lastAt) \cup PositiveFacts("-m", s.memory)
  BY <1>3, MeaningsOfUnion
<1> HIDE DEF A3
<1>16. Meanings(A2, lastAt) = A1 \cup PositiveFacts("-c", s.cpus)
  BY <1>2, <1>3, MeaningsOfUnion
<1> HIDE DEF A2
<1> QED BY <1>9, <1>10, <1>11, <1>12, <1>13, <1>14, <1>15, <1>16 DEF FieldMeanings

Source(s) ==
  IF s.snapshot = Empty
    THEN {<<"command", <<"create">>>>, <<"positionals", s.image>>}
    ELSE {<<"command", <<"run">>>>, <<"-d">>, <<"positionals">>, <<"--snapshot", s.snapshot>>}

LEMMA AskedFields ==
  ASSUME NEW s, Accepted(s)
  PROVE  AskedOfCreate(s) = Source(s) \cup FieldMeanings(s)
<1>1. /\ {<<"-c", <<ToString(n)>>>> : n \in {s.cpus} \ {0}} = PositiveFacts("-c", s.cpus)
      /\ {<<"-m", <<ToString(n)>>>> : n \in {s.memory} \ {0}} = PositiveFacts("-m", s.memory)
  <2>1. ASSUME NEW n \in Nat, NEW flag
        PROVE  {<<flag, <<ToString(k)>>>> : k \in {n} \ {0}} = PositiveFacts(flag, n)
    <3> DEFINE f(k) == <<flag, <<ToString(k)>>>>
    <3>1. {n} \ {0} = IF n > 0 THEN {n} ELSE {}
      OBVIOUS
    <3>2. PositiveFacts(flag, n) = IF n > 0 THEN {f(n)} ELSE {}
      BY DEF PositiveFacts
    <3> HIDE DEF f
    <3>3. {f(k) : k \in {n} \ {0}} = PositiveFacts(flag, n)
      BY <3>1, <3>2
    <3> QED BY <3>3 DEF f
  <2> QED BY <2>1 DEF Accepted
<1>2. (IF s.keys = <<>> THEN {} ELSE {<<"keys", s.keys>>}) = KeysMeanings(s.keys)
  BY DEF KeysMeanings
<1>3. AskedOfCreate(s)
        = Source(s) \cup {<<"-n", s.name>>}
            \cup {<<"-c", <<ToString(n)>>>> : n \in {s.cpus} \ {0}}
            \cup {<<"-m", <<ToString(n)>>>> : n \in {s.memory} \ {0}}
            \cup MountMeanings(s.volume) \cup PairMeanings("-e", s.env) \cup PortMeanings(s.ports)
            \cup SecretMeanings(s.secrets) \cup (IF s.keys = <<>> THEN {} ELSE {<<"keys", s.keys>>})
  BY DEF AskedOfCreate, Source, MountMeanings, PairMeanings, PortMeanings, SecretMeanings
<1> HIDE DEF Source
<1> QED BY <1>1, <1>2, <1>3 DEF FieldMeanings

LEMMA CreateRead ==
  ASSUME NumbersPrint, NEW s, Accepted(s), NEW lastAt
  PROVE  Understood(CreateArgs(s), lastAt) = AskedOfCreate(s)
<1> DEFINE F == FieldFacts(s)
           M == FieldMeanings(s)
<1>1. Meanings(F, lastAt) = M /\ AskedOfCreate(s) = Source(s) \cup M
  BY FieldsMean, AskedFields
<1>2. CASE s.snapshot = Empty
  <2> DEFINE c == <<"create">>
             a == <<c>>
             image == s.image
             all == CreateArgs(s)
  <2>1. image \in Arg
    BY TextShape DEF Accepted
  <2>2. all = Fields(a, s) \o Trailing(image)
    <3>1. all = Fields(a, s) \o (IF s.snapshot = Empty THEN Trailing(s.image) ELSE <<>>)
      BY <1>2 DEF CreateArgs, Fields, Mounts, Ports, Secrets, Keys, KeysText, Each
    <3> HIDE DEF all, a
    <3> QED BY <1>2, <3>1
  <2>3. c \in Arg
    <3>1. "create" \in Command
      BY DEF Command
    <3> QED BY <3>1, CommandShape
  <2>4. Source(s) = {<<"command", c>>, <<"positionals", image>>}
    BY <1>2 DEF Source
  <2> HIDE DEF c, image, all, F, M
  <2>5. Reads(a, c, Ready({}, <<>>))
    BY <2>3, FirstPart
  <2> HIDE DEF a
  <2>6. Reads(Fields(a, s), c, Ready(F, <<>>))
    <3>1. Reads(Fields(a, s), c, Ready({} \cup FieldFacts(s), <<>>))
      BY <2>5, FieldsPart
    <3>2. {} \cup FieldFacts(s) = F
      BY DEF F
    <3> QED BY <3>1, <3>2
  <2>7. Reads(all, c, Ended(F, <<image>>))
    BY <2>1, <2>2, <2>6, NamePart
  <2>8. Understood(all, lastAt) = Named(c, image, F, lastAt)
    BY <2>7, NameRead
  <2> QED BY <1>1, <2>4, <2>8 DEF Named, all
<1>3. CASE s.snapshot # Empty
  <2> DEFINE c == <<"run">>
             d == <<"-d">>
             snapshot == s.snapshot
             a0 == <<c>>
             a1 == a0 \o <<d>>
             a2 == a1 \o Option("--snapshot", snapshot)
             all == CreateArgs(s)
             O1 == {} \cup {<<"-d">>}
             O2 == O1 \cup {<<"--snapshot", snapshot>>}
             O3 == O2 \cup F
  <2>1. snapshot \in Arg /\ ~FlagShaped(snapshot)
    BY <1>3, NameShape, TextShape DEF Accepted
  <2>2. a1 = <<c, d>>
    <3> HIDE DEF c, d
    <3> QED BY OneAndOne
  <2>3. all = Fields(a2, s)
    <3> DEFINE b == <<<<"run">>, <<"-d">>>> \o Option("--snapshot", s.snapshot)
    <3>1. all = Fields(b, s) \o <<>>
      BY <1>3 DEF CreateArgs, Fields, Mounts, Ports, Secrets, Keys, KeysText, Each
    <3>2. b = a2
      <4> DEFINE o == Option("--snapshot", s.snapshot)
                 cd == <<c, d>>
      <4>1. b = cd \o o
        OBVIOUS
      <4> HIDE DEF o, cd, a1, b
      <4>2. a1 = cd
        BY <2>2 DEF cd
      <4> QED BY <4>1, <4>2 DEF o
    <3> HIDE DEF b, a2, all
    <3>3. all = Fields(a2, s) \o <<>>
      BY <3>1, <3>2
    <3>4. Fields(a2, s) \o <<>> = Fields(a2, s)
      <4>1. Reads(a2, c, Ready(O2, <<>>))
        <5>1. c \in Arg /\ "-d" \in Switches /\ "--snapshot" \in Options
          <6>1. "run" \in Command
            BY DEF Command
          <6> QED BY <6>1, CommandShape DEF Switches, Options
        <5>2. Reads(a0, c, Ready({}, <<>>))
          BY <5>1, FirstPart
        <5> HIDE DEF a0, c
        <5>3. Reads(a1, c, Ready(O1, <<>>))
          BY <5>1, <5>2, SwitchPart
        <5> HIDE DEF a1, O1
        <5> QED BY <2>1, <5>1, <5>3, OptionPart DEF a2
      <4> HIDE DEF O2, c
      <4>2. Reads(Fields(a2, s), c, Ready(O2 \cup FieldFacts(s), <<>>))
        BY <4>1, FieldsPart
      <4> QED BY <4>2, ConcatEmptySeq DEF Reads
    <3> QED BY <3>3, <3>4
  <2>4. Source(s) = {<<"command", c>>, <<"positionals">>} \cup {<<"-d">>, <<"--snapshot", snapshot>>}
    BY <1>3 DEF Source
  <2>5. c \in Arg /\ "-d" \in Switches /\ "--snapshot" \in Options /\ "--snapshot" \in Plainly
    <3>1. "run" \in Command
      BY DEF Command
    <3> QED BY <3>1, CommandShape DEF Switches, Options, Plainly
  <2> HIDE DEF all, F, M, snapshot
  <2>6. Reads(a0, c, Ready({}, <<>>))
    BY <2>5, FirstPart
  <2> HIDE DEF a0, c
  <2>7. Reads(a1, c, Ready(O1, <<>>))
    BY <2>5, <2>6, SwitchPart
  <2> HIDE DEF a1, O1
  <2>8. Reads(a2, c, Ready(O2, <<>>))
    BY <2>1, <2>5, <2>7, OptionPart
  <2> HIDE DEF a2, O2
  <2>9. Reads(all, c, Ready(O3, <<>>))
    BY <2>3, <2>8, FieldsPart DEF F
  <2> HIDE DEF O3
  <2>10. Understood(all, lastAt) = Heard(c, <<>>, O3, lastAt)
    BY <2>9, ReadyRead
  <2>11. Positionals(<<>>) = <<"positionals">>
    <3> DEFINE p == <<"positionals">>
    <3>1. p \in Seq({"positionals"})
      OBVIOUS
    <3>2. Positionals(<<>>) = p \o <<>>
      BY DEF Positionals
    <3> HIDE DEF p
    <3>3. p \o <<>> = p
      BY <3>1, ConcatEmptySeq
    <3> QED BY <3>2, <3>3 DEF p
  <2>12. Meanings(O3, lastAt) = {<<"-d">>, <<"--snapshot", snapshot>>} \cup M
    <3>1. Meanings(O1, lastAt) = {<<"-d">>}
      <4> DEFINE o == <<"-d">>
      <4>1. o[1] \in Plainly
        BY DEF Plainly
      <4>2. O1 = {o}
        BY DEF O1
      <4> HIDE DEF o
      <4>3. Meanings({o}, lastAt) = {o}
        BY <4>1, PlainMeaning, MeaningsOfOne
      <4> QED BY <4>2, <4>3 DEF o
    <3>2. Meanings({<<"--snapshot", snapshot>>}, lastAt) = {<<"--snapshot", snapshot>>}
      BY <2>5, PlainOption
    <3> DEFINE o == <<"--snapshot", snapshot>>
    <3>3. Meanings(O2, lastAt) = Meanings(O1, lastAt) \cup Meanings({o}, lastAt)
      BY MeaningsOfUnion DEF O2
    <3>4. Meanings(O3, lastAt) = Meanings(O2, lastAt) \cup Meanings(F, lastAt)
      BY MeaningsOfUnion DEF O3
    <3> HIDE DEF o
    <3>5. Meanings(O3, lastAt) = ({<<"-d">>} \cup {o}) \cup M
      BY <1>1, <3>1, <3>2, <3>3, <3>4 DEF o
    <3> QED BY <3>5 DEF o
  <2> QED BY <1>1, <2>4, <2>10, <2>11, <2>12 DEF Heard, all
<1> QED BY <1>2, <1>3
-----------------------------------------------------------------------------
(* The requests, whichever they are.                                         *)

LEMMA Kinds ==
  ASSUME NEW q \in Requests
  PROVE  Decoded(q) /\ q.op \in WithBody \cup OneName \cup {"logs"}
<1>1. Decoded(q)
  BY CommandLineAssumption
<1>2. CASE q.op \in WithBody \cup {"logs"}
  BY <1>1, <1>2
<1>3. CASE q.op \notin WithBody \cup {"logs"}
  <2>1. q.op \notin {"create", "exec", "logs", "snapshot-create", "volume-create"}
    BY <1>3 DEF WithBody
  <2>2. q.op \in OneName
    BY <1>1, <2>1 DEF Decoded
  <2> QED BY <1>1, <2>2
<1> QED BY <1>2, <1>3

LEMMA OneNameIsText ==
  ASSUME NEW q, Decoded(q), q.op \in OneName
  PROVE  q.name \in Text
<1>1. q.op \notin {"create", "exec", "logs", "snapshot-create", "volume-create"}
  BY DEF OneName
<1> QED BY <1>1 DEF Decoded

LEMMA CreateShape ==
  ASSUME NEW q, q.op = "create", Decoded(q), Valid(q)
  PROVE  Accepted(q.spec) /\ Argv(q) = CreateArgs(q.spec) /\ Asked(q) = AskedOfCreate(q.spec)
<1>1. q.spec \in DecodedSpec /\ IsFiniteSet(q.spec.env)
  BY DEF Decoded
<1>2. ValidSpec(q.spec)
  BY DEF Valid, OneName
<1>3. Argv(q) = CreateArgs(q.spec) /\ Asked(q) = AskedOfCreate(q.spec)
  BY DEF Argv, Asked, OneName
<1> QED BY <1>1, <1>2, <1>3, AcceptedSpec

LEMMA RequestRead ==
  ASSUME NumbersPrint, NEW q \in Requests, Valid(q), ~(q.op = "logs" /\ q.tail = ZeroTail), NEW lastAt
  PROVE  Understood(Argv(q), lastAt) = Asked(q)
<1>1. Decoded(q) /\ q.op \in WithBody \cup OneName \cup {"logs"}
  BY Kinds
<1>2. CASE q.op = "create"
  BY <1>1, <1>2, CreateShape, CreateRead
<1>3. CASE q.op = "exec"
  BY <1>1, <1>3, ExecRead
<1>4. CASE q.op = "logs"
  BY <1>1, <1>4, LogsRead
<1>5. CASE q.op = "snapshot-create"
  BY <1>1, <1>5, SnapshotCreateRead
<1>6. CASE q.op = "volume-create"
  BY <1>1, <1>6, VolumeCreateRead
<1>7. CASE q.op \in OneName
  BY <1>1, <1>7, OneNameIsText, OneNameRead
<1> QED BY <1>1, <1>2, <1>3, <1>4, <1>5, <1>6, <1>7 DEF WithBody

-----------------------------------------------------------------------------
(* The states of a request.                                                  *)

\* The command line that runs is that of the request that was sent, whole and
\* valid: a body that was cut has been refused.
IInv ==
  /\ pc \in {"idle", "decoded", "refused", "run", "shown"}
  /\ pc = "decoded" => sent \in Requests /\ request = sent
  /\ pc \in {"run", "shown"} =>
       /\ sent \in Requests /\ request = sent /\ Valid(sent)
       /\ argv = Argv(sent)
       /\ claimed = IF sent.op = "create" THEN VolumesFromSpec(sent.spec) ELSE {}
       /\ \E lastAt \in BOOLEAN : box = Understood(argv, lastAt)
  /\ pc # "shown" => shown = {}
  /\ pc = "shown" => sent.op = "create" /\ shown = {NewSandboxDetail(ParseInspect(MsbInspect(box)))}

LEMMA Received ==
  ASSUME IInv, Receive
  PROVE  IInv'
<1> DEFINE Sizes(q) == IF HasBody(q) THEN BodyLimit .. BodyLimit + 2 ELSE {0}
<1>1. PICK q \in Requests : \E n \in Sizes(q) :
        /\ sent' = q
        /\ request' = IF n > ReadOf(n) THEN Cut(q) ELSE q
        /\ pc' = IF HasBody(q) /\ ReadOf(n) > BodyLimit THEN "refused" ELSE "decoded"
  BY DEF Receive
<1>2. PICK n \in Sizes(q) :
        /\ sent' = q
        /\ request' = IF n > ReadOf(n) THEN Cut(q) ELSE q
        /\ pc' = IF HasBody(q) /\ ReadOf(n) > BodyLimit THEN "refused" ELSE "decoded"
  BY <1>1
<1>3. BodyLimit \in Nat
  BY CommandLineAssumption
<1>4. shown = {} /\ shown' = {}
  BY DEF IInv, Receive
<1>5. pc' \in {"refused", "decoded"}
  BY <1>2
<1>6. ASSUME pc' = "decoded" PROVE request' = q
  <2>1. ~(HasBody(q) /\ ReadOf(n) > BodyLimit)
    BY <1>2, <1>6
  <2>2. CASE HasBody(q)
    <3>1. n \in Nat /\ ReadOf(n) <= BodyLimit
      BY <1>3, <2>1, <2>2 DEF ReadOf
    <3>2. ~(n > ReadOf(n))
      BY <1>3, <3>1 DEF ReadOf
    <3> QED BY <1>2, <3>2
  <2>3. CASE ~HasBody(q)
    <3>1. n = 0
      BY <2>3
    <3>2. ~(n > ReadOf(n))
      BY <1>3, <3>1 DEF ReadOf
    <3> QED BY <1>2, <3>2
  <2> QED BY <2>2, <2>3
<1> QED BY <1>2, <1>4, <1>5, <1>6 DEF IInv

LEMMA Ran ==
  ASSUME IInv, Run
  PROVE  IInv'
<1>1. sent \in Requests /\ request = sent /\ Valid(sent) /\ shown = {}
  BY DEF IInv, Run
<1>2. sent' = sent /\ request' = request /\ shown' = shown /\ pc' = "run" /\ argv' = Argv(sent)
  BY <1>1 DEF Run
<1>3. claimed' = IF sent.op = "create" THEN VolumesFromSpec(sent.spec) ELSE {}
  BY <1>1 DEF Run
<1>4. \E lastAt \in BOOLEAN : box' = Understood(argv', lastAt)
  BY DEF Run
<1> QED BY <1>1, <1>2, <1>3, <1>4 DEF IInv

LEMMA Shown ==
  ASSUME IInv, Show
  PROVE  IInv'
<1>1. /\ sent \in Requests /\ request = sent /\ Valid(sent)
      /\ argv = Argv(sent)
      /\ claimed = IF sent.op = "create" THEN VolumesFromSpec(sent.spec) ELSE {}
      /\ \E lastAt \in BOOLEAN : box = Understood(argv, lastAt)
  BY DEF IInv, Show
<1>2. /\ sent' = sent /\ request' = request /\ argv' = argv /\ claimed' = claimed /\ box' = box
      /\ pc' = "shown" /\ sent.op = "create"
      /\ shown' = {NewSandboxDetail(ParseInspect(MsbInspect(box)))}
  BY <1>1 DEF Show
<1> QED BY <1>1, <1>2 DEF IInv

LEMMA Inductive == Spec => []IInv
<1>1. Init => IInv
  BY DEF Init, IInv
<1>2. IInv /\ [Next]_vars => IInv'
  <2> SUFFICES ASSUME IInv, [Next]_vars PROVE IInv'
    OBVIOUS
  <2>1. CASE Receive
    BY <2>1, Received
  <2>2. CASE Refuse
    BY <2>2 DEF Refuse, IInv
  <2>3. CASE Run
    BY <2>3, Ran
  <2>4. CASE Show
    BY <2>4, Shown
  <2>5. CASE Again
    BY <2>5 DEF Again, IInv
  <2>6. CASE UNCHANGED vars
    BY <2>6 DEF vars, IInv
  <2> QED BY <2>1, <2>2, <2>3, <2>4, <2>5, <2>6 DEF Next
<1> QED BY <1>1, <1>2, PTL DEF Spec

\* A name that slips past validation is still read as a name: for every text a
\* client can put there, of any length (Client.Start and the other commands of one
\* name).
THEOREM NamesStayNames == Spec => []TerminatorHolds
<1>1. IInv => TerminatorHolds
  BY Kinds, OneNameIsText, OneNameRead DEF IInv, TerminatorHolds
<1> QED BY <1>1, Inductive, PTL

\* msb does what the client asked, all of it and nothing else, for requests with any
\* number of volumes, variables, ports, secrets, keys and labels, of any length,
\* whichever "@" it splits a secret at (spec.Validate, buildCreateArgs,
\* shellSingleQuote), if a number does not look like a flag when it is printed.
THEOREM RequestsAreRead ==
  ASSUME NumbersPrint
  PROVE  Spec => []MsbReadsTheRequest
<1>1. IInv => MsbReadsTheRequest
  BY RequestRead DEF IInv, MsbReadsTheRequest, ZeroTail
<1> QED BY <1>1, Inductive, PTL

-----------------------------------------------------------------------------
(* What is shown of the sandbox.                                             *)

Tagged(X, flags) == \A f \in X : f[1] \in flags

LEMMA OfTagged ==
  ASSUME NEW X, NEW flags, Tagged(X, flags), NEW flag
  PROVE  (flag \notin flags => Of(flag, X) = {}) /\ (flags = {flag} => Of(flag, X) = X)
BY DEF Tagged, Of

LEMMA OfUnion == ASSUME NEW X, NEW Y, NEW flag PROVE Of(flag, X \cup Y) = Of(flag, X) \cup Of(flag, Y)
BY DEF Of

LEMMA PairFact ==
  ASSUME NEW flag, NEW kv \in Text \X Text
  PROVE  (<<flag>> \o kv)[1] = flag /\ Tail(<<flag>> \o kv) = kv
<1> DEFINE a == kv[1]
           b == kv[2]
           t == <<flag, a, b>>
<1>1. kv = <<a, b>>
  OBVIOUS
<1>2. <<flag>> \o <<a, b>> = t
  BY OneAndTwo
<1>3. t[1] = flag
  OBVIOUS
<1>4. Tail(t) = <<a, b>>
  <2> HIDE DEF a, b
  <2> QED OBVIOUS
<1> HIDE DEF t, a, b
<1> QED BY <1>1, <1>2, <1>3, <1>4

LEMMA Tags ==
  ASSUME NEW s, Accepted(s)
  PROVE  /\ Tagged({<<"-n", s.name>>}, {"-n"})
         /\ Tagged(PositiveFacts("-c", s.cpus), {"-c"}) /\ Tagged(PositiveFacts("-m", s.memory), {"-m"})
         /\ Tagged(MountMeanings(s.volume), {"-v"})
         /\ Tagged(PairMeanings("-e", s.env), {"-e"})
         /\ Tagged(PortMeanings(s.ports), {"-p"})
         /\ Tagged(SecretMeanings(s.secrets), {"--secret"})
         /\ Tagged(KeysMeanings(s.keys), {"keys"})
<1>1. \A a, b : <<a, b>>[1] = a
  OBVIOUS
<1>2. \A a, b, d : <<a, b, d>>[1] = a
  OBVIOUS
<1>3. \A a, b, d, e : <<a, b, d, e>>[1] = a
  OBVIOUS
<1>4. Tagged({<<"-n", s.name>>}, {"-n"})
  BY <1>1 DEF Tagged
<1>5. Tagged(PositiveFacts("-c", s.cpus), {"-c"}) /\ Tagged(PositiveFacts("-m", s.memory), {"-m"})
  BY <1>1 DEF Tagged, PositiveFacts
<1>6. Tagged(MountMeanings(s.volume), {"-v"})
  BY <1>2 DEF Tagged, MountMeanings
<1>7. Tagged(PairMeanings("-e", s.env), {"-e"})
  <2>1. \A kv \in s.env : kv \in Text \X Text
    BY DEF Accepted
  <2> QED BY <2>1, PairFact DEF Tagged, PairMeanings
<1>8. Tagged(PortMeanings(s.ports), {"-p"})
  BY <1>2 DEF Tagged, PortMeanings
<1>9. Tagged(SecretMeanings(s.secrets), {"--secret"})
  BY <1>3 DEF Tagged, SecretMeanings
<1>10. Tagged(KeysMeanings(s.keys), {"keys"})
  BY <1>1 DEF Tagged, KeysMeanings
<1> QED BY <1>4, <1>5, <1>6, <1>7, <1>8, <1>9, <1>10

LEMMA SourceFacts ==
  ASSUME NEW s, Accepted(s)
  PROVE  /\ Of("-n", Source(s)) = {} /\ Of("-v", Source(s)) = {} /\ Of("-e", Source(s)) = {}
         /\ s.image # Empty => Of("positionals", Source(s)) = {<<"positionals", s.image>>}
<1>1. \A a, b : <<a, b>>[1] = a
  OBVIOUS
<1>2. \A a : <<a>>[1] = a
  OBVIOUS
<1>3. Tagged(Source(s), {"command", "positionals", "-d", "--snapshot"})
  <2>1. CASE s.snapshot = Empty
    <3> DEFINE x == <<"command", <<"create">>>>
               y == <<"positionals", s.image>>
    <3>1. Source(s) = {x, y}
      BY <2>1 DEF Source
    <3>2. x[1] = "command" /\ y[1] = "positionals"
      BY <1>1
    <3> HIDE DEF x, y
    <3> QED BY <3>1, <3>2 DEF Tagged
  <2>2. CASE s.snapshot # Empty
    <3> DEFINE x == <<"command", <<"run">>>>
               y == <<"positionals">>
               z == <<"-d">>
               w == <<"--snapshot", s.snapshot>>
    <3>1. Source(s) = {x, z, y, w}
      BY <2>2 DEF Source
    <3>2. x[1] = "command" /\ y[1] = "positionals" /\ z[1] = "-d" /\ w[1] = "--snapshot"
      BY <1>1, <1>2
    <3> HIDE DEF x, y, z, w
    <3> QED BY <3>1, <3>2 DEF Tagged
  <2> QED BY <2>1, <2>2
<1>4. ASSUME s.image # Empty PROVE Of("positionals", Source(s)) = {<<"positionals", s.image>>}
  <2> DEFINE x == <<"command", <<"create">>>>
             y == <<"positionals", s.image>>
  <2>1. s.snapshot = Empty
    BY <1>4 DEF Accepted
  <2>2. Source(s) = {x, y}
    BY <2>1 DEF Source
  <2>3. x[1] = "command" /\ y[1] = "positionals"
    BY <1>1
  <2> HIDE DEF x, y
  <2>4. Of("positionals", Source(s)) = {y}
    BY <2>2, <2>3 DEF Of
  <2> QED BY <2>4 DEF y
<1>5. /\ "-n" \notin {"command", "positionals", "-d", "--snapshot"}
      /\ "-v" \notin {"command", "positionals", "-d", "--snapshot"}
      /\ "-e" \notin {"command", "positionals", "-d", "--snapshot"}
  OBVIOUS
<1> QED BY <1>3, <1>4, <1>5, OfTagged

\* The facts that msb inspect is made from.
LEMMA FactsOf ==
  ASSUME NEW s, Accepted(s)
  PROVE  /\ Of("-n", AskedOfCreate(s)) = {<<"-n", s.name>>}
         /\ Of("-v", AskedOfCreate(s)) = MountMeanings(s.volume)
         /\ Of("-e", AskedOfCreate(s)) = PairMeanings("-e", s.env)
         /\ s.image # Empty => Of("positionals", AskedOfCreate(s)) = {<<"positionals", s.image>>}
<1> DEFINE N == {<<"-n", s.name>>}
           C == PositiveFacts("-c", s.cpus)
           M == PositiveFacts("-m", s.memory)
           V == MountMeanings(s.volume)
           E == PairMeanings("-e", s.env)
           P == PortMeanings(s.ports)
           S == SecretMeanings(s.secrets)
           K == KeysMeanings(s.keys)
           B == Source(s)
<1>1. /\ Tagged(N, {"-n"}) /\ Tagged(C, {"-c"}) /\ Tagged(M, {"-m"}) /\ Tagged(V, {"-v"})
      /\ Tagged(E, {"-e"}) /\ Tagged(P, {"-p"}) /\ Tagged(S, {"--secret"}) /\ Tagged(K, {"keys"})
  BY Tags
<1>2. AskedOfCreate(s) = B \cup (N \cup C \cup M \cup V \cup E \cup P \cup S \cup K)
  BY AskedFields DEF FieldMeanings
<1>3. /\ Of("-n", B) = {} /\ Of("-v", B) = {} /\ Of("-e", B) = {}
      /\ s.image # Empty => Of("positionals", B) = {<<"positionals", s.image>>}
  BY SourceFacts
<1>4. SUFFICES /\ Of("-n", AskedOfCreate(s)) = N
               /\ Of("-v", AskedOfCreate(s)) = V
               /\ Of("-e", AskedOfCreate(s)) = E
               /\ s.image # Empty => Of("positionals", AskedOfCreate(s)) = {<<"positionals", s.image>>}
  OBVIOUS
<1> HIDE DEF N, C, M, V, E, P, S, K, B
<1>5. \A flag : Of(flag, AskedOfCreate(s))
        = Of(flag, B) \cup Of(flag, N) \cup Of(flag, C) \cup Of(flag, M) \cup Of(flag, V)
            \cup Of(flag, E) \cup Of(flag, P) \cup Of(flag, S) \cup Of(flag, K)
  BY <1>2 DEF Of
<1>6. Of("-n", AskedOfCreate(s)) = N
  <2>1. /\ Of("-n", N) = N /\ Of("-n", C) = {} /\ Of("-n", M) = {} /\ Of("-n", V) = {}
        /\ Of("-n", E) = {} /\ Of("-n", P) = {} /\ Of("-n", S) = {} /\ Of("-n", K) = {}
    BY <1>1 DEF Of, Tagged
  <2> QED BY <1>3, <1>5, <2>1
<1>7. Of("-v", AskedOfCreate(s)) = V
  <2>1. /\ Of("-v", N) = {} /\ Of("-v", C) = {} /\ Of("-v", M) = {} /\ Of("-v", V) = V
        /\ Of("-v", E) = {} /\ Of("-v", P) = {} /\ Of("-v", S) = {} /\ Of("-v", K) = {}
    BY <1>1 DEF Of, Tagged
  <2> QED BY <1>3, <1>5, <2>1
<1>8. Of("-e", AskedOfCreate(s)) = E
  <2>1. /\ Of("-e", N) = {} /\ Of("-e", C) = {} /\ Of("-e", M) = {} /\ Of("-e", V) = {}
        /\ Of("-e", E) = E /\ Of("-e", P) = {} /\ Of("-e", S) = {} /\ Of("-e", K) = {}
    BY <1>1 DEF Of, Tagged
  <2> QED BY <1>3, <1>5, <2>1
<1>9. s.image # Empty => Of("positionals", AskedOfCreate(s)) = {<<"positionals", s.image>>}
  <2> DEFINE f == "positionals"
  <2>1. /\ Of(f, N) = {} /\ Of(f, C) = {} /\ Of(f, M) = {} /\ Of(f, V) = {}
        /\ Of(f, E) = {} /\ Of(f, P) = {} /\ Of(f, S) = {} /\ Of(f, K) = {}
    BY <1>1 DEF Of, Tagged
  <2>2. Of(f, AskedOfCreate(s)) = Of(f, B)
    <3> HIDE DEF f
    <3> QED BY <1>5, <2>1
  <2> QED BY <1>3, <2>2
<1> QED BY <1>6, <1>7, <1>8, <1>9

\* What GET shows of a sandbox made of a spec.
Detail(s) == NewSandboxDetail(ParseInspect(MsbInspect(AskedOfCreate(s))))
NamedMount(n, g) == [type |-> "Named", name |-> n, guest |-> g]

LEMMA DetailOf ==
  ASSUME NEW s, Accepted(s)
  PROVE  /\ Detail(s).name = s.name
         /\ s.image # Empty => Detail(s).image = s.image
         /\ Detail(s).env = s.env \cup {OwnEnv}
         /\ Detail(s).mounts = {TmpMount} \cup {NamedMount(v.name, v.mount) : v \in ToSet(s.volume)}
<1> DEFINE facts == AskedOfCreate(s)
           name == CHOOSE n \in {f[2] : f \in Of("-n", facts)} : TRUE
           image == CHOOSE t \in {Append(f, <<"base">>)[2] : f \in Of("positionals", facts)} : TRUE
           env == {OwnEnv} \cup {Tail(f) : f \in Of("-e", facts)}
           mounts == {TmpMount} \cup {NamedMount(f[2], f[3]) : f \in Of("-v", facts)}
<1>1. /\ Detail(s).name = name /\ Detail(s).image = image
      /\ Detail(s).env = {kv \in env : Len(kv) = 2} /\ Detail(s).mounts = mounts
  BY DEF Detail, NewSandboxDetail, ParseInspect, MsbInspect, NamedMount
<1>2. name = s.name
  <2>1. <<"-n", s.name>>[2] = s.name
    OBVIOUS
  <2>2. {f[2] : f \in Of("-n", facts)} = {s.name}
    BY <2>1, FactsOf
  <2> QED BY <2>2
<1>3. ASSUME s.image # Empty PROVE image = s.image
  <2> DEFINE p == "positionals"
             t == s.image
             b == <<"base">>
  <2>1. Append(<<p, t>>, b)[2] = t
    <3> HIDE DEF p, t, b
    <3> QED OBVIOUS
  <2>2. Of(p, facts) = {<<p, t>>}
    BY <1>3, FactsOf
  <2> DEFINE I == {Append(f, b)[2] : f \in Of(p, facts)}
  <2>3. image = CHOOSE x \in I : TRUE
    OBVIOUS
  <2>4. I = {t}
    <3> HIDE DEF p, t, b, facts
    <3> QED BY <2>1, <2>2
  <2> HIDE DEF I, image
  <2> QED BY <2>3, <2>4
<1>4. {kv \in env : Len(kv) = 2} = s.env \cup {OwnEnv}
  <2>1. \A kv \in s.env : kv \in Text \X Text
    BY DEF Accepted
  <2>2. {Tail(f) : f \in Of("-e", facts)} = s.env
    <3> DEFINE fact(kv) == <<"-e">> \o kv
               rest(f) == Tail(f)
    <3>1. \A kv \in s.env : rest(fact(kv)) = kv
      BY <2>1, PairFact
    <3>2. Of("-e", facts) = {fact(kv) : kv \in s.env}
      BY FactsOf DEF PairMeanings
    <3> HIDE DEF facts, fact, rest
    <3>3. {rest(f) : f \in Of("-e", facts)} = s.env
      BY <3>1, <3>2
    <3> QED BY <3>3 DEF rest
  <2>3. \A kv \in s.env : Len(kv) = 2
    <3>1. \A a, b : Len(<<a, b>>) = 2
      OBVIOUS
    <3>2. \A kv \in s.env : kv = <<kv[1], kv[2]>>
      BY <2>1
    <3> QED BY <3>1, <3>2
  <2>4. Len(OwnEnv) = 2
    BY DEF OwnEnv
  <2> QED BY <2>2, <2>3, <2>4
<1>5. mounts = {TmpMount} \cup {NamedMount(v.name, v.mount) : v \in ToSet(s.volume)}
  <2> DEFINE fact(v) == <<"-v", v.name, v.mount>>
  <2>1. \A v : fact(v)[2] = v.name /\ fact(v)[3] = v.mount
    OBVIOUS
  <2>2. Of("-v", facts) = {fact(v) : v \in ToSet(s.volume)}
    BY FactsOf DEF MountMeanings
  <2> HIDE DEF facts, fact
  <2> QED BY <2>1, <2>2
<1> HIDE DEF name, image, env, mounts
<1> QED BY <1>1, <1>2, <1>3, <1>4, <1>5

\* Only a create is shown, and what is shown of it is what GET shows of its spec.
LEMMA ShownDetail ==
  ASSUME NumbersPrint, IInv, NEW d \in shown
  PROVE  /\ Accepted(sent.spec) /\ d = Detail(sent.spec)
         /\ claimed = VolumesFromSpec(sent.spec)
<1>1. pc = "shown" /\ sent.op = "create" /\ shown = {NewSandboxDetail(ParseInspect(MsbInspect(box)))}
  BY DEF IInv
<1>2. /\ sent \in Requests /\ Valid(sent) /\ argv = Argv(sent)
      /\ claimed = VolumesFromSpec(sent.spec)
      /\ \E lastAt \in BOOLEAN : box = Understood(argv, lastAt)
  BY <1>1 DEF IInv
<1>3. Accepted(sent.spec) /\ Asked(sent) = AskedOfCreate(sent.spec)
  BY <1>1, <1>2, Kinds, CreateShape
<1>4. box = AskedOfCreate(sent.spec)
  BY <1>1, <1>2, <1>3, RequestRead
<1> QED BY <1>1, <1>2, <1>3, <1>4 DEF Detail

\* The volumes that a create claims are those that a later start, or the reconcile
\* after a restart, finds by inspecting the sandbox (volumesFromSpec,
\* SandboxDetail.VolumeNames), for any spec that validation accepts.
THEOREM ClaimedIsMounted ==
  ASSUME NumbersPrint
  PROVE  Spec => []ClaimsAreTheMounts
<1>1. IInv => ClaimsAreTheMounts
  <2> SUFFICES ASSUME IInv, NEW d \in shown PROVE claimed = VolumeNames(d)
    BY DEF ClaimsAreTheMounts
  <2> DEFINE vs == ToSet(sent.spec.volume)
             named == {NamedMount(v.name, v.mount) : v \in vs}
  <2>1. Accepted(sent.spec) /\ claimed = {v.name : v \in vs} /\ d.mounts = {TmpMount} \cup named
    BY ShownDetail, DetailOf DEF VolumesFromSpec
  <2>2. \A v \in vs : v.name # Empty
    <3>1. \A v \in vs : v \in Mount /\ ValidName(v.name)
      BY <2>1 DEF Accepted, ToSet
    <3>2. \A v \in vs : v.name \in Text
      BY <3>1 DEF Mount
    <3> QED BY <3>1, <3>2, NameShape
  <2>3. TmpMount.name = Empty
    BY DEF TmpMount
  <2>4. \A v \in vs : /\ NamedMount(v.name, v.mount).type = "Named"
                      /\ NamedMount(v.name, v.mount).name = v.name
    BY DEF NamedMount
  <2> HIDE DEF vs
  <2> QED BY <2>1, <2>2, <2>3, <2>4 DEF VolumeNames
<1> QED BY <1>1, Inductive, PTL

\* GET shows of a sandbox what its spec says in public and, of the environment and
\* the mounts, nothing else: no secret is among them (parseInspect, NewSandboxDetail).
THEOREM PublicIsAsAsked ==
  ASSUME NumbersPrint
  PROVE  Spec => []ShownAsAsked
<1>1. IInv => ShownAsAsked
  <2> SUFFICES ASSUME IInv, NEW d \in shown
               PROVE  /\ d.name = sent.spec.name
                      /\ sent.spec.image # Empty => d.image = sent.spec.image
                      /\ d.env = sent.spec.env \cup {OwnEnv}
                      /\ {<<m.name, m.guest>> : m \in d.mounts \ {TmpMount}}
                           = {<<v.name, v.mount>> : v \in ToSet(sent.spec.volume)}
    BY DEF ShownAsAsked
  <2> DEFINE vs == ToSet(sent.spec.volume)
             named == {NamedMount(v.name, v.mount) : v \in vs}
  <2>1. /\ d.name = sent.spec.name
        /\ sent.spec.image # Empty => d.image = sent.spec.image
        /\ d.env = sent.spec.env \cup {OwnEnv}
        /\ d.mounts = {TmpMount} \cup named
    BY ShownDetail, DetailOf
  <2>2. \A v \in vs : /\ NamedMount(v.name, v.mount).name = v.name
                      /\ NamedMount(v.name, v.mount).guest = v.mount
                      /\ NamedMount(v.name, v.mount) # TmpMount
    BY DEF NamedMount, TmpMount
  <2> HIDE DEF vs
  <2>3. d.mounts \ {TmpMount} = named
    BY <2>1, <2>2
  <2>4. {<<m.name, m.guest>> : m \in named} = {<<v.name, v.mount>> : v \in vs}
    BY <2>2
  <2> QED BY <2>1, <2>3, <2>4 DEF vs
<1> QED BY <1>1, Inductive, PTL
=============================================================================
