---------------------------- MODULE MsbctlProofs ----------------------------
(***************************************************************************)
(* Where msbctl sends a request and what its exit code says of it, for any   *)
(* command lines, environments and configuration files.                      *)
(***************************************************************************)
EXTENDS Msbctl, SequenceTheorems, WellFoundedInduction, TLAPS

-----------------------------------------------------------------------------
(* Induction, folds and joined sequences of any length.                      *)

\* A set of numbers has a least one.
LEMMA Least ==
  ASSUME NEW I, I \subseteq Nat, I # {}
  PROVE  \E m \in I : m = Min(I) /\ \A y \in I : m <= y
<1> DEFINE R == OpToRel(<, Nat)
<1>1. IsWellFoundedOn(R, Nat)
  BY NatLessThanWellFounded
<1>2. \A m, n \in Nat : m < n => <<m, n>> \in R
  BY DEF OpToRel
<1> HIDE DEF R
<1>3. PICK m \in I : \A n \in I : <<n, m>> \notin R
  BY <1>1, WFMin
<1>4. ASSUME NEW y \in I PROVE m <= y
  <2>1. y \in Nat /\ m \in Nat /\ ~(y < m)
    BY <1>2, <1>3
  <2> QED BY <2>1
<1>5. \A x \in I : (\A y \in I : x <= y) => x = m
  BY <1>4
<1> QED BY <1>4, <1>5 DEF Min

\* What holds of 0, and of n + 1 when it holds of n, holds of every number.
LEMMA Induct ==
  ASSUME NEW T, 0 \in T, \A n \in Nat : n \in T => n + 1 \in T
  PROVE  \A n \in Nat : n \in T
<1> DEFINE U == {n \in Nat : n \notin T}
<1>1. SUFFICES ASSUME U # {} PROVE FALSE
  OBVIOUS
<1>2. U \subseteq Nat
  OBVIOUS
<1>3. PICK m \in U : \A y \in U : m <= y
  BY <1>1, <1>2, Least
<1>4. m \in Nat /\ m # 0
  OBVIOUS
<1>5. m - 1 \in Nat /\ (m - 1) + 1 = m /\ ~(m <= m - 1)
  BY <1>4
<1>6. m - 1 \in T
  BY <1>3, <1>5
<1> QED BY <1>5, <1>6

LEMMA MaxUpTo == ASSUME NEW n \in Nat, NEW t, t \subseteq 1 .. n + 1, n + 1 \in t PROVE Max(t) = n + 1
<1>1. \A y \in t : n + 1 >= y
  OBVIOUS
<1>2. \A x \in t : (\A y \in t : x >= y) => x = n + 1
  OBVIOUS
<1> QED BY <1>1, <1>2 DEF Max

LEMMA MaxBelow ==
  ASSUME NEW n \in Nat, NEW t, t \subseteq 1 .. n, t # {}
  PROVE  Max(t) \in t
<1> DEFINE T == {k \in Nat : \A u : u \subseteq 1 .. k /\ u # {} => Max(u) \in u}
<1>1. 0 \in T
  OBVIOUS
<1>2. ASSUME NEW k \in Nat, k \in T PROVE k + 1 \in T
  <2> SUFFICES ASSUME NEW u, u \subseteq 1 .. k + 1, u # {} PROVE Max(u) \in u
    OBVIOUS
  <2>1. CASE k + 1 \in u
    BY <2>1, MaxUpTo
  <2>2. CASE k + 1 \notin u
    <3>1. u \subseteq 1 .. k
      BY <2>2
    <3> QED BY <1>2, <3>1
  <2> QED BY <2>1, <2>2
<1> HIDE DEF T
<1>3. n \in T
  BY <1>1, <1>2, Induct
<1> QED BY <1>3 DEF T

\* parseFlags' loop, argument by argument.
Step(fs, r, a) == ParseArg(fs, r, a)

Recursion(fs, s, n, g) ==
  g = [t \in SUBSET (1 .. n) |-> IF t = {} THEN NoArgs ELSE Step(fs, g[t \ {Max(t)}], s[Max(t)])]

LEMMA FoldIs ==
  ASSUME NEW fs, NEW s, NEW n, DOMAIN s = 1 .. n
  PROVE  ParseAll(fs, s) = (CHOOSE g : Recursion(fs, s, n, g))[1 .. n]
BY DEF ParseAll, Step, FoldLeft, MapThenFoldSet, Recursion

\* A fold's recursion has a solution.
LEMMA RecursionExists ==
  ASSUME NEW fs, NEW s, NEW n \in Nat
  PROVE  \E g : Recursion(fs, s, n, g)
<1> DEFINE T == {k \in Nat : \E g : Recursion(fs, s, k, g)}
<1>1. 0 \in T
  <2> DEFINE g == [t \in SUBSET (1 .. 0) |-> NoArgs]
  <2>1. \A t \in SUBSET (1 .. 0) : t = {}
    OBVIOUS
  <2>2. Recursion(fs, s, 0, g)
    BY <2>1 DEF Recursion
  <2> QED BY <2>2
<1>2. ASSUME NEW k \in Nat, k \in T PROVE k + 1 \in T
  <2>1. PICK g : Recursion(fs, s, k, g)
    BY <1>2
  <2> DEFINE h == [t \in SUBSET (1 .. k + 1) |->
                     IF k + 1 \in t THEN Step(fs, g[t \ {k + 1}], s[k + 1]) ELSE g[t]]
             val(t) == IF t = {} THEN NoArgs ELSE Step(fs, h[t \ {Max(t)}], s[Max(t)])
  <2>2. ASSUME NEW t \in SUBSET (1 .. k + 1), k + 1 \in t PROVE h[t] = val(t)
    <3>1. Max(t) = k + 1
      BY <2>2, MaxUpTo
    <3>2. t \ {k + 1} \in SUBSET (1 .. k)
      OBVIOUS
    <3>3. h[t \ {k + 1}] = g[t \ {k + 1}]
      BY <3>2
    <3>4. h[t] = Step(fs, g[t \ {k + 1}], s[k + 1])
      BY <2>2
    <3> HIDE DEF h
    <3> QED BY <2>2, <3>1, <3>3, <3>4
  <2>3. ASSUME NEW t \in SUBSET (1 .. k + 1), k + 1 \notin t PROVE h[t] = val(t)
    <3>1. t \in SUBSET (1 .. k)
      BY <2>3
    <3>2. h[t] = g[t]
      BY <2>3
    <3>3. g[t] = IF t = {} THEN NoArgs ELSE Step(fs, g[t \ {Max(t)}], s[Max(t)])
      BY <2>1, <3>1 DEF Recursion
    <3>4. h[t \ {Max(t)}] = g[t \ {Max(t)}]
      BY <2>3
    <3> HIDE DEF h
    <3> QED BY <3>2, <3>3, <3>4
  <2>4. h = [t \in SUBSET (1 .. k + 1) |-> h[t]]
    OBVIOUS
  <2>5. \A t \in SUBSET (1 .. k + 1) : h[t] = val(t)
    BY <2>2, <2>3
  <2> HIDE DEF h
  <2>6. Recursion(fs, s, k + 1, h)
    BY <2>4, <2>5 DEF Recursion
  <2> QED BY <2>6
<1> HIDE DEF T
<1>3. n \in T
  BY <1>1, <1>2, Induct
<1> QED BY <1>3 DEF T

\* Parsing is a trace of single steps.
Trace(fs, s, n, p) == p[0] = NoArgs /\ \A i \in 1 .. n : p[i] = Step(fs, p[i - 1], s[i])

LEMMA Traced ==
  ASSUME NEW fs, NEW s, NEW n \in Nat, DOMAIN s = 1 .. n
  PROVE  \E p : Trace(fs, s, n, p) /\ ParseAll(fs, s) = p[n]
<1> DEFINE g == CHOOSE g : Recursion(fs, s, n, g)
           p == [i \in 0 .. n |-> g[1 .. i]]
<1>1. Recursion(fs, s, n, g)
  BY RecursionExists
<1>2. ParseAll(fs, s) = g[1 .. n]
  BY FoldIs
<1> HIDE DEF g
<1>3. p[0] = NoArgs
  <2>1. p[0] = g[{}]
    OBVIOUS
  <2>2. {} \in SUBSET (1 .. n)
    OBVIOUS
  <2> QED BY <1>1, <2>1, <2>2 DEF Recursion
<1>4. ASSUME NEW i \in 1 .. n PROVE p[i] = Step(fs, p[i - 1], s[i])
  <2>1. i - 1 \in Nat /\ i = (i - 1) + 1 /\ i - 1 \in 0 .. n /\ i \in 0 .. n
    OBVIOUS
  <2>2. Max(1 .. i) = i
    <3>1. 1 .. i \subseteq 1 .. (i - 1) + 1 /\ (i - 1) + 1 \in 1 .. i
      OBVIOUS
    <3>2. Max(1 .. i) = (i - 1) + 1
      BY <2>1, <3>1, MaxUpTo
    <3> QED BY <2>1, <3>2
  <2>3. (1 .. i) \ {i} = 1 .. i - 1
    OBVIOUS
  <2>4. 1 .. i \in SUBSET (1 .. n) /\ 1 .. i # {}
    OBVIOUS
  <2>5. g[1 .. i] = Step(fs, g[1 .. i - 1], s[i])
    BY <1>1, <2>2, <2>3, <2>4 DEF Recursion
  <2>6. p[i] = g[1 .. i] /\ p[i - 1] = g[1 .. i - 1]
    BY <2>1
  <2> QED BY <2>5, <2>6
<1>5. p[n] = g[1 .. n]
  OBVIOUS
<1> HIDE DEF p
<1>6. Trace(fs, s, n, p)
  BY <1>3, <1>4 DEF Trace
<1> QED BY <1>2, <1>5, <1>6

\* FlattenSeq puts its sequences one behind the other.
Then(s, t) == s \o t
JoinedUpTo(ss, n, f) == f = [i \in 1 .. n |-> IF i = 1 THEN ss[i] ELSE Then(f[i - 1], ss[i])]
JoinedOnes(ss, f) ==
  /\ f[1] = ss[1]
  /\ \A i \in 2 .. Len(ss) : f[i] = Then(f[i - 1], ss[i])

LEMMA FlattenedOnes ==
  ASSUME NEW S, NEW ss \in Seq(S), ss # <<>>
  PROVE  \E f : JoinedOnes(ss, f) /\ FlattenSeq(ss) = f[Len(ss)]
<1> DEFINE n == Len(ss)
           Sol(k, f) == JoinedUpTo(ss, k, f)
           T == {k \in Nat : \E f : Sol(k, f)}
           f == CHOOSE f : Sol(n, f)
<1>1. n \in Nat /\ n # 0
  OBVIOUS
<1>2. 0 \in T
  <2>1. Sol(0, [i \in 1 .. 0 |-> i])
    BY DEF JoinedUpTo
  <2> QED BY <2>1
<1>3. ASSUME NEW k \in Nat, k \in T PROVE k + 1 \in T
  <2>1. PICK g : Sol(k, g)
    BY <1>3
  <2> DEFINE h == [i \in 1 .. k + 1 |->
                     IF i = 1 THEN ss[i] ELSE IF i = k + 1 THEN Then(g[k], ss[i]) ELSE g[i]]
  <2>2. ASSUME NEW i \in 1 .. k + 1 PROVE h[i] = IF i = 1 THEN ss[i] ELSE Then(h[i - 1], ss[i])
    <3>1. CASE i = 1
      BY <3>1
    <3>2. CASE i # 1
      <4>1. i - 1 \in 1 .. k /\ i - 1 # k + 1
        BY <3>2
      <4>2. h[i - 1] = g[i - 1]
        <5>1. CASE i - 1 = 1
          BY <2>1, <4>1, <5>1 DEF JoinedUpTo
        <5>2. CASE i - 1 # 1
          BY <4>1, <5>2
        <5> QED BY <5>1, <5>2
      <4>3. CASE i = k + 1
        BY <3>2, <4>2, <4>3
      <4>4. CASE i # k + 1
        <5>1. i \in 1 .. k
          BY <4>4
        <5>2. h[i] = g[i]
          BY <3>2, <4>4
        <5>3. g[i] = Then(g[i - 1], ss[i])
          BY <2>1, <3>2, <5>1 DEF JoinedUpTo
        <5> HIDE DEF h
        <5> QED BY <3>2, <4>2, <5>2, <5>3
      <4> QED BY <4>3, <4>4
    <3> QED BY <3>1, <3>2
  <2>3. h = [i \in 1 .. k + 1 |-> h[i]]
    OBVIOUS
  <2> HIDE DEF h
  <2>4. Sol(k + 1, h)
    BY <2>2, <2>3 DEF JoinedUpTo
  <2> QED BY <2>4
<1> HIDE DEF T
<1>4. n \in T
  BY <1>1, <1>2, <1>3, Induct
<1>5. Sol(n, f)
  BY <1>4 DEF T
<1>6. FlattenSeq(ss) = f[n]
  BY <1>1 DEF FlattenSeq, JoinedUpTo, Then
<1> HIDE DEF f
<1>7. f[1] = ss[1]
  BY <1>1, <1>5 DEF JoinedUpTo
<1>8. \A i \in 2 .. n : f[i] = Then(f[i - 1], ss[i])
  BY <1>5 DEF JoinedUpTo
<1> QED BY <1>6, <1>7, <1>8 DEF JoinedOnes

\* What has been put there after each of them.
Joins(ss, f) ==
  /\ f[0] = <<>>
  /\ \A i \in 1 .. Len(ss) : f[i] = Then(f[i - 1], ss[i])

LEMMA JoinedSeqs ==
  ASSUME NEW S, NEW ss \in Seq(Seq(S)), NEW f, Joins(ss, f)
  PROVE  \A n \in 0 .. Len(ss) : f[n] \in Seq(S)
<1> DEFINE T == {n \in Nat : n <= Len(ss) => f[n] \in Seq(S)}
<1>1. 0 \in T
  <2>1. <<>> \in Seq(S)
    OBVIOUS
  <2> QED BY <2>1 DEF Joins
<1>2. ASSUME NEW n \in Nat, n \in T PROVE n + 1 \in T
  <2> SUFFICES ASSUME n + 1 <= Len(ss) PROVE f[n + 1] \in Seq(S)
    OBVIOUS
  <2>1. n <= Len(ss) /\ n + 1 \in 1 .. Len(ss) /\ (n + 1) - 1 = n
    OBVIOUS
  <2>2. f[n + 1] = Then(f[n], ss[n + 1])
    BY <2>1 DEF Joins
  <2>3. f[n] \in Seq(S) /\ ss[n + 1] \in Seq(S)
    BY <1>2, <2>1
  <2> QED BY <2>2, <2>3 DEF Then
<1> HIDE DEF T
<1>3. \A n \in Nat : n \in T
  BY <1>1, <1>2, Induct
<1> QED BY <1>3 DEF T

LEMMA Flattened ==
  ASSUME NEW S, NEW ss \in Seq(Seq(S))
  PROVE  \E f : Joins(ss, f) /\ FlattenSeq(ss) = f[Len(ss)]
<1>1. CASE ss = <<>>
  <2> DEFINE f == [i \in {0} |-> <<>>]
  <2>1. Len(ss) = 0
    BY <1>1
  <2>2. FlattenSeq(ss) = <<>>
    BY <1>1, <2>1 DEF FlattenSeq
  <2>3. f[0] = <<>>
    OBVIOUS
  <2> HIDE DEF f
  <2>4. Joins(ss, f)
    BY <2>1, <2>3 DEF Joins
  <2> QED BY <2>1, <2>2, <2>3, <2>4
<1>2. CASE ss # <<>>
  <2> DEFINE n == Len(ss)
  <2>1. PICK g : JoinedOnes(ss, g) /\ FlattenSeq(ss) = g[n]
    BY <1>2, FlattenedOnes
  <2> DEFINE f == [i \in 0 .. n |-> IF i = 0 THEN <<>> ELSE g[i]]
  <2>2. n \in Nat /\ n # 0 /\ ss[1] \in Seq(S)
    BY <1>2
  <2>3. f[0] = <<>> /\ \A i \in 1 .. n : f[i] = g[i]
    BY <2>2
  <2> HIDE DEF f
  <2>4. ASSUME NEW i \in 1 .. n PROVE f[i] = Then(f[i - 1], ss[i])
    <3>1. CASE i = 1
      <4>1. f[i] = ss[1] /\ f[i - 1] = <<>>
        BY <2>1, <2>3, <3>1 DEF JoinedOnes
      <4>2. Then(<<>>, ss[1]) = ss[1]
        BY <2>2 DEF Then
      <4> QED BY <3>1, <4>1, <4>2
    <3>2. CASE i # 1
      <4>1. i \in 2 .. n /\ i - 1 \in 1 .. n
        BY <3>2
      <4> QED BY <2>1, <2>3, <4>1 DEF JoinedOnes
    <3> QED BY <3>1, <3>2
  <2>5. Joins(ss, f)
    BY <2>3, <2>4 DEF Joins
  <2>6. FlattenSeq(ss) = f[n]
    BY <2>1, <2>2, <2>3
  <2> QED BY <2>5, <2>6
<1> QED BY <1>1, <1>2

\* Where each of them is.
Placed(ss, f, n, i) ==
  /\ Len(f[i - 1]) + Len(ss[i]) <= Len(f[n])
  /\ \A j \in 1 .. Len(ss[i]) : f[n][Len(f[i - 1]) + j] = ss[i][j]

LEMMA JoinedAt ==
  ASSUME NEW S, NEW ss \in Seq(Seq(S)), NEW f, Joins(ss, f)
  PROVE  \A n \in 0 .. Len(ss) : \A i \in 1 .. n : Placed(ss, f, n, i)
<1> DEFINE Fits(n, i) == Placed(ss, f, n, i)
           T == {n \in Nat : n <= Len(ss) => \A i \in 1 .. n : Fits(n, i)}
<1>1. 0 \in T
  OBVIOUS
<1>2. ASSUME NEW n \in Nat, n \in T PROVE n + 1 \in T
  <2> SUFFICES ASSUME n + 1 <= Len(ss), NEW i \in 1 .. n + 1 PROVE Fits(n + 1, i)
    OBVIOUS
  <2> DEFINE a == f[n]
             b == ss[n + 1]
             k == Len(f[i - 1])
             c == ss[i]
  <2>1. n <= Len(ss) /\ n + 1 \in 1 .. Len(ss) /\ (n + 1) - 1 = n /\ n \in 0 .. Len(ss) /\ i - 1 \in 0 .. Len(ss) /\ i \in 1 .. Len(ss)
    OBVIOUS
  <2>2. a \in Seq(S) /\ b \in Seq(S) /\ f[i - 1] \in Seq(S) /\ c \in Seq(S)
    BY <2>1, JoinedSeqs
  <2>3. f[n + 1] = a \o b
    BY <2>1 DEF Joins, Then
  <2>4. k \in Nat /\ Len(a) \in Nat /\ Len(b) \in Nat /\ Len(c) \in Nat
    BY <2>2
  <2>5. CASE i = n + 1
    <3>1. k = Len(a) /\ c = b
      BY <2>1, <2>5
    <3> HIDE DEF a, b, c, k
    <3>2. Len(a \o b) = Len(a) + Len(b) /\ \A j \in 1 .. Len(b) : (a \o b)[Len(a) + j] = b[j]
      BY <2>2
    <3>3. /\ k + Len(c) <= Len(f[n + 1])
          /\ \A j \in 1 .. Len(c) : f[n + 1][k + j] = c[j]
      BY <2>3, <2>4, <3>1, <3>2
    <3> QED BY <3>3 DEF c, k, Placed
  <2>6. CASE i # n + 1
    <3>1. i \in 1 .. n
      BY <2>6
    <3>2. Fits(n, i)
      BY <1>2, <2>1, <3>1
    <3>3. k + Len(c) <= Len(a) /\ \A j \in 1 .. Len(c) : a[k + j] = c[j]
      BY <3>2 DEF Placed
    <3> HIDE DEF a, b, c, k
    <3>4. Len(a \o b) = Len(a) + Len(b) /\ \A j \in 1 .. Len(a) : (a \o b)[j] = a[j]
      BY <2>2
    <3>5. \A j \in 1 .. Len(c) : k + j \in 1 .. Len(a)
      BY <2>4, <3>3
    <3>6. /\ k + Len(c) <= Len(f[n + 1])
          /\ \A j \in 1 .. Len(c) : f[n + 1][k + j] = c[j]
      BY <2>3, <2>4, <3>3, <3>4, <3>5
    <3> QED BY <3>6 DEF c, k, Placed
  <2> QED BY <2>5, <2>6
<1> HIDE DEF T
<1>3. \A n \in Nat : n \in T
  BY <1>1, <1>2, Induct
<1> QED BY <1>3 DEF T

\* What has been put there depends on nothing behind it.
LEMMA JoinedPrefix ==
  ASSUME NEW ss, NEW tt, NEW f, NEW g, Joins(ss, f), Joins(tt, g), Len(ss) \in Nat, Len(tt) \in Nat,
         Len(tt) <= Len(ss), \A i \in 1 .. Len(tt) : tt[i] = ss[i]
  PROVE  \A n \in 0 .. Len(tt) : g[n] = f[n]
<1> DEFINE T == {n \in Nat : n <= Len(tt) => g[n] = f[n]}
<1>1. 0 \in T
  BY DEF Joins
<1>2. ASSUME NEW n \in Nat, n \in T PROVE n + 1 \in T
  <2> SUFFICES ASSUME n + 1 <= Len(tt) PROVE g[n + 1] = f[n + 1]
    OBVIOUS
  <2>1. n + 1 \in 1 .. Len(tt) /\ n + 1 \in 1 .. Len(ss) /\ (n + 1) - 1 = n /\ n <= Len(tt)
    OBVIOUS
  <2>2. g[n + 1] = Then(g[n], tt[n + 1]) /\ f[n + 1] = Then(f[n], ss[n + 1])
    BY <2>1 DEF Joins
  <2> QED BY <1>2, <2>1, <2>2
<1> HIDE DEF T
<1>3. \A n \in Nat : n \in T
  BY <1>1, <1>2, Induct
<1> QED BY <1>3 DEF T

-----------------------------------------------------------------------------
(* The target.                                                               *)

\* firstNonEmpty's argument list has a first that is not empty, or only empty ones.
LEMMA FirstIsFirst ==
  ASSUME NEW n \in 3 .. 4, NEW s, DOMAIN s = 1 .. n, Len(s) = n
  PROVE  \/ FirstNonEmpty(s) = "" /\ \A i \in DOMAIN s : s[i] = ""
         \/ FirstNamed(FirstNonEmpty(s), s)
<1> DEFINE I == {i \in 1 .. n : s[i] # ""}
           at == IF I # {} THEN Min(I) ELSE 0
<1>1. FirstNonEmpty(s) = IF at = 0 THEN "" ELSE s[at]
  BY DEF FirstNonEmpty, SelectInSeq
<1>2. \A i \in 1 .. n : i \in I <=> s[i] # ""
  OBVIOUS
<1>3. I \subseteq 1 .. n /\ I \subseteq Nat
  <2>1. \A i \in 1 .. n : i \in Nat
    OBVIOUS
  <2> QED BY <2>1
<1> HIDE DEF I
<1>4. CASE I = {}
  BY <1>1, <1>2, <1>4
<1>5. CASE I # {}
  <2>1. PICK m \in I : m = Min(I) /\ \A y \in I : m <= y
    BY Least, <1>3, <1>5
  <2>2. m \in 1 .. n /\ m # 0
    BY <1>3
  <2>3. FirstNonEmpty(s) = s[m] /\ s[m] # ""
    BY <1>1, <1>2, <1>5, <2>1, <2>2
  <2>4. ASSUME NEW j \in 1 .. m - 1 PROVE s[j] = ""
    <3>1. j \in 1 .. n /\ ~(m <= j)
      BY <2>2
    <3> QED BY <1>2, <2>1, <3>1
  <2> QED BY <2>2, <2>3, <2>4 DEF FirstNamed
<1> QED BY <1>4, <1>5

LEMMA FirstOfThree ==
  ASSUME NEW a, NEW b, NEW c
  PROVE  \/ FirstNonEmpty(<<a, b, c>>) = "" /\ \A i \in DOMAIN <<a, b, c>> : <<a, b, c>>[i] = ""
         \/ FirstNamed(FirstNonEmpty(<<a, b, c>>), <<a, b, c>>)
<1> DEFINE s == <<a, b, c>>
<1>1. DOMAIN s = 1 .. 3
  OBVIOUS
<1>2. Len(s) = 3
  OBVIOUS
<1>3. 3 \in 3 .. 4
  OBVIOUS
<1> HIDE DEF s
<1>4. \/ FirstNonEmpty(s) = "" /\ \A i \in DOMAIN s : s[i] = ""
      \/ FirstNamed(FirstNonEmpty(s), s)
  BY <1>1, <1>2, <1>3, FirstIsFirst
<1> QED BY <1>4 DEF s

LEMMA FourLong == ASSUME NEW a, NEW b, NEW c, NEW d PROVE DOMAIN <<a, b, c, d>> = 1 .. 4
OBVIOUS

LEMMA FirstOfFour ==
  ASSUME NEW a, NEW b, NEW c, NEW d
  PROVE  d # "" => FirstNamed(FirstNonEmpty(<<a, b, c, d>>), <<a, b, c, d>>)
<1> DEFINE s == <<a, b, c, d>>
<1>1. DOMAIN s = 1 .. 4
  BY FourLong
<1>2. Len(s) = 4
  OBVIOUS
<1>3. s[4] = d
  OBVIOUS
<1> HIDE DEF s
<1>4. 4 \in 3 .. 4
  OBVIOUS
<1>5. 4 \in 1 .. 4
  OBVIOUS
<1>6. \/ FirstNonEmpty(s) = "" /\ \A i \in DOMAIN s : s[i] = ""
      \/ FirstNamed(FirstNonEmpty(s), s)
  BY <1>1, <1>2, <1>4, FirstIsFirst
<1>7. d # "" => FirstNamed(FirstNonEmpty(s), s)
  BY <1>1, <1>3, <1>5, <1>6
<1> QED BY <1>7 DEF s

\* While a target is used, it is the one that configuration and environment give.
TargetInv ==
  pc \in {"parse", "send", "answered"} \/ answer # 0 => ProfileFound /\ target = ResolveTarget

TokenInv ==
  /\ answer # 0 => target.token # ""
  /\ pc \in {"typing", "dispatch", "configure", "parse", "send"} => answer = 0

\* What answers a request goes to was found under the names of the user's.
LEMMA TargetStep == TargetInv /\ TokenInv /\ [Next]_vars => TargetInv' /\ TokenInv'
<1> SUFFICES ASSUME TargetInv, TokenInv, [Next]_vars PROVE TargetInv' /\ TokenInv'
  OBVIOUS
<1> USE DEF TargetInv, TokenInv, Over
<1>1. CASE UNCHANGED call
  <2>1. ProfileFound' = ProfileFound /\ ResolveTarget' = ResolveTarget
    BY <1>1 DEF ProfileFound, ProfileName, ResolveTarget, Profile
  <2>2. CASE Type BY <2>1, <2>2 DEF Type
  <2>3. CASE Dispatch BY <2>1, <2>3 DEF Dispatch
  <2>4. CASE Configure BY <2>1, <2>4 DEF Configure
  <2>5. CASE Prepare
    <3>1. pc = "parse" /\ pc' \in {"over", "send"} /\ UNCHANGED <<target, answer>>
      BY <2>5 DEF Prepare
    <3> QED BY <2>1, <3>1
  <2>6. CASE Send BY <2>1, <2>6 DEF Send
  <2>7. CASE Lose BY <2>1, <2>7 DEF Lose
  <2>8. CASE Render
    <3>1. pc = "answered" /\ pc' = "over" /\ UNCHANGED <<target, answer>>
      BY <2>8 DEF Render
    <3> QED BY <2>1, <3>1
  <2>9. CASE UNCHANGED vars BY <2>1, <2>9 DEF vars
  <2> QED BY <2>2, <2>3, <2>4, <2>5, <2>6, <2>7, <2>8, <2>9 DEF Next
<1>2. UNCHANGED call
  BY DEF Next, Type, Dispatch, Configure, Prepare, Send, Lose, Render, vars
<1> QED BY <1>1, <1>2

\* resolveTarget looks where GoesWhereNamed says.
LEMMA ResolvesAsNamed ==
  ASSUME TargetInv, TokenInv
  PROVE  GoesWhereNamed
<1> DEFINE configured == IF call.cfg.state = "there" THEN call.cfg.default ELSE ""
           names == <<call.flags.profile, call.env.profile, configured>>
           By(p) == /\ FirstNamed(target.url, <<call.flags.url, call.env.url, p.url, DefaultURL>>)
                    /\ FirstNamed(target.token, <<call.flags.token, call.env.token, p.token>>)
<1> SUFFICES ASSUME answer # 0
             PROVE  \/ (\A i \in DOMAIN names : names[i] = "") /\ By(NoProfile)
                    \/ \E n \in DOMAIN call.cfg.profiles :
                         FirstNamed(n, names) /\ By(call.cfg.profiles[n])
  BY DEF GoesWhereNamed
<1>1. ProfileFound /\ target = ResolveTarget /\ target.token # ""
  BY DEF TargetInv, TokenInv
<1>2. By(Profile)
  <2>1. FirstNamed(target.url, <<call.flags.url, call.env.url, Profile.url, DefaultURL>>)
    <3>1. target.url = FirstNonEmpty(<<call.flags.url, call.env.url, Profile.url, DefaultURL>>)
      BY <1>1 DEF ResolveTarget
    <3> QED BY <3>1, FirstOfFour, MsbctlAssumption
  <2>2. FirstNamed(target.token, <<call.flags.token, call.env.token, Profile.token>>)
    <3>1. target.token = FirstNonEmpty(<<call.flags.token, call.env.token, Profile.token>>)
      BY <1>1 DEF ResolveTarget
    <3> QED BY <1>1, <3>1, FirstOfThree
  <2> QED BY <2>1, <2>2
<1>3. \/ ProfileName = "" /\ \A i \in DOMAIN names : names[i] = ""
      \/ FirstNamed(ProfileName, names)
  <2>1. ProfileName = FirstNonEmpty(names)
    BY DEF ProfileName
  <2> HIDE DEF configured
  <2> QED BY <2>1, FirstOfThree
<1> HIDE DEF names, By
<1>4. CASE ProfileName = "" /\ \A i \in DOMAIN names : names[i] = ""
  <2>1. Profile = NoProfile
    BY <1>4 DEF Profile
  <2> QED BY <1>2, <1>4, <2>1
<1>5. CASE FirstNamed(ProfileName, names)
  <2>1. ProfileName # ""
    BY <1>5 DEF FirstNamed
  <2>2. ProfileName \in DOMAIN call.cfg.profiles /\ Profile = call.cfg.profiles[ProfileName]
    BY <1>1, <2>1 DEF ProfileFound, Profile
  <2> QED BY <1>2, <1>5, <2>2
<1> QED BY <1>3, <1>4, <1>5

\* A request goes where the user says, with the token that belongs there, whatever
\* the flags, the environment and the configuration file name (resolveTarget).
THEOREM TargetAsNamed == Spec => []GoesWhereNamed
<1>1. Init => TargetInv /\ TokenInv
  BY DEF Init, TargetInv, TokenInv
<1> QED BY <1>1, TargetStep, ResolvesAsNamed, PTL DEF Spec

-----------------------------------------------------------------------------
(* The exit code.                                                            *)

\* A request that is not over has no exit code yet, and only what a route can
\* answer is answered.
ExitInv ==
  /\ pc # "over" => exit = ExitOK
  /\ pc \notin {"answered", "over"} => answer = 0
  /\ pc = "answered" => answer \in Statuses(request.op)
  /\ ExitTellsOutcome

Known(op, st) ==
  \/ st \in {400, 401, 404, 409, 413}
  \/ st \in {500, 503, 504}
  \/ st \in {201, 204} /\ op # "exec"
  \/ st = 207 /\ op = "batch"
  \/ st = 200

LEMMA AnswersKnown ==
  ASSUME NEW op, NEW st \in Statuses(op)
  PROVE  Known(op, st)
<1> DEFINE Made == {"create", "volume create", "snapshot create"}
           Gone == {"start", "stop", "rm", "volume rm", "snapshot rm"}
           Done == CASE op = "batch" -> {201, 207}
                     [] op \in Made -> {201}
                     [] op \in Gone -> {204}
                     [] OTHER -> {200}
<1>1. st \in {400, 401, 404, 409, 413, 500, 503, 504} \/ st \in Done
  <2>1. st \in {400, 401, 404, 409, 413, 500, 503, 504} \cup Done
    BY ZenonT(60) DEF Statuses
  <2> HIDE DEF Done
  <2> QED BY <2>1
<1>2. \/ op = "batch" /\ Done = {201, 207}
      \/ op # "exec" /\ Done = {201}
      \/ op # "exec" /\ Done = {204}
      \/ Done = {200}
  <2>1. /\ op \in Made => op \notin Gone /\ op # "batch" /\ op # "exec"
        /\ op \in Gone => op # "batch" /\ op # "exec"
    OBVIOUS
  <2> HIDE DEF Made, Gone
  <2>2. CASE op = "batch"
    <3>1. op \notin Made /\ op \notin Gone
      BY <2>1, <2>2
    <3> QED BY <2>2, <3>1
  <2>3. CASE op \in Made
    BY <2>1, <2>3
  <2>4. CASE op \in Gone
    BY <2>1, <2>4
  <2>5. CASE op # "batch" /\ op \notin Made /\ op \notin Gone
    BY <2>5
  <2> QED BY <2>2, <2>3, <2>4, <2>5
<1> HIDE DEF Done
<1>3. CASE st \in Done
  BY <1>2, <1>3 DEF Known
<1>4. CASE st \in {400, 401, 404, 409, 413, 500, 503, 504}
  BY <1>4 DEF Known
<1> QED BY <1>1, <1>3, <1>4

\* What an exit code has to be for a status.
Tells(ex, st) ==
  /\ ex = 0 => st \in {200, 201, 204}
  /\ ex = 2 <=> st = 207
  /\ ex = 4 <=> st \in 400 .. 499
  /\ ex = 5 <=> st \in 500 .. 599

LEMMA FailureTells == Tells(1, 0)
BY DEF Tells

LEMMA FormatTells == ASSUME NEW st \in {200, 201, 204} PROVE Tells(1, st)
BY DEF Tells

LEMMA CodeTells ==
  ASSUME NEW op, NEW st \in Statuses(op)
  PROVE  Tells(ExitFor(op, st), st)
<1> DEFINE told == Tells(ExitFor(op, st), st)
<1> USE DEF ExitFor, ExitCodeForStatus, ExitOK, ExitGeneric, Tells
<1>1. st \in {400, 401, 404, 409, 413} => told
  OBVIOUS
<1>2. st \in {500, 503, 504} => told
  OBVIOUS
<1>3. st \in {200, 201, 204} => told
  OBVIOUS
<1>4. st = 207 /\ op = "batch" => told
  OBVIOUS
<1> HIDE DEF told
<1>5. st = 200 \/ st \in {201, 204} => told
  BY <1>3
<1>6. Known(op, st)
  BY AnswersKnown
<1>7. told
  BY <1>1, <1>2, <1>4, <1>5, <1>6 DEF Known
<1> QED BY <1>7 DEF told

LEMMA ExitStep == ExitInv /\ [Next]_vars => ExitInv'
<1> SUFFICES ASSUME ExitInv, [Next]_vars PROVE ExitInv'
  OBVIOUS
<1>0. /\ ExitTellsOutcome <=>
           (pc = "over" /\ call.cmd # "help" /\ ~(request.op = "exec" /\ answer = 200)
              => Tells(exit, answer))
      /\ ExitTellsOutcome' <=>
           (pc' = "over" /\ call'.cmd # "help" /\ ~(request'.op = "exec" /\ answer' = 200)
              => Tells(exit', answer'))
  BY DEF ExitTellsOutcome, Tells
<1> USE DEF ExitInv, Over, ExitOK, ExitGeneric
<1>1. CASE Type BY <1>0, <1>1 DEF Type
<1>2. CASE Dispatch BY <1>0, <1>2, FailureTells DEF Dispatch
<1>3. CASE Configure BY <1>0, <1>3, FailureTells DEF Configure
<1>4. CASE Prepare BY <1>0, <1>4, FailureTells DEF Prepare
<1>5. CASE Send BY <1>0, <1>5, FailureTells DEF Send
<1>6. CASE Lose BY <1>0, <1>6, FailureTells DEF Lose
<1>7. CASE Render
  <2>1. pc = "answered" /\ pc' = "over" /\ UNCHANGED <<call, request, answer>>
    BY <1>7 DEF Render
  <2>2. answer \in Statuses(request.op)
    BY <2>1
  <2>3. CASE request.op = "exec" /\ answer < 400
    BY <1>0, <2>1, <2>2, <2>3, AnswersKnown DEF Known
  <2>4. CASE request.op \in Reads /\ answer < 400 /\ exit' = 1
    <3>1. answer \in {200, 201, 204}
      <4>1. request.op # "batch"
        BY <2>4 DEF Reads
      <4>2. answer \notin {400, 401, 404, 409, 413} /\ answer \notin {500, 503, 504}
        BY <2>4
      <4> QED BY <2>2, <4>1, <4>2, AnswersKnown DEF Known
    <3> QED BY <1>0, <2>1, <2>4, <3>1, FormatTells
  <2>5. CASE exit' = ExitFor(request.op, answer)
    BY <1>0, <2>1, <2>2, <2>5, CodeTells
  <2> QED BY <1>7, <2>3, <2>4, <2>5 DEF Render
<1>8. CASE UNCHANGED vars BY <1>0, <1>8 DEF vars
<1> QED BY <1>1, <1>2, <1>3, <1>4, <1>5, <1>6, <1>7, <1>8 DEF Next

\* The exit code says what became of the request, whatever is typed and answered
\* (doAction, doRead, doStatusAction; ADR-0009).
THEOREM ExitCodesTell == Spec => []ExitTellsOutcome
<1>1. Init => ExitInv
  BY DEF Init, ExitInv, ExitTellsOutcome
<1>2. ExitInv => ExitTellsOutcome
  BY DEF ExitInv
<1> QED BY <1>1, <1>2, ExitStep, PTL DEF Spec
-----------------------------------------------------------------------------
(* The arguments of a command.                                               *)

\* The flag sets are alike.
FlagSet(fs) ==
  /\ DOMAIN fs \subseteq {"o", "f", "set", "label", "tail", "since", "source", "size", "from", "force"}
  /\ \A f \in DOMAIN fs :
       /\ f # ""
       /\ fs[f] = "bool" <=> f = "force"
       /\ fs[f] = "map" <=> f \in {"set", "label"}
  /\ "set" \notin DOMAIN fs \/ "label" \notin DOMAIN fs

LEMMA FlagsAre ==
  ASSUME NEW cmd
  PROVE  /\ FlagSet(Flags(cmd))
         /\ (cmd = "create") <=> ("set" \in DOMAIN Flags(cmd))
         /\ (cmd = "snapshot create") <=> ("label" \in DOMAIN Flags(cmd))
<1> USE DEF FlagSet
<1> DEFINE fs == Flags(cmd)
<1>1. CASE cmd \in {"ls", "list", "inspect", "metrics", "volume ls", "snapshot ls"}
  <2>1. fs = [o |-> "string"]
    BY <1>1 DEF Flags
  <2> HIDE DEF fs
  <2>2. DOMAIN fs = {"o"}
    BY <2>1
  <2>3. fs["o"] = "string"
    BY <2>1
  <2> QED BY <1>1, <2>2, <2>3 DEF fs
<1>2. CASE cmd = "logs"
  <2>1. fs = [tail |-> "string", since |-> "string", source |-> "string"]
    BY <1>2 DEF Flags
  <2> HIDE DEF fs
  <2>2. DOMAIN fs = {"tail", "since", "source"}
    BY <2>1
  <2>3. fs["tail"] = "string" /\ fs["since"] = "string" /\ fs["source"] = "string"
    BY <2>1
  <2> QED BY <1>2, <2>2, <2>3 DEF fs
<1>3. CASE cmd = "create"
  <2>1. fs = [f |-> "string", set |-> "map"]
    BY <1>3 DEF Flags
  <2> HIDE DEF fs
  <2>2. DOMAIN fs = {"f", "set"}
    BY <2>1
  <2>3. fs["f"] = "string" /\ fs["set"] = "map"
    BY <2>1
  <2> QED BY <1>3, <2>2, <2>3 DEF fs
<1>4. CASE cmd = "volume create"
  <2>1. fs = [size |-> "string", f |-> "string"]
    BY <1>4 DEF Flags
  <2> HIDE DEF fs
  <2>2. DOMAIN fs = {"size", "f"}
    BY <2>1
  <2>3. fs["size"] = "string" /\ fs["f"] = "string"
    BY <2>1
  <2> QED BY <1>4, <2>2, <2>3 DEF fs
<1>5. CASE cmd = "snapshot create"
  <2>1. fs = [from |-> "string", force |-> "bool", label |-> "map"]
    BY <1>5 DEF Flags
  <2> HIDE DEF fs
  <2>2. DOMAIN fs = {"from", "force", "label"}
    BY <2>1
  <2>3. fs["from"] = "string" /\ fs["force"] = "bool" /\ fs["label"] = "map"
    BY <2>1
  <2> QED BY <1>5, <2>2, <2>3 DEF fs
<1>6. CASE cmd \notin {"ls", "list", "inspect", "metrics", "volume ls", "snapshot ls",
                       "logs", "create", "volume create", "snapshot create"}
  <2>1. fs = <<>>
    BY <1>6 DEF Flags
  <2> HIDE DEF fs
  <2>2. DOMAIN fs = {}
    BY <2>1
  <2> QED BY <1>6, <2>2 DEF fs
<1> QED BY <1>1, <1>2, <1>3, <1>4, <1>5, <1>6

\* splitKeyValue: the key of a pair is what is before its first "=".
LEMMA KeyFound ==
  ASSUME NEW t \in Text
  PROVE  /\ EqualsAt(t) > 1 =>
              LET k == SubSeq(t, 1, EqualsAt(t) - 1)
              IN KeysOf(t) = {k} /\ Len(k) + 2 = EqualsAt(t) + 1
         /\ ~(EqualsAt(t) > 1) => KeysOf(t) = {}
<1> DEFINE I == {i \in 1 .. Len(t) : t[i] = "="}
           at == EqualsAt(t)
           N == {m \in 1 .. Len(t) - 1 : t[m + 1] = "=" /\ \A j \in 1 .. m : t[j] # "="}
<1>1. Len(t) \in Nat
  BY DEF Text
<1>2. at = IF I # {} THEN Min(I) ELSE 0
  BY DEF EqualsAt, SelectInSeq
<1>3. KeysOf(t) = {SubSeq(t, 1, n) : n \in N}
  BY DEF KeysOf
<1>4. \A i : i \in I <=> i \in 1 .. Len(t) /\ t[i] = "="
  OBVIOUS
<1>5. \A m : m \in N <=> m \in 1 .. Len(t) - 1 /\ t[m + 1] = "=" /\ \A j \in 1 .. m : t[j] # "="
  OBVIOUS
<1> HIDE DEF I, N, at
<1>6. CASE I = {}
  <2>1. N = {}
    <3>1. ASSUME NEW m \in N PROVE FALSE
      <4>1. m + 1 \in 1 .. Len(t) /\ t[m + 1] = "="
        BY <1>1, <1>5, <3>1
      <4> QED BY <1>4, <1>6, <4>1
    <3> QED BY <3>1
  <2>2. at = 0
    BY <1>2, <1>6
  <2> QED BY <1>3, <2>1, <2>2 DEF at
<1>7. CASE I # {}
  <2>1. I \subseteq Nat
    BY <1>1, <1>4
  <2>2. at \in I /\ \A y \in I : at <= y
    BY <1>2, <1>7, <2>1, Least
  <2>3. at \in 1 .. Len(t) /\ t[at] = "="
    BY <1>4, <2>2
  <2>4. ASSUME NEW m \in N PROVE m = at - 1
    <3>1. m \in 1 .. Len(t) - 1 /\ m + 1 \in I
      BY <1>1, <1>4, <1>5
    <3>2. at <= m + 1
      BY <2>2, <3>1
    <3>3. ~(at \in 1 .. m)
      BY <1>5, <2>3
    <3> QED BY <1>1, <2>3, <3>1, <3>2, <3>3
  <2>5. CASE at > 1
    <3>1. at - 1 \in N
      <4>1. at - 1 \in 1 .. Len(t) - 1 /\ (at - 1) + 1 = at
        BY <1>1, <2>3, <2>5
      <4>2. ASSUME NEW j \in 1 .. at - 1 PROVE t[j] # "="
        <5>1. j \in 1 .. Len(t) /\ ~(at <= j)
          BY <1>1, <2>3
        <5> QED BY <1>4, <2>2, <5>1
      <4> QED BY <1>5, <2>3, <4>1, <4>2
    <3>2. N = {at - 1}
      BY <2>4, <3>1
    <3>3. KeysOf(t) = {SubSeq(t, 1, at - 1)}
      BY <1>3, <3>2
    <3>4. Len(SubSeq(t, 1, at - 1)) = at - 1
      <4>1. at - 1 \in 1 .. Len(t)
        BY <1>1, <2>3, <2>5
      <4> QED BY <4>1 DEF Text
    <3> QED BY <2>3, <2>5, <3>3, <3>4 DEF at
  <2>6. CASE ~(at > 1)
    <3>1. N = {}
      <4>1. ASSUME NEW m \in N PROVE FALSE
        <5>1. m = at - 1 /\ m \in 1 .. Len(t) - 1
          BY <1>5, <2>4
        <5> QED BY <1>1, <2>3, <2>6, <5>1
      <4> QED BY <4>1
    <3> QED BY <1>3, <2>6, <3>1 DEF at
  <2> QED BY <2>5, <2>6
<1> QED BY <1>6, <1>7

\* The state of parseFlags.
Rec(r) == r = [ok |-> r.ok, flag |-> r.flag, literal |-> r.literal, pos |-> r.pos, value |-> r.value, map |-> r.map]
Between(r) == Rec(r) /\ r.ok = TRUE /\ r.flag = "" /\ r.literal = FALSE
WithPos(r, t) == [r EXCEPT !.pos = Append(@, t)]
Pending(r, flag) == [r EXCEPT !.flag = flag]

\* What is read of an item, whichever way it is typed.
ReadItem(fs, r, s) == IF Len(s) = 1 THEN Step(fs, r, s[1]) ELSE Step(fs, Step(fs, r, s[1]), s[2])

LEMMA FailedStays == ASSUME NEW fs, NEW r, NEW a, ~r.ok PROVE Step(fs, r, a) = r
BY DEF Step, ParseArg

LEMMA WordStep ==
  ASSUME NEW fs, NEW r, Between(r), NEW t, ~Dashed(t)
  PROVE  Step(fs, r, t) = WithPos(r, t)
<1>1. [r EXCEPT !.pos = Append(@, t), !.literal = FALSE] = WithPos(r, t)
  BY DEF Between, Rec, WithPos
<1> QED BY <1>1 DEF Between, Step, ParseArg, Positional

LEMMA AfterStep ==
  ASSUME NEW fs, NEW r, Between(r), NEW t
  PROVE  Step(fs, Step(fs, r, Terminator), t) = WithPos(r, t)
<1> DEFINE b == Terminator
           u == [r EXCEPT !.literal = TRUE]
<1>1. Dashed(b)
  BY DEF Dashed
<1>2. Step(fs, r, b) = u
  BY <1>1 DEF Between, Step, ParseArg, Positional
<1>3. u.ok = TRUE /\ u.flag = "" /\ u.literal = TRUE
  BY DEF Between, Rec
<1>4. [u EXCEPT !.pos = Append(@, t), !.literal = FALSE] = WithPos(r, t)
  BY DEF Between, Rec, WithPos
<1> HIDE DEF u, b
<1>5. Step(fs, u, t) = [u EXCEPT !.pos = Append(@, t), !.literal = FALSE]
  BY <1>3 DEF Step, ParseArg, Positional
<1> QED BY <1>2, <1>4, <1>5 DEF b

\* An argument that is a flag.
LEMMA FlagStep ==
  ASSUME NEW fs, NEW r, Between(r), NEW a, Dashed(a), a # Terminator
  PROVE  Step(fs, r, a) =
           IF a[2] \notin DOMAIN fs THEN Failed(r)
           ELSE IF Len(a) > 2 THEN SetFlag(fs, r, a[2], SubSeq(a, 4, Len(a)))
           ELSE IF fs[a[2]] = "bool" THEN SetFlag(fs, r, a[2], <<"true">>)
           ELSE Pending(r, a[2])
BY DEF Between, Step, ParseArg, Positional, Pending

LEMMA ShortStep ==
  ASSUME NEW fs, NEW r, Between(r), NEW dash \in Dashes, NEW flag
  PROVE  Step(fs, r, Short(dash, flag)) =
           IF flag \notin DOMAIN fs THEN Failed(r)
           ELSE IF fs[flag] = "bool" THEN SetFlag(fs, r, flag, <<"true">>)
           ELSE Pending(r, flag)
<1> DEFINE a == Short(dash, flag)
<1>1. Len(a) = 2 /\ a[1] \in Dashes /\ a[2] = flag
  BY DEF Short
<1>2. a # Terminator
  BY <1>1 DEF Terminator
<1> HIDE DEF a
<1>3. Dashed(a)
  BY <1>1 DEF Dashed
<1>4. Step(fs, r, a) = IF flag \notin DOMAIN fs THEN Failed(r)
                       ELSE IF fs[flag] = "bool" THEN SetFlag(fs, r, flag, <<"true">>)
                       ELSE Pending(r, flag)
  <2>1. Step(fs, r, a) =
           IF a[2] \notin DOMAIN fs THEN Failed(r)
           ELSE IF Len(a) > 2 THEN SetFlag(fs, r, a[2], SubSeq(a, 4, Len(a)))
           ELSE IF fs[a[2]] = "bool" THEN SetFlag(fs, r, a[2], <<"true">>)
           ELSE Pending(r, a[2])
    BY <1>2, <1>3, FlagStep
  <2>2. a[2] = flag /\ ~(Len(a) > 2)
    BY <1>1
  <2> QED BY <2>1, <2>2
<1> QED BY <1>4 DEF a

LEMMA Cat ==
  ASSUME NEW S, NEW s \in Seq(S), NEW t \in Seq(S)
  PROVE  /\ s \o t \in Seq(S) /\ Len(s \o t) = Len(s) + Len(t)
         /\ \A i \in 1 .. Len(s) : (s \o t)[i] = s[i]
         /\ \A i \in 1 .. Len(t) : (s \o t)[Len(s) + i] = t[i]
OBVIOUS

Appended(u, s, t) ==
  /\ Len(u) = Len(s) + Len(t)
  /\ \A i \in 1 .. Len(s) : u[i] = s[i]
  /\ \A i \in 1 .. Len(t) : u[Len(s) + i] = t[i]
LEMMA CatIs ==
  ASSUME NEW S, NEW s \in Seq(S), NEW t \in Seq(S)
  PROVE  Appended(s \o t, s, t)
BY Cat DEF Appended

LEMMA JoinedStep ==
  ASSUME NEW fs, NEW r, Between(r), NEW dash \in Dashes, NEW flag \in Tokens, NEW t \in Text
  PROVE  Step(fs, r, Joined(dash, flag, t)) = IF flag \notin DOMAIN fs THEN Failed(r) ELSE SetFlag(fs, r, flag, t)
<1> DEFINE h == <<dash, flag, "=">>
           a == Joined(dash, flag, t)
<1>1. h \in Seq(Tokens) /\ Len(h) = 3 /\ h[1] = dash /\ h[2] = flag
  <2>1. dash \in Tokens /\ "=" \in Tokens
    BY MsbctlAssumption DEF Dashes
  <2> QED BY <2>1
<1>2. t \in Seq(Tokens) /\ Len(t) \in Nat
  BY DEF Text
<1> HIDE DEF h
<1>3. /\ a \in Seq(Tokens) /\ Len(a) = 3 + Len(t) /\ a[1] \in Dashes /\ a[2] = flag
      /\ \A i \in 1 .. Len(t) : a[3 + i] = t[i]
  <2>1. h \in Seq(Tokens) /\ t \in Seq(Tokens) /\ a = h \o t
    BY <1>1, <1>2 DEF h, Joined
  <2> HIDE DEF a
  <2>2. /\ a \in Seq(Tokens) /\ Len(a) = Len(h) + Len(t)
        /\ \A i \in 1 .. Len(h) : a[i] = h[i]
        /\ \A i \in 1 .. Len(t) : a[Len(h) + i] = t[i]
    BY <2>1, Cat
  <2>3. 1 \in 1 .. 3 /\ 2 \in 1 .. 3
    OBVIOUS
  <2>4. a[1] = dash /\ a[2] = flag
    BY <1>1, <2>2, <2>3
  <2> QED BY <1>1, <2>2, <2>4
<1> HIDE DEF a
<1>4. SubSeq(a, 4, Len(a)) = t
  <2> DEFINE u == SubSeq(a, 4, Len(a))
  <2>1. u \in Seq(Tokens) /\ Len(u) = Len(t)
    BY <1>2, <1>3
  <2>2. ASSUME NEW i \in 1 .. Len(t) PROVE u[i] = t[i]
    <3>1. u[i] = a[4 + i - 1] /\ 4 + i - 1 = 3 + i
      BY <1>2, <1>3
    <3> QED BY <1>3, <3>1
  <2> HIDE DEF u
  <2>3. u = t
    BY <1>2, <2>1, <2>2, SeqEqual
  <2> QED BY <2>3 DEF u
<1>5. Dashed(a) /\ a # Terminator /\ Len(a) > 2
  BY <1>2, <1>3 DEF Dashed, Terminator
<1>6. Step(fs, r, a) = IF flag \notin DOMAIN fs THEN Failed(r) ELSE SetFlag(fs, r, flag, t)
  BY <1>3, <1>4, <1>5, FlagStep
<1> QED BY <1>6 DEF a, h

LEMMA SplitStep ==
  ASSUME NEW fs, NEW r, Between(r), NEW dash \in Dashes, NEW flag, NEW t,
         flag \in DOMAIN fs => flag # "" /\ fs[flag] # "bool"
  PROVE  LET q == Step(fs, Step(fs, r, Short(dash, flag)), t)
         IN IF flag \notin DOMAIN fs THEN q = Failed(r) ELSE q = SetFlag(fs, r, flag, t)
<1>1. CASE flag \notin DOMAIN fs
  <2>1. Step(fs, r, Short(dash, flag)) = Failed(r)
    BY <1>1, ShortStep
  <2>2. ~Failed(r).ok
    BY DEF Failed, Between, Rec
  <2> QED BY <1>1, <2>1, <2>2, FailedStays
<1>2. CASE flag \in DOMAIN fs
  <2> DEFINE u == Pending(r, flag)
  <2>1. Step(fs, r, Short(dash, flag)) = u
    <3> DEFINE a == Short(dash, flag)
    <3>1. Step(fs, r, a) = IF flag \notin DOMAIN fs THEN Failed(r)
                           ELSE IF fs[flag] = "bool" THEN SetFlag(fs, r, flag, <<"true">>) ELSE u
      BY ShortStep
    <3> HIDE DEF a, u
    <3>2. Step(fs, r, a) = u
      BY <1>2, <3>1
    <3> QED BY <3>2 DEF a
  <2>2. u.ok = TRUE /\ u.flag = flag /\ flag # "" /\ [u EXCEPT !.flag = ""] = r
    BY <1>2 DEF Between, Rec, Pending
  <2> HIDE DEF u
  <2>3. Step(fs, u, t) = SetFlag(fs, r, flag, t)
    BY <2>2 DEF Step, ParseArg
  <2> QED BY <1>2, <2>1, <2>3
<1> QED BY <1>1, <1>2

LEMMA OneAndOne == ASSUME NEW a, NEW b PROVE <<a>> \o <<b>> = <<a, b>>
<1> DEFINE S == {a, b}
           s == <<a>>
           t == <<b>>
           u == <<a, b>>
<1>1. s \in Seq(S) /\ t \in Seq(S) /\ u \in Seq(S)
  OBVIOUS
<1>2. Len(s) = 1 /\ Len(t) = 1 /\ Len(u) = 2
  OBVIOUS
<1>3. s[1] = a /\ t[1] = b /\ u[1] = a /\ u[2] = b
  OBVIOUS
<1> HIDE DEF S, s, t, u
<1>4. s \o t \in Seq(S) /\ Len(s \o t) = 2 /\ (s \o t)[1] = a /\ (s \o t)[2] = b
  <2>1. /\ s \o t \in Seq(S) /\ Len(s \o t) = Len(s) + Len(t)
        /\ \A i \in 1 .. Len(s) + Len(t) : (s \o t)[i] = IF i <= Len(s) THEN s[i] ELSE t[i - Len(s)]
    BY <1>1, ConcatProperties
  <2> QED BY <1>2, <1>3, <2>1
<1>5. s \o t = u
  <2>1. \A i \in 1 .. 2 : i = 1 \/ i = 2
    OBVIOUS
  <2> QED BY <1>1, <1>2, <1>3, <1>4, <2>1, SeqEqual
<1> QED BY <1>5 DEF s, t, u

\* How an item is typed.
LEMMA TypedIs ==
  ASSUME NEW cmd, cmd # "exec", NEW x, NEW last, Item(cmd, x, last), NEW form \in Forms
  PROVE  /\ x.kind \in {"word", "after", "option", "switch"}
         /\ x.kind = "word" => Typed(x, form) = <<x.text>> /\ x.text \in Text /\ ~Dashed(x.text)
         /\ x.kind = "after" => Typed(x, form) = <<Terminator, x.texts[1]>> /\ x.texts[1] \in Text
         /\ x.kind = "option" =>
              /\ x.flag \in Tokens /\ x.text \in Text
              /\ \/ Typed(x, form) = <<Joined(form.dash, x.flag, x.text)>>
                 \/ x.flag # "force" /\ Typed(x, form) = <<Short(form.dash, x.flag), x.text>>
         /\ x.kind = "switch" =>
              /\ x.flag \in Tokens /\ x.text = <<"true">>
              /\ Typed(x, form) = <<Short(form.dash, x.flag)>>
              /\ last \/ x.flag \notin DOMAIN Flags(cmd) \/ Flags(cmd)[x.flag] = "bool"
<1>1. x.kind \in {"word", "after", "option", "switch"}
  BY DEF Item
<1>2. CASE x.kind = "word"
  BY <1>2 DEF Item, Typed
<1>3. CASE x.kind = "after"
  <2>1. x.texts \in Seq(Text) /\ Len(x.texts) = 1
    BY <1>3 DEF Item
  <2>2. Typed(x, form) = <<Terminator>> \o x.texts
    BY <1>3 DEF Typed
  <2> DEFINE d == Terminator
             ts == x.texts
  <2>3. ts = <<ts[1]>> /\ ts[1] \in Text
    BY <2>1
  <2> HIDE DEF d, ts
  <2>4. <<d>> \o <<ts[1]>> = <<d, ts[1]>>
    BY OneAndOne
  <2>5. <<d>> \o ts = <<d, ts[1]>>
    BY <2>3, <2>4
  <2>6. Typed(x, form) = <<d, ts[1]>>
    BY <2>2, <2>5 DEF d, ts
  <2> QED BY <1>3, <2>3, <2>6 DEF d, ts
<1>4. CASE x.kind = "option"
  <2>1. x.flag \in Tokens /\ x.text \in Text
    BY <1>4 DEF Item
  <2>2. \/ Typed(x, form) = <<Joined(form.dash, x.flag, x.text)>>
        \/ x.flag # "force" /\ Typed(x, form) = <<Short(form.dash, x.flag), x.text>>
    <3>1. CASE form.joined \/ x.flag = "force"
      BY <1>4, <3>1 DEF Typed
    <3>2. CASE ~(form.joined \/ x.flag = "force")
      BY <1>4, <3>2 DEF Typed
    <3> QED BY <3>1, <3>2
  <2> QED BY <1>4, <2>1, <2>2
<1>5. CASE x.kind = "switch"
  <2>1. /\ x.flag \in Tokens /\ x.text = <<"true">>
        /\ last \/ x.flag \notin DOMAIN Flags(cmd) \/ Flags(cmd)[x.flag] = "bool"
    BY <1>5 DEF Item
  <2>2. Typed(x, form) = <<Short(form.dash, x.flag)>>
    BY <1>5 DEF Typed
  <2> QED BY <1>5, <2>1, <2>2
<1> QED BY <1>1, <1>2, <1>3, <1>4, <1>5

LEMMA TypedLength ==
  ASSUME NEW cmd, cmd # "exec", NEW x, NEW last, Item(cmd, x, last), NEW form \in Forms
  PROVE  Typed(x, form) \in Seq(Text) /\ Len(Typed(x, form)) \in {1, 2}
<1>1. \A a \in Text : <<a>> \in Seq(Text) /\ Len(<<a>>) = 1
  OBVIOUS
<1>2. \A a, b \in Text : <<a, b>> \in Seq(Text) /\ Len(<<a, b>>) = 2
  OBVIOUS
<1>3. /\ Terminator \in Text
      /\ \A c \in Tokens : Short(form.dash, c) \in Text /\ \A t \in Text : Joined(form.dash, c, t) \in Text
  <2>1. form.dash \in Tokens /\ "=" \in Tokens /\ "--" \in Tokens
    BY MsbctlAssumption DEF Forms, Dashes
  <2>2. \A c \in Tokens : <<form.dash, c, "=">> \in Seq(Tokens)
    BY <2>1
  <2>3. \A a, b \in Seq(Tokens) : a \o b \in Seq(Tokens)
    OBVIOUS
  <2> QED BY <2>1, <2>2, <2>3 DEF Text, Terminator, Short, Joined
<1>4. CASE x.kind = "word"
  BY <1>1, <1>4, TypedIs
<1>5. CASE x.kind = "after"
  BY <1>2, <1>3, <1>5, TypedIs
<1>6. CASE x.kind = "option"
  <2>1. /\ x.flag \in Tokens /\ x.text \in Text
        /\ \/ Typed(x, form) = <<Joined(form.dash, x.flag, x.text)>>
           \/ Typed(x, form) = <<Short(form.dash, x.flag), x.text>>
    BY <1>6, TypedIs
  <2>2. Joined(form.dash, x.flag, x.text) \in Text /\ Short(form.dash, x.flag) \in Text
    BY <1>3, <2>1
  <2> QED BY <1>1, <1>2, <2>1, <2>2
<1>7. CASE x.kind = "switch"
  <2>1. x.flag \in Tokens /\ Typed(x, form) = <<Short(form.dash, x.flag)>>
    BY <1>7, TypedIs
  <2> QED BY <1>1, <1>3, <2>1
<1> QED BY <1>4, <1>5, <1>6, <1>7, TypedIs

LEMMA ReadItemOne == ASSUME NEW fs, NEW r, NEW a PROVE ReadItem(fs, r, <<a>>) = Step(fs, r, a)
<1> DEFINE s == <<a>>
<1>1. Len(s) = 1 /\ s[1] = a
  OBVIOUS
<1> HIDE DEF s
<1>2. ReadItem(fs, r, s) = Step(fs, r, a)
  BY <1>1 DEF ReadItem
<1> QED BY <1>2 DEF s

LEMMA ReadItemTwo ==
  ASSUME NEW fs, NEW r, NEW a, NEW b PROVE ReadItem(fs, r, <<a, b>>) = Step(fs, Step(fs, r, a), b)
<1> DEFINE s == <<a, b>>
<1>1. Len(s) = 2 /\ s[1] = a /\ s[2] = b
  OBVIOUS
<1> HIDE DEF s
<1>2. ReadItem(fs, r, s) = Step(fs, Step(fs, r, a), b)
  BY <1>1 DEF ReadItem
<1> QED BY <1>2 DEF s

\* An item is read for what it is, however it is typed.
LEMMA ItemRead ==
  ASSUME NEW cmd, cmd # "exec", NEW x, NEW last, Item(cmd, x, last), NEW form \in Forms,
         NEW r, Between(r)
  PROVE  LET fs == Flags(cmd)
             q == ReadItem(fs, r, Typed(x, form))
         IN /\ x.kind = "word" => q = WithPos(r, x.text)
            /\ x.kind = "after" => q = WithPos(r, x.texts[1])
            /\ x.kind \in {"option", "switch"} =>
                 \/ x.flag \notin DOMAIN fs /\ q = Failed(r)
                 \/ /\ x.flag \in DOMAIN fs /\ x.kind = "switch" /\ fs[x.flag] # "bool" /\ last
                    /\ q = Pending(r, x.flag)
                 \/ /\ x.flag \in DOMAIN fs /\ (x.kind = "switch" => fs[x.flag] = "bool")
                    /\ q = SetFlag(fs, r, x.flag, x.text)
<1> DEFINE fs == Flags(cmd)
           typed == Typed(x, form)
           q == ReadItem(fs, r, typed)
<1>0. form.dash \in Dashes
  BY DEF Forms
<1>1. CASE x.kind = "word"
  <2>1. typed = <<x.text>> /\ ~Dashed(x.text)
    BY <1>1, TypedIs
  <2>2. q = Step(fs, r, x.text)
    BY <2>1, ReadItemOne
  <2> HIDE DEF q, fs, typed
  <2>3. q = WithPos(r, x.text)
    BY <2>1, <2>2, WordStep
  <2> QED BY <1>1, <2>3 DEF q, fs, typed
<1>2. CASE x.kind = "after"
  <2>1. typed = <<Terminator, x.texts[1]>>
    BY <1>2, TypedIs
  <2>2. q = Step(fs, Step(fs, r, Terminator), x.texts[1])
    BY <2>1, ReadItemTwo
  <2> HIDE DEF q, fs, typed
  <2>3. q = WithPos(r, x.texts[1])
    BY <2>2, AfterStep
  <2> QED BY <1>2, <2>3 DEF q, fs, typed
<1>3. CASE x.kind = "option"
  <2>1. /\ x.flag \in Tokens /\ x.text \in Text
        /\ \/ typed = <<Joined(form.dash, x.flag, x.text)>>
           \/ x.flag # "force" /\ typed = <<Short(form.dash, x.flag), x.text>>
    BY <1>3, TypedIs
  <2>2. x.flag \in DOMAIN fs => x.flag # "" /\ (fs[x.flag] = "bool" <=> x.flag = "force")
    <3>1. FlagSet(fs)
      BY FlagsAre
    <3> HIDE DEF fs
    <3> QED BY <3>1 DEF FlagSet
  <2> HIDE DEF fs
  <2>3. q = IF x.flag \notin DOMAIN fs THEN Failed(r) ELSE SetFlag(fs, r, x.flag, x.text)
    <3>1. CASE typed = <<Joined(form.dash, x.flag, x.text)>>
      <4>1. q = Step(fs, r, Joined(form.dash, x.flag, x.text))
        BY <3>1, ReadItemOne
      <4> QED BY <1>0, <2>1, <4>1, JoinedStep
    <3>2. CASE x.flag # "force" /\ typed = <<Short(form.dash, x.flag), x.text>>
      <4>1. q = Step(fs, Step(fs, r, Short(form.dash, x.flag)), x.text)
        BY <3>2, ReadItemTwo
      <4>2. x.flag \in DOMAIN fs => x.flag # "" /\ fs[x.flag] # "bool"
        BY <2>2, <3>2
      <4> QED BY <1>0, <4>1, <4>2, SplitStep
    <3> QED BY <2>1, <3>1, <3>2
  <2> HIDE DEF q, typed
  <2>4. \/ x.flag \notin DOMAIN fs /\ q = Failed(r)
        \/ x.flag \in DOMAIN fs /\ q = SetFlag(fs, r, x.flag, x.text)
    BY <2>3
  <2> QED BY <1>3, <2>4 DEF q, fs, typed
<1>4. CASE x.kind = "switch"
  <2>1. /\ x.flag \in Tokens /\ x.text = <<"true">>
        /\ typed = <<Short(form.dash, x.flag)>>
        /\ last \/ x.flag \notin DOMAIN fs \/ fs[x.flag] = "bool"
    BY <1>4, TypedIs
  <2>2. q = Step(fs, r, Short(form.dash, x.flag))
    BY <2>1, ReadItemOne
  <2> HIDE DEF q, typed, fs
  <2>3. q = IF x.flag \notin DOMAIN fs THEN Failed(r)
            ELSE IF fs[x.flag] = "bool" THEN SetFlag(fs, r, x.flag, <<"true">>)
            ELSE Pending(r, x.flag)
    BY <1>0, <2>2, ShortStep
  <2> DEFINE yes == <<"true">>
  <2> HIDE DEF yes
  <2>4. x.text = yes
    BY <2>1 DEF yes
  <2>5. q = IF x.flag \notin DOMAIN fs THEN Failed(r)
            ELSE IF fs[x.flag] = "bool" THEN SetFlag(fs, r, x.flag, x.text)
            ELSE Pending(r, x.flag)
    BY <2>3, <2>4 DEF yes
  <2>6. \/ x.flag \notin DOMAIN fs /\ q = Failed(r)
        \/ x.flag \in DOMAIN fs /\ fs[x.flag] # "bool" /\ last /\ q = Pending(r, x.flag)
        \/ x.flag \in DOMAIN fs /\ fs[x.flag] = "bool" /\ q = SetFlag(fs, r, x.flag, x.text)
    BY <2>1, <2>5
  <2> QED BY <1>4, <2>6 DEF q, fs, typed
<1> QED BY <1>1, <1>2, <1>3, <1>4, TypedIs

\* A flag is set if its value is right.
Right(kind, t) ==
  /\ kind = "bool" => t \in {<<"true">>, <<"false">>}
  /\ kind = "map" => KeysOf(t) # {}

LEMMA SetFlagIs ==
  ASSUME NEW fs, NEW r, Between(r), NEW flag, NEW t, fs[flag] = "map" => t \in Text
  PROVE  LET q == SetFlag(fs, r, flag, t)
         IN /\ ~Right(fs[flag], t) => q = Failed(r)
            /\ Right(fs[flag], t) => Between(q) /\ q.pos = r.pos
            /\ Right(fs[flag], t) /\ fs[flag] # "map" =>
                 q.value = Setting(r.value, flag, t) /\ q.map = r.map
            /\ Right(fs[flag], t) /\ fs[flag] = "map" =>
                 /\ q.value = r.value
                 /\ \E k : KeysOf(t) = {k} /\ q.map = Setting(r.map, k, SubSeq(t, Len(k) + 2, Len(t)))
<1> DEFINE q == SetFlag(fs, r, flag, t)
           kind == fs[flag]
<1>1. CASE kind = "map"
  <2>1. q = SetPair(r, t)
    BY <1>1 DEF SetFlag
  <2>2. Right(kind, t) <=> KeysOf(t) # {}
    BY <1>1 DEF Right
  <2> DEFINE k == SubSeq(t, 1, EqualsAt(t) - 1)
             v == SubSeq(t, EqualsAt(t) + 1, Len(t))
  <2>3. CASE EqualsAt(t) > 1
    <3>1. KeysOf(t) = {k} /\ Len(k) + 2 = EqualsAt(t) + 1
      BY <1>1, <2>3, KeyFound
    <3>2. q = [r EXCEPT !.map = Setting(@, k, v)]
      BY <2>1, <2>3 DEF SetPair
    <3>3. v = SubSeq(t, Len(k) + 2, Len(t))
      BY <3>1
    <3> HIDE DEF k, v
    <3>4. Between(q) /\ q.pos = r.pos /\ q.value = r.value /\ q.map = Setting(r.map, k, v)
      BY <3>2 DEF Between, Rec
    <3> HIDE DEF q
    <3>5. KeysOf(t) # {}
      BY <3>1
    <3> QED BY <1>1, <2>2, <3>1, <3>3, <3>4, <3>5 DEF q
  <2>4. CASE ~(EqualsAt(t) > 1)
    <3>1. KeysOf(t) = {} /\ q = Failed(r)
      BY <1>1, <2>1, <2>4, KeyFound DEF SetPair
    <3> QED BY <2>2, <3>1
  <2> QED BY <2>3, <2>4
<1>2. CASE kind # "map" /\ ~Right(kind, t)
  BY <1>2 DEF SetFlag, Right
<1>3. CASE kind # "map" /\ Right(kind, t)
  <2>1. q = [r EXCEPT !.value = Setting(@, flag, t)]
    BY <1>3 DEF SetFlag, Right
  <2>2. Between(q) /\ q.pos = r.pos /\ q.value = Setting(r.value, flag, t) /\ q.map = r.map
    BY <2>1 DEF Between, Rec
  <2> HIDE DEF q
  <2> QED BY <1>3, <2>2 DEF q
<1> QED BY <1>1, <1>2, <1>3

-----------------------------------------------------------------------------
(* What is meant by the items up to one.                                     *)

GivenUpTo(n, flag) == {i \in Given(flag) : i <= n}
GivenWith(n, flag, k) == {i \in GivenUpTo(n, flag) : k \in KeysOf(call.told[i].text)}
KeysUpTo(n, flag) == UNION {KeysOf(call.told[i].text) : i \in GivenUpTo(n, flag)}
AfterKey(k, t) == SubSeq(t, Len(k) + 2, Len(t))
MeantForUpTo(n, flag, k) == AfterKey(k, call.told[Max(GivenWith(n, flag, k))].text)

IsOption(x) == x.kind \in {"option", "switch"}
ItemRight(fs, x) ==
  IsOption(x) => /\ x.flag \in DOMAIN fs
                 /\ x.kind = "switch" => fs[x.flag] = "bool"
                 /\ Right(fs[x.flag], x.text)
AllRight(fs, n) == \A i \in 1 .. n : ItemRight(fs, call.told[i])

ValuesMean(fs, value, n) ==
  /\ DOMAIN value = {f \in DOMAIN fs : fs[f] # "map" /\ GivenUpTo(n, f) # {}}
  /\ \A f \in DOMAIN value : value[f] = call.told[Max(GivenUpTo(n, f))].text
PairsMean(fs, map, n) ==
  \A f \in DOMAIN fs : fs[f] = "map" =>
    /\ DOMAIN map = KeysUpTo(n, f)
    /\ \A k \in DOMAIN map : map[k] = MeantForUpTo(n, f, k)
Means(fs, r, n, w) == r.pos = w /\ ValuesMean(fs, r.value, n) /\ PairsMean(fs, r.map, n)

LEMMA GivenNext ==
  ASSUME NEW m \in Nat, DOMAIN call.told = 1 .. m, NEW n \in Nat, n + 1 <= m, NEW f
  PROVE  LET x == call.told[n + 1]
         IN /\ IsOption(x) /\ x.flag = f => GivenUpTo(n + 1, f) = GivenUpTo(n, f) \cup {n + 1}
            /\ ~(IsOption(x) /\ x.flag = f) => GivenUpTo(n + 1, f) = GivenUpTo(n, f)
            /\ GivenUpTo(n, f) \subseteq 1 .. n
<1>1. \A i : i \in Given(f) <=> i \in 1 .. m /\ IsOption(call.told[i]) /\ call.told[i].flag = f
  BY DEF Given, IsOption
<1>2. n + 1 \in 1 .. m /\ \A i \in 1 .. m : i <= n + 1 <=> (i <= n \/ i = n + 1)
  OBVIOUS
<1>3. \A i \in 1 .. m : i <= n => i \in 1 .. n
  OBVIOUS
<1>4. \A i : i \in GivenUpTo(n + 1, f) <=> i \in Given(f) /\ i <= n + 1
  BY DEF GivenUpTo
<1>5. \A i : i \in GivenUpTo(n, f) <=> i \in Given(f) /\ i <= n
  BY DEF GivenUpTo
<1>6. ASSUME IsOption(call.told[n + 1]), call.told[n + 1].flag = f
      PROVE  GivenUpTo(n + 1, f) = GivenUpTo(n, f) \cup {n + 1}
  BY <1>1, <1>2, <1>4, <1>5, <1>6
<1>7. ASSUME ~(IsOption(call.told[n + 1]) /\ call.told[n + 1].flag = f)
      PROVE  GivenUpTo(n + 1, f) = GivenUpTo(n, f)
  BY <1>1, <1>2, <1>4, <1>5, <1>7
<1>8. GivenUpTo(n, f) \subseteq 1 .. n
  BY <1>1, <1>3, <1>5
<1> QED BY <1>6, <1>7, <1>8

LEMMA LastGiven ==
  ASSUME NEW n \in Nat, NEW I, I \subseteq 1 .. n
  PROVE  Max(I \cup {n + 1}) = n + 1
<1>1. I \cup {n + 1} \subseteq 1 .. n + 1
  <2>1. \A i \in 1 .. n : i \in 1 .. n + 1
    OBVIOUS
  <2> QED BY <2>1
<1> QED BY <1>1, MaxUpTo

\* What no option of an item changes.
LEMMA PairsKept ==
  ASSUME NEW n, NEW fs, NEW map, PairsMean(fs, map, n),
         \A f \in DOMAIN fs : fs[f] = "map" => GivenUpTo(n + 1, f) = GivenUpTo(n, f)
  PROVE  PairsMean(fs, map, n + 1)
<1> SUFFICES ASSUME NEW f \in DOMAIN fs, fs[f] = "map"
             PROVE  /\ DOMAIN map = KeysUpTo(n + 1, f)
                    /\ \A k \in DOMAIN map : map[k] = MeantForUpTo(n + 1, f, k)
  BY DEF PairsMean
<1>1. KeysUpTo(n + 1, f) = KeysUpTo(n, f)
  BY DEF KeysUpTo
<1>2. \A k : MeantForUpTo(n + 1, f, k) = MeantForUpTo(n, f, k)
  BY DEF MeantForUpTo, GivenWith
<1>3. DOMAIN map = KeysUpTo(n, f) /\ \A k \in DOMAIN map : map[k] = MeantForUpTo(n, f, k)
  BY DEF PairsMean
<1> QED BY <1>1, <1>2, <1>3

LEMMA ValuesKept ==
  ASSUME NEW n, NEW fs, NEW value, ValuesMean(fs, value, n),
         \A f \in DOMAIN fs : fs[f] # "map" => GivenUpTo(n + 1, f) = GivenUpTo(n, f)
  PROVE  ValuesMean(fs, value, n + 1)
<1>1. \A f : f \in DOMAIN value <=> f \in DOMAIN fs /\ fs[f] # "map" /\ GivenUpTo(n, f) # {}
  BY DEF ValuesMean
<1>2. \A f : f \in DOMAIN value <=> f \in DOMAIN fs /\ fs[f] # "map" /\ GivenUpTo(n + 1, f) # {}
  BY <1>1
<1>3. DOMAIN value = {f \in DOMAIN fs : fs[f] # "map" /\ GivenUpTo(n + 1, f) # {}}
  BY <1>2
<1>4. \A f \in DOMAIN value : value[f] = call.told[Max(GivenUpTo(n + 1, f))].text
  BY <1>1 DEF ValuesMean
<1> QED BY <1>3, <1>4 DEF ValuesMean

\* The last of an option's values counts.
LEMMA ValueMeans ==
  ASSUME NEW m \in Nat, DOMAIN call.told = 1 .. m, NEW n \in Nat, n + 1 <= m,
         NEW fs, NEW value, ValuesMean(fs, value, n),
         IsOption(call.told[n + 1]), call.told[n + 1].flag \in DOMAIN fs, fs[call.told[n + 1].flag] # "map"
  PROVE  ValuesMean(fs, Setting(value, call.told[n + 1].flag, call.told[n + 1].text), n + 1)
<1> DEFINE flag == call.told[n + 1].flag
           t == call.told[n + 1].text
           v == Setting(value, flag, t)
<1>1. GivenUpTo(n + 1, flag) = GivenUpTo(n, flag) \cup {n + 1} /\ GivenUpTo(n, flag) \subseteq 1 .. n
  BY GivenNext
<1>2. \A f : f # flag => GivenUpTo(n + 1, f) = GivenUpTo(n, f)
  BY GivenNext
<1>3. Max(GivenUpTo(n + 1, flag)) = n + 1
  BY <1>1, LastGiven
<1>4. flag \in DOMAIN fs /\ fs[flag] # "map"
  OBVIOUS
<1>5. DOMAIN v = DOMAIN value \cup {flag} /\ v[flag] = t /\ \A f \in DOMAIN value : f # flag => v[f] = value[f]
  BY DEF Setting
<1>6. call.told[n + 1].text = t
  OBVIOUS
<1> HIDE DEF v, flag, t
<1>7. \A f : f \in DOMAIN value <=> f \in DOMAIN fs /\ fs[f] # "map" /\ GivenUpTo(n, f) # {}
  BY DEF ValuesMean
<1>8. DOMAIN v = {f \in DOMAIN fs : fs[f] # "map" /\ GivenUpTo(n + 1, f) # {}}
  <2>1. GivenUpTo(n + 1, flag) # {}
    BY <1>1
  <2>2. \A f : f \in DOMAIN v <=> f \in DOMAIN fs /\ fs[f] # "map" /\ GivenUpTo(n + 1, f) # {}
    BY <1>2, <1>4, <1>5, <1>7, <2>1
  <2> QED BY <2>2
<1>9. ASSUME NEW f \in DOMAIN v PROVE v[f] = call.told[Max(GivenUpTo(n + 1, f))].text
  <2>1. CASE f = flag
    BY <1>3, <1>5, <1>6, <2>1
  <2>2. CASE f # flag
    <3>1. f \in DOMAIN value /\ v[f] = value[f]
      BY <1>5, <2>2
    <3>2. value[f] = call.told[Max(GivenUpTo(n, f))].text
      BY <3>1 DEF ValuesMean
    <3> QED BY <1>2, <2>2, <3>1, <3>2
  <2> QED BY <2>1, <2>2
<1>10. ValuesMean(fs, v, n + 1)
  BY <1>8, <1>9 DEF ValuesMean
<1> QED BY <1>10 DEF v, flag, t

\* kvFlag: the last of a key's values counts.
LEMMA PairMeans ==
  ASSUME NEW m \in Nat, DOMAIN call.told = 1 .. m, NEW n \in Nat, n + 1 <= m,
         NEW fs, FlagSet(fs), NEW map, PairsMean(fs, map, n),
         IsOption(call.told[n + 1]), call.told[n + 1].flag \in DOMAIN fs, fs[call.told[n + 1].flag] = "map",
         NEW k, KeysOf(call.told[n + 1].text) = {k}
  PROVE  PairsMean(fs, Setting(map, k, AfterKey(k, call.told[n + 1].text)), n + 1)
<1> DEFINE flag == call.told[n + 1].flag
           t == call.told[n + 1].text
           v == Setting(map, k, AfterKey(k, t))
<1>1. GivenUpTo(n + 1, flag) = GivenUpTo(n, flag) \cup {n + 1} /\ GivenUpTo(n, flag) \subseteq 1 .. n
  BY GivenNext
<1>2. flag \in DOMAIN fs /\ fs[flag] = "map" /\ KeysOf(t) = {k} /\ call.told[n + 1].text = t
  OBVIOUS
<1>3. DOMAIN v = DOMAIN map \cup {k} /\ v[k] = AfterKey(k, t) /\ \A j \in DOMAIN map : j # k => v[j] = map[j]
  BY DEF Setting
<1> HIDE DEF v, flag, t
<1>4. \A f \in DOMAIN fs : fs[f] = "map" => f = flag
  BY <1>2 DEF FlagSet
<1>5. DOMAIN map = KeysUpTo(n, flag) /\ \A j \in DOMAIN map : map[j] = MeantForUpTo(n, flag, j)
  BY <1>2 DEF PairsMean
<1>6. KeysUpTo(n + 1, flag) = KeysUpTo(n, flag) \cup {k}
  <2>1. \A j : j \in KeysUpTo(n + 1, flag) <=> \E i \in GivenUpTo(n + 1, flag) : j \in KeysOf(call.told[i].text)
    BY DEF KeysUpTo
  <2>2. \A j : j \in KeysUpTo(n, flag) <=> \E i \in GivenUpTo(n, flag) : j \in KeysOf(call.told[i].text)
    BY DEF KeysUpTo
  <2>3. \A j : j \in KeysUpTo(n + 1, flag) <=> j \in KeysUpTo(n, flag) \/ j \in KeysOf(call.told[n + 1].text)
    BY <1>1, <2>1, <2>2
  <2> QED BY <1>2, <2>3
<1>7. ASSUME NEW j \in DOMAIN v PROVE v[j] = MeantForUpTo(n + 1, flag, j)
  <2>1. \A i : i \in GivenWith(n + 1, flag, j) <=> i \in GivenUpTo(n + 1, flag) /\ j \in KeysOf(call.told[i].text)
    BY DEF GivenWith
  <2>2. \A i : i \in GivenWith(n, flag, j) <=> i \in GivenUpTo(n, flag) /\ j \in KeysOf(call.told[i].text)
    BY DEF GivenWith
  <2>3. CASE j = k
    <3>1. GivenWith(n + 1, flag, j) = GivenWith(n, flag, j) \cup {n + 1}
      BY <1>1, <1>2, <2>1, <2>2, <2>3
    <3>2. GivenWith(n, flag, j) \subseteq 1 .. n
      BY <1>1, <2>2
    <3>3. Max(GivenWith(n + 1, flag, j)) = n + 1
      BY <3>1, <3>2, LastGiven
    <3>4. MeantForUpTo(n + 1, flag, j) = AfterKey(j, call.told[n + 1].text)
      BY <3>3 DEF MeantForUpTo
    <3> QED BY <1>2, <1>3, <2>3, <3>4
  <2>4. CASE j # k
    <3>1. GivenWith(n + 1, flag, j) = GivenWith(n, flag, j)
      BY <1>1, <1>2, <2>1, <2>2, <2>4
    <3>2. MeantForUpTo(n + 1, flag, j) = MeantForUpTo(n, flag, j)
      BY <3>1 DEF MeantForUpTo
    <3> QED BY <1>3, <1>5, <2>4, <3>2
  <2> QED BY <2>3, <2>4
<1>8. PairsMean(fs, v, n + 1)
  <2> SUFFICES ASSUME NEW f \in DOMAIN fs, fs[f] = "map"
               PROVE  /\ DOMAIN v = KeysUpTo(n + 1, f)
                      /\ \A j \in DOMAIN v : v[j] = MeantForUpTo(n + 1, f, j)
    BY DEF PairsMean
  <2>1. f = flag
    BY <1>4
  <2> QED BY <1>3, <1>5, <1>6, <1>7, <2>1
<1> QED BY <1>8 DEF v, flag, t

\* parseFlags after n items: what it has is what is meant by them, or it has failed;
\* it may want a value only when there is no more.
Follows(fs, q, n, w) ==
  /\ Rec(q)
  /\ \/ AllRight(fs, n) /\ Between(q) /\ Means(fs, q, n, w)
     \/ ~AllRight(fs, n) /\ ~q.ok
     \/ ~AllRight(fs, n) /\ n = Len(call.told) /\ q.flag # ""

LEMMA RightNext ==
  ASSUME NEW n \in Nat, NEW fs
  PROVE  AllRight(fs, n + 1) <=> AllRight(fs, n) /\ ItemRight(fs, call.told[n + 1])
<1>1. \A i : i \in 1 .. n + 1 <=> i \in 1 .. n \/ i = n + 1
  OBVIOUS
<1> QED BY <1>1 DEF AllRight

LEMMA WordsShape ==
  ASSUME NEW cmd, NEW x, NEW last, Item(cmd, x, last)
  PROVE  Words(x) \in Seq(Text)
<1>1. CASE x.kind = "word"
  BY <1>1 DEF Item, Words
<1>2. CASE x.kind = "after"
  BY <1>2 DEF Item, Words
<1>3. CASE x.kind \in {"option", "switch"}
  BY <1>3 DEF Words
<1>4. x.kind \in {"word", "after", "option", "switch"}
  BY DEF Item
<1> QED BY <1>1, <1>2, <1>3, <1>4

LEMMA ItemFollows ==
  ASSUME NEW m \in Nat, DOMAIN call.told = 1 .. m, Len(call.told) = m, NEW n \in Nat, n + 1 <= m,
         call.cmd # "exec", Item(call.cmd, call.told[n + 1], n + 1 = m), NEW form \in Forms,
         NEW r, NEW w \in Seq(Text), Follows(Flags(call.cmd), r, n, w)
  PROVE  /\ Words(call.told[n + 1]) \in Seq(Text)
         /\ Follows(Flags(call.cmd), ReadItem(Flags(call.cmd), r, Typed(call.told[n + 1], form)),
                    n + 1, w \o Words(call.told[n + 1]))
<1> DEFINE x == call.told[n + 1]
           fs == Flags(call.cmd)
           s == Typed(x, form)
           q == ReadItem(fs, r, s)
           u == w \o Words(x)
<1>1. FlagSet(fs)
  BY FlagsAre
<1>2. AllRight(fs, n + 1) <=> AllRight(fs, n) /\ ItemRight(fs, x)
  BY RightNext
<1>3. x.kind \in {"word", "after", "option", "switch"}
  BY TypedIs
<1>4. Words(x) \in Seq(Text) /\ u \in Seq(Text)
  <2>1. Words(x) \in Seq(Text)
    BY WordsShape
  <2> QED BY <2>1
<1>5. CASE ~AllRight(fs, n)
  <2>1. ~r.ok /\ Rec(r)
    <3>1. n # Len(call.told)
      OBVIOUS
    <3> HIDE DEF fs, x, s, q, u
    <3>2. Follows(fs, r, n, w)
      BY DEF fs
    <3> QED BY <1>5, <3>1, <3>2 DEF Follows
  <2>2. q = r
    <3>1. \A a : Step(fs, r, a) = r
      BY <2>1, FailedStays
    <3> HIDE DEF fs, s
    <3> QED BY <3>1 DEF ReadItem
  <2> HIDE DEF q, fs, x, u
  <2>3. Follows(fs, q, n + 1, u)
    BY <1>2, <1>5, <2>1, <2>2 DEF Follows
  <2> QED BY <1>4, <2>3 DEF q, fs, x, u
<1>6. CASE AllRight(fs, n)
  <2>1. Between(r) /\ Means(fs, r, n, w)
    BY <1>6 DEF Follows
  <2>2. r.pos = w /\ ValuesMean(fs, r.value, n) /\ PairsMean(fs, r.map, n)
    BY <2>1 DEF Means
  <2>3. CASE x.kind \in {"word", "after"}
    <3> DEFINE t == IF x.kind = "word" THEN x.text ELSE x.texts[1]
    <3>1. q = WithPos(r, t)
      BY <2>1, <2>3, ItemRead
    <3>2. Words(x) = <<t>> /\ t \in Text
      <4>1. CASE x.kind = "word"
        BY <4>1 DEF Item, Words
      <4>2. CASE x.kind = "after"
        <5>1. x.texts \in Seq(Text) /\ Len(x.texts) = 1
          BY <4>2 DEF Item
        <5>2. x.texts = <<x.texts[1]>> /\ x.texts[1] \in Text
          BY <5>1
        <5>3. Words(x) = x.texts
          BY <4>2 DEF Words
        <5> QED BY <4>2, <5>2, <5>3
      <4> QED BY <2>3, <4>1, <4>2
    <3>3. ~IsOption(x)
      BY <2>3 DEF IsOption
    <3> HIDE DEF t, q
    <3>4. Between(q) /\ q.pos = Append(w, t) /\ q.value = r.value /\ q.map = r.map
      BY <2>1, <2>2, <3>1 DEF Between, Rec, WithPos
    <3>5. u = Append(w, t)
      BY <3>2
    <3>6. \A f : GivenUpTo(n + 1, f) = GivenUpTo(n, f)
      BY <3>3, GivenNext
    <3> HIDE DEF fs, x, u
    <3>7. ValuesMean(fs, q.value, n + 1) /\ PairsMean(fs, q.map, n + 1)
      BY <2>2, <3>4, <3>6, ValuesKept, PairsKept
    <3>8. ItemRight(fs, x)
      BY <3>3 DEF ItemRight
    <3>9. Follows(fs, q, n + 1, u)
      BY <1>2, <1>6, <3>4, <3>5, <3>7, <3>8 DEF Follows, Means, Between
    <3> QED BY <1>4, <3>9 DEF q, fs, x, u
  <2>4. CASE x.kind \in {"option", "switch"}
    <3>1. IsOption(x)
      BY <2>4 DEF IsOption
    <3>2. Words(x) = <<>>
      BY <2>4 DEF Words
    <3>3. u = w
      BY <3>2
    <3>4. \/ x.flag \notin DOMAIN fs /\ q = Failed(r)
          \/ /\ x.flag \in DOMAIN fs /\ x.kind = "switch" /\ fs[x.flag] # "bool" /\ n + 1 = m
             /\ q = Pending(r, x.flag)
          \/ /\ x.flag \in DOMAIN fs /\ (x.kind = "switch" => fs[x.flag] = "bool")
             /\ q = SetFlag(fs, r, x.flag, x.text)
      <4> DEFINE last == n + 1 = m
      <4>1. Item(call.cmd, x, last)
        OBVIOUS
      <4> HIDE DEF last, x
      <4>2. \/ x.flag \notin DOMAIN fs /\ q = Failed(r)
            \/ x.flag \in DOMAIN fs /\ x.kind = "switch" /\ fs[x.flag] # "bool" /\ last /\ q = Pending(r, x.flag)
            \/ /\ x.flag \in DOMAIN fs /\ (x.kind = "switch" => fs[x.flag] = "bool")
               /\ q = SetFlag(fs, r, x.flag, x.text)
        BY <2>1, <2>4, <4>1, ItemRead
      <4> QED BY <4>2 DEF last
    <3>5. x.kind = "option" => x.text \in Text
      BY TypedIs
    <3> HIDE DEF q, u
    <3>6. CASE x.flag \notin DOMAIN fs
      <4>1. ~ItemRight(fs, x)
        BY <3>1, <3>6 DEF ItemRight
      <4>2. q = Failed(r)
        BY <3>4, <3>6
      <4>3. ~q.ok /\ Rec(q)
        BY <2>1, <4>2 DEF Failed, Between, Rec
      <4> HIDE DEF fs, x
      <4>4. Follows(fs, q, n + 1, u)
        BY <1>2, <4>1, <4>3 DEF Follows
      <4> QED BY <1>4, <4>4 DEF q, fs, x, u
    <3>7. CASE x.flag \in DOMAIN fs /\ x.kind = "switch" /\ fs[x.flag] # "bool"
      <4>1. ~ItemRight(fs, x)
        BY <3>1, <3>7 DEF ItemRight
      <4>2. q = Pending(r, x.flag) /\ n + 1 = m
        BY <3>4, <3>7
      <4>3. x.flag # ""
        <5> HIDE DEF fs, x
        <5> QED BY <1>1, <3>7 DEF FlagSet
      <4>4. q.flag # "" /\ Rec(q)
        BY <2>1, <4>2, <4>3 DEF Pending, Between, Rec
      <4> HIDE DEF fs, x
      <4>5. Follows(fs, q, n + 1, u)
        BY <1>2, <4>1, <4>2, <4>4 DEF Follows
      <4> QED BY <1>4, <4>5 DEF q, fs, x, u
    <3>8. CASE x.flag \in DOMAIN fs /\ (x.kind = "switch" => fs[x.flag] = "bool")
      <4> DEFINE flag == x.flag
                 t == x.text
                 right == Right(fs[flag], t)
      <4>1. q = SetFlag(fs, r, flag, t)
        BY <3>4, <3>8
      <4>2. ItemRight(fs, x) <=> right
        BY <3>1, <3>8 DEF ItemRight
      <4>3. fs[flag] = "map" => t \in Text
        <5>1. CASE x.kind = "option"
          BY <3>5, <5>1
        <5>2. CASE x.kind = "switch"
          BY <3>8, <5>2
        <5> QED BY <2>4, <5>1, <5>2
      <4>4. flag \in DOMAIN fs
        BY <3>8
      <4> HIDE DEF fs, flag, t
      <4>5. /\ ~right => q = Failed(r)
            /\ right => Between(q) /\ q.pos = r.pos
            /\ right /\ fs[flag] # "map" => q.value = Setting(r.value, flag, t) /\ q.map = r.map
            /\ right /\ fs[flag] = "map" =>
                 /\ q.value = r.value
                 /\ \E k : KeysOf(t) = {k} /\ q.map = Setting(r.map, k, SubSeq(t, Len(k) + 2, Len(t)))
        BY <2>1, <4>1, <4>3, SetFlagIs
      <4> HIDE DEF right
      <4>6. CASE ~right
        <5>1. ~q.ok /\ Rec(q)
          BY <2>1, <4>5, <4>6 DEF Failed, Between, Rec
        <5> HIDE DEF x
        <5>2. Follows(fs, q, n + 1, u)
          BY <1>2, <4>2, <4>6, <5>1 DEF Follows
        <5> QED BY <1>4, <5>2 DEF q, fs, x, u
      <4>7. CASE right /\ fs[flag] # "map"
        <5>1. ValuesMean(fs, q.value, n + 1)
          <6>1. ValuesMean(fs, Setting(r.value, x.flag, x.text), n + 1)
            BY <2>2, <3>1, <4>4, <4>7, ValueMeans DEF flag
          <6> QED BY <4>5, <4>7, <6>1 DEF flag, t
        <5>2. \A f \in DOMAIN fs : fs[f] = "map" => GivenUpTo(n + 1, f) = GivenUpTo(n, f)
          <6>1. ASSUME NEW f \in DOMAIN fs, fs[f] = "map" PROVE GivenUpTo(n + 1, f) = GivenUpTo(n, f)
            <7>1. f # x.flag
              BY <4>7, <6>1 DEF flag
            <7> QED BY <7>1, GivenNext
          <6> QED BY <6>1
        <5> HIDE DEF x
        <5>3. PairsMean(fs, q.map, n + 1)
          BY <2>2, <4>5, <4>7, <5>2, PairsKept
        <5>4. Follows(fs, q, n + 1, u)
          BY <1>2, <1>6, <2>2, <3>3, <4>2, <4>5, <4>7, <5>1, <5>3 DEF Follows, Means, Between
        <5> QED BY <1>4, <5>4 DEF q, fs, x, u
      <4>8. CASE right /\ fs[flag] = "map"
        <5>1. PICK k : KeysOf(t) = {k} /\ q.map = Setting(r.map, k, AfterKey(k, t))
          BY <4>5, <4>8 DEF AfterKey
        <5>2. PairsMean(fs, q.map, n + 1)
          <6>1. PairsMean(fs, Setting(r.map, k, AfterKey(k, x.text)), n + 1)
            BY <1>1, <2>2, <3>1, <4>4, <4>8, <5>1, PairMeans DEF flag, t
          <6> QED BY <5>1, <6>1 DEF t
        <5>3. \A f \in DOMAIN fs : fs[f] # "map" => GivenUpTo(n + 1, f) = GivenUpTo(n, f)
          <6>1. ASSUME NEW f \in DOMAIN fs, fs[f] # "map" PROVE GivenUpTo(n + 1, f) = GivenUpTo(n, f)
            <7>1. f # x.flag
              BY <4>8, <6>1 DEF flag
            <7> QED BY <7>1, GivenNext
          <6> QED BY <6>1
        <5> HIDE DEF x
        <5>4. ValuesMean(fs, q.value, n + 1)
          BY <2>2, <4>5, <4>8, <5>3, ValuesKept
        <5>5. Follows(fs, q, n + 1, u)
          BY <1>2, <1>6, <2>2, <3>3, <4>2, <4>5, <4>8, <5>2, <5>4 DEF Follows, Means, Between
        <5> QED BY <1>4, <5>5 DEF q, fs, x, u
      <4> QED BY <4>6, <4>7, <4>8
    <3> QED BY <3>4, <3>6, <3>7, <3>8
  <2> QED BY <1>3, <2>3, <2>4
<1> QED BY <1>5, <1>6

LEMMA Told ==
  ASSUME call \in Calls
  PROVE  /\ Len(call.told) \in Nat /\ DOMAIN call.told = 1 .. Len(call.told)
         /\ \A i \in DOMAIN call.told : Item(call.cmd, call.told[i], i = Len(call.told))
<1> DEFINE S == ToSet(call.told)
<1>1. Invocation(call)
  BY Zenon, MsbctlAssumption
<1>2. call.told \in Seq(S)
  BY <1>1 DEF Invocation
<1>3. \A i \in DOMAIN call.told : Item(call.cmd, call.told[i], i = Len(call.told))
  BY <1>1 DEF Invocation
<1> HIDE DEF S
<1>4. Len(call.told) \in Nat /\ DOMAIN call.told = 1 .. Len(call.told)
  BY <1>2
<1> QED BY <1>3, <1>4

LEMMA FollowsFirst ==
  ASSUME call \in Calls, NEW fs
  PROVE  Follows(fs, NoArgs, 0, <<>>)
<1>1. \A f : GivenUpTo(0, f) = {}
  BY Told DEF GivenUpTo, Given
<1>2. Rec(NoArgs) /\ Between(NoArgs)
  BY DEF Rec, Between, NoArgs
<1>3. AllRight(fs, 0)
  BY DEF AllRight
<1>4. NoArgs.pos = <<>> /\ DOMAIN NoArgs.value = {} /\ DOMAIN NoArgs.map = {}
  BY DEF NoArgs
<1>5. ValuesMean(fs, NoArgs.value, 0)
  BY <1>1, <1>4 DEF ValuesMean
<1>6. PairsMean(fs, NoArgs.map, 0)
  <2>1. \A f : KeysUpTo(0, f) = {}
    BY <1>1 DEF KeysUpTo
  <2> QED BY <1>4, <2>1 DEF PairsMean
<1> QED BY <1>2, <1>3, <1>4, <1>5, <1>6 DEF Follows, Means

\* parseFlags reads the items that are meant, each for what it is, wherever flags
\* and positionals are and however flags are typed.
LEMMA ParsedMeans ==
  ASSUME call \in Calls, call.cmd # "exec", NEW form \in [DOMAIN call.told -> Forms],
         args = FlattenSeq([i \in DOMAIN call.told |-> Typed(call.told[i], form[i])])
  PROVE  LET fs == Flags(call.cmd)
             r == ParseFlags(call.cmd)
             m == Len(call.told)
         IN /\ WordsMeant \in Seq(Text)
            /\ AllRight(fs, m) => r.ok = TRUE /\ Means(fs, r, m, WordsMeant)
            /\ ~AllRight(fs, m) => ~r.ok
<1> DEFINE fs == Flags(call.cmd)
           m == Len(call.told)
           ss == [i \in DOMAIN call.told |-> Typed(call.told[i], form[i])]
           ws == [i \in DOMAIN call.told |-> Words(call.told[i])]
           N == Len(args)
<1>1. /\ m \in Nat /\ DOMAIN call.told = 1 .. m
      /\ \A i \in 1 .. m : Item(call.cmd, call.told[i], i = m) /\ form[i] \in Forms
  BY Told
<1>2. ss \in Seq(Seq(Text)) /\ Len(ss) = m /\ \A i \in 1 .. m : ss[i] = Typed(call.told[i], form[i]) /\ Len(ss[i]) \in {1, 2}
  <2>1. \A i \in 1 .. m : Typed(call.told[i], form[i]) \in Seq(Text) /\ Len(Typed(call.told[i], form[i])) \in {1, 2}
    BY <1>1, TypedLength
  <2> QED BY <1>1, <2>1
<1>3. ws \in Seq(Seq(Text)) /\ Len(ws) = m /\ \A i \in 1 .. m : ws[i] = Words(call.told[i])
  <2>1. \A i \in 1 .. m : Words(call.told[i]) \in Seq(Text)
    BY <1>1, WordsShape
  <2> QED BY <1>1, <2>1
<1>4. args = FlattenSeq(ss) /\ WordsMeant = FlattenSeq(ws)
  BY DEF WordsMeant
<1> HIDE DEF fs, m, ss, ws
<1>5. PICK f : Joins(ss, f) /\ args = f[m]
  BY <1>2, <1>4, Flattened
<1>6. PICK g : Joins(ws, g) /\ WordsMeant = g[m]
  BY <1>3, <1>4, Flattened
<1>7. \A n \in 0 .. m : f[n] \in Seq(Text) /\ g[n] \in Seq(Text)
  BY <1>2, <1>3, <1>5, <1>6, JoinedSeqs
<1>8. N \in Nat /\ DOMAIN args = 1 .. N
  <2>1. args \in Seq(Text)
    BY <1>1, <1>5, <1>7
  <2> QED BY <2>1
<1> HIDE DEF N
<1>9. PICK p : Trace(fs, args, N, p) /\ ParseAll(fs, args) = p[N]
  BY <1>8, Traced
<1> DEFINE T == {n \in Nat : n <= m => Follows(fs, p[Len(f[n])], n, g[n])}
<1>10. 0 \in T
  <2>1. f[0] = <<>> /\ g[0] = <<>> /\ Len(<<>>) = 0
    BY <1>5, <1>6 DEF Joins
  <2>2. p[0] = NoArgs
    BY <1>9 DEF Trace
  <2> QED BY <2>1, <2>2, FollowsFirst
<1>11. ASSUME NEW n \in Nat, n \in T PROVE n + 1 \in T
  <2> SUFFICES ASSUME n + 1 <= m PROVE Follows(fs, p[Len(f[n + 1])], n + 1, g[n + 1])
    OBVIOUS
  <2> DEFINE x == call.told[n + 1]
             s == ss[n + 1]
             at == Len(f[n])
  <2>1. n + 1 \in 1 .. m /\ n \in 0 .. m /\ n <= m /\ (n + 1) - 1 = n /\ m \in 0 .. m
    BY <1>1
  <2>2. f[n + 1] = Then(f[n], s) /\ g[n + 1] = Then(g[n], Words(x))
    BY <1>2, <1>3, <1>5, <1>6, <2>1 DEF Joins
  <2>3. /\ Item(call.cmd, x, n + 1 = m) /\ form[n + 1] \in Forms
        /\ s = Typed(x, form[n + 1]) /\ Len(s) \in {1, 2} /\ s \in Seq(Text)
    BY <1>1, <1>2, <2>1
  <2>4. f[n] \in Seq(Text) /\ g[n] \in Seq(Text)
    BY <1>7, <2>1
  <2>5. Len(f[n + 1]) = at + Len(s) /\ at \in Nat
    BY <2>2, <2>3, <2>4 DEF Then
  <2>6. at + Len(s) <= N /\ \A j \in 1 .. Len(s) : args[at + j] = s[j]
    <3>1. Placed(ss, f, m, n + 1)
      BY <1>2, <1>5, <2>1, JoinedAt
    <3> QED BY <1>5, <2>1, <3>1 DEF Placed, N
  <2>7. Follows(fs, p[at], n, g[n])
    BY <1>11, <2>1
  <2> HIDE DEF x, s, at
  <2>8. p[at + Len(s)] = ReadItem(fs, p[at], s)
    <3>1. CASE Len(s) = 1
      <4>1. at + 1 \in 1 .. N /\ (at + 1) - 1 = at /\ args[at + 1] = s[1]
        BY <1>8, <2>5, <2>6, <3>1
      <4> QED BY <1>9, <3>1, <4>1 DEF Trace, ReadItem
    <3>2. CASE Len(s) = 2
      <4>1. /\ at + 1 \in 1 .. N /\ (at + 1) - 1 = at /\ args[at + 1] = s[1]
            /\ at + 2 \in 1 .. N /\ (at + 2) - 1 = at + 1 /\ args[at + 2] = s[2]
        BY <1>8, <2>5, <2>6, <3>2
      <4>2. p[at + 1] = Step(fs, p[at], s[1]) /\ p[at + 2] = Step(fs, p[at + 1], s[2])
        BY <1>9, <4>1 DEF Trace
      <4> QED BY <3>2, <4>2 DEF ReadItem
    <3> QED BY <2>3, <3>1, <3>2
  <2>9. Follows(fs, ReadItem(fs, p[at], s), n + 1, g[n] \o Words(x))
    BY <1>1, <2>1, <2>3, <2>4, <2>7, ItemFollows DEF fs, m, x
  <2> QED BY <2>2, <2>5, <2>8, <2>9 DEF Then
<1> HIDE DEF T
<1>12. m \in T
  BY <1>1, <1>10, <1>11, Induct
<1>13. Follows(fs, p[N], m, WordsMeant)
  BY <1>1, <1>5, <1>6, <1>12 DEF T, N
<1> DEFINE all == ParseAll(fs, args)
           r == ParseFlags(call.cmd)
<1>14. all = p[N]
  BY <1>9
<1>15. r = IF all.flag # "" THEN Failed(all) ELSE all
  BY DEF ParseFlags, fs
<1>16. WordsMeant \in Seq(Text)
  BY <1>1, <1>6, <1>7
<1> HIDE DEF all, r
<1>17. CASE AllRight(fs, m)
  <2>1. Between(all) /\ Means(fs, all, m, WordsMeant)
    BY <1>13, <1>14, <1>17 DEF Follows
  <2>2. r = all /\ r.ok = TRUE
    BY <1>15, <2>1 DEF Between
  <2>3. Means(fs, r, m, WordsMeant)
    BY <2>1, <2>2
  <2> QED BY <1>16, <1>17, <2>2, <2>3 DEF fs, m, r
<1>18. CASE ~AllRight(fs, m)
  <2>1. Rec(all) /\ (~all.ok \/ all.flag # "")
    BY <1>13, <1>14, <1>18 DEF Follows
  <2>2. ~Failed(all).ok
    BY <2>1 DEF Rec, Failed
  <2>3. ~r.ok
    BY <1>15, <2>1, <2>2
  <2> QED BY <1>16, <1>18, <2>3 DEF fs, m, r
<1> QED BY <1>17, <1>18

-----------------------------------------------------------------------------
(* The request.                                                              *)

\* All that is typed is what is given.
LEMMA GivenInAll ==
  ASSUME call \in Calls
  PROVE  /\ \A f : GivenUpTo(Len(call.told), f) = Given(f)
         /\ \A f : KeysUpTo(Len(call.told), f) = Keys(f)
         /\ \A f, k : MeantForUpTo(Len(call.told), f, k) = MeantFor(f, k)
<1> DEFINE m == Len(call.told)
<1>1. m \in Nat /\ DOMAIN call.told = 1 .. m
  BY Told
<1>2. \A f : \A i \in Given(f) : i \in 1 .. m /\ i <= m
  BY <1>1 DEF Given
<1> HIDE DEF m
<1>3. \A f : GivenUpTo(m, f) = Given(f)
  BY <1>2 DEF GivenUpTo
<1>4. \A f : KeysUpTo(m, f) = Keys(f)
  BY <1>3 DEF KeysUpTo, Keys
<1>5. ASSUME NEW f, NEW k PROVE MeantForUpTo(m, f, k) = MeantFor(f, k)
  <2>1. GivenWith(m, f, k) = {i \in Given(f) : k \in KeysOf(call.told[i].text)}
    BY <1>3 DEF GivenWith
  <2> QED BY <2>1 DEF MeantForUpTo, AfterKey, MeantFor
<1> QED BY <1>3, <1>4, <1>5 DEF m

\* Commands that take flags: what an accepted line means.
AsMeant(r) ==
  LET fs == Flags(call.cmd)
  IN /\ r.ok = TRUE /\ r.pos = WordsMeant /\ WordsMeant \in Seq(Text)
     /\ \A i \in DOMAIN call.told : ItemRight(fs, call.told[i])
     /\ DOMAIN r.value = {f \in DOMAIN fs : fs[f] # "map" /\ Given(f) # {}}
     /\ \A f \in DOMAIN r.value : r.value[f] = Meant(f)
     /\ \A f \in DOMAIN fs : fs[f] = "map" =>
          DOMAIN r.map = Keys(f) /\ \A k \in Keys(f) : r.map[k] = MeantFor(f, k)

LEMMA Accepted ==
  ASSUME call \in Calls, call.cmd # "exec", NEW form \in [DOMAIN call.told -> Forms],
         args = FlattenSeq([i \in DOMAIN call.told |-> Typed(call.told[i], form[i])])
  PROVE  LET r == ParseFlags(call.cmd)
             right == \A i \in DOMAIN call.told : ItemRight(Flags(call.cmd), call.told[i])
         IN /\ WordsMeant \in Seq(Text)
            /\ right => AsMeant(r)
            /\ ~right => ~r.ok
<1> DEFINE fs == Flags(call.cmd)
           r == ParseFlags(call.cmd)
           m == Len(call.told)
           right == \A i \in DOMAIN call.told : ItemRight(fs, call.told[i])
<1>1. /\ WordsMeant \in Seq(Text)
      /\ AllRight(fs, m) => r.ok = TRUE /\ Means(fs, r, m, WordsMeant)
      /\ ~AllRight(fs, m) => ~r.ok
  BY ParsedMeans
<1>2. DOMAIN call.told = 1 .. m
  BY Told
<1>3. /\ \A f : GivenUpTo(m, f) = Given(f) /\ KeysUpTo(m, f) = Keys(f)
      /\ \A f, k : MeantForUpTo(m, f, k) = MeantFor(f, k)
  BY GivenInAll
<1> HIDE DEF fs, r, m
<1>4. right <=> AllRight(fs, m)
  BY <1>2 DEF AllRight
<1>5. ASSUME AllRight(fs, m) PROVE AsMeant(r)
  <2>1. r.ok = TRUE /\ r.pos = WordsMeant /\ ValuesMean(fs, r.value, m) /\ PairsMean(fs, r.map, m)
    BY <1>1, <1>5 DEF Means
  <2>2. /\ DOMAIN r.value = {f \in DOMAIN fs : fs[f] # "map" /\ Given(f) # {}}
        /\ \A f \in DOMAIN r.value : r.value[f] = Meant(f)
    <3>1. /\ DOMAIN r.value = {f \in DOMAIN fs : fs[f] # "map" /\ Given(f) # {}}
          /\ \A f \in DOMAIN r.value : r.value[f] = call.told[Max(Given(f))].text
      BY <1>3, <2>1 DEF ValuesMean
    <3> QED BY <3>1 DEF Meant
  <2>3. \A f \in DOMAIN fs : fs[f] = "map" =>
          DOMAIN r.map = Keys(f) /\ \A k \in Keys(f) : r.map[k] = MeantFor(f, k)
    BY <1>3, <2>1 DEF PairsMean
  <2> QED BY <1>1, <1>4, <1>5, <2>1, <2>2, <2>3 DEF AsMeant, fs
<1> QED BY <1>1, <1>4, <1>5 DEF r, fs

\* The value of an option that is not a pair is the one last given.
LEMMA ValueIsMeant ==
  ASSUME call \in Calls, NEW r, AsMeant(r), NEW f, f \notin {"set", "label"}
  PROVE  Value(r, f) = Meant(f)
<1> DEFINE fs == Flags(call.cmd)
<1>1. FlagSet(fs)
  BY FlagsAre
<1>2. /\ \A i \in DOMAIN call.told : ItemRight(fs, call.told[i])
      /\ DOMAIN r.value = {g \in DOMAIN fs : fs[g] # "map" /\ Given(g) # {}}
      /\ \A g \in DOMAIN r.value : r.value[g] = Meant(g)
  BY DEF AsMeant
<1> HIDE DEF fs
<1>3. CASE f \in DOMAIN r.value
  BY <1>2, <1>3 DEF Value
<1>4. CASE f \notin DOMAIN r.value
  <2>1. f \notin DOMAIN fs \/ Given(f) = {}
    BY <1>1, <1>2, <1>4 DEF FlagSet
  <2>2. f \notin DOMAIN fs => Given(f) = {}
    BY <1>2 DEF Given, ItemRight, IsOption
  <2> QED BY <1>4, <2>1, <2>2 DEF Value, Meant
<1> QED BY <1>3, <1>4

\* An option that needs no value only has "force" for a flag.
ReqFlags == {"tail", "since", "source", "size", "from", "force"}

\* What is sent for a command that takes flags is what is meant.
LEMMA RequestMeans ==
  ASSUME call \in Calls, call.cmd # "exec", NEW r, AsMeant(r), WellFormed(call.cmd, r),
         NEW req, req = Request(call.cmd, r)
  PROVE  /\ req.name # Empty => WordsMeant = <<req.name>>
         /\ req.op # "batch" =>
              req.params = {<<f, Meant(f)>> : f \in {g \in ReqFlags :
                              Meant(g) # Empty /\ ~(g = "force" /\ Meant(g) = <<"false">>)}}
         /\ call.cmd = "snapshot create" =>
              /\ DOMAIN req.labels = Keys("label")
              /\ \A k \in Keys("label") : req.labels[k] = MeantFor("label", k)
<1> DEFINE fs == Flags(call.cmd)
           batch == Batch(call.cmd, r)
           named == ~(call.cmd \in Nameless \/ batch)
           Counts(f, t) == t # Empty /\ ~(f = "force" /\ t = <<"false">>)
           given == {f \in DOMAIN r.value \ {"o", "f"} : Counts(f, r.value[f])}
           meant == {g \in ReqFlags : Counts(g, Meant(g))}
<1>1. /\ req.op = IF call.cmd = "list" THEN "ls" ELSE IF batch THEN "batch" ELSE call.cmd
      /\ req.name = IF named THEN r.pos[1] ELSE Empty
      /\ req.params = IF batch THEN {} ELSE {<<f, r.value[f]>> : f \in given}
      /\ req.labels = IF call.cmd = "snapshot create" THEN r.map ELSE <<>>
  BY DEF Request
<1>2. /\ r.pos = WordsMeant
      /\ DOMAIN r.value = {g \in DOMAIN fs : fs[g] # "map" /\ Given(g) # {}}
      /\ \A g \in DOMAIN r.value : r.value[g] = Meant(g)
      /\ \A g \in DOMAIN fs : fs[g] = "map" =>
           DOMAIN r.map = Keys(g) /\ \A k \in Keys(g) : r.map[k] = MeantFor(g, k)
      /\ \A i \in DOMAIN call.told : ItemRight(fs, call.told[i])
  BY DEF AsMeant
<1>3. FlagSet(fs) /\ (call.cmd = "snapshot create" <=> "label" \in DOMAIN fs)
  BY FlagsAre
<1>4. req.name # Empty => WordsMeant = <<req.name>>
  <2>1. named => OneName(r)
    BY DEF WellFormed
  <2>2. WordsMeant \in Seq(Text)
    BY DEF AsMeant
  <2>3. WordsMeant[1] # Empty /\ Len(WordsMeant) = 1 => WordsMeant = <<WordsMeant[1]>>
    BY <2>2
  <2> QED BY <1>1, <1>2, <2>1, <2>3 DEF OneName
<1>5. call.cmd = "snapshot create" =>
        /\ DOMAIN req.labels = Keys("label")
        /\ \A k \in Keys("label") : req.labels[k] = MeantFor("label", k)
  <2>1. call.cmd = "snapshot create" => "label" \in DOMAIN fs /\ fs["label"] = "map"
    BY <1>3 DEF FlagSet
  <2> QED BY <1>1, <1>2, <2>1
<1>6. req.op # "batch" => req.params = {<<f, Meant(f)>> : f \in meant}
  <2>1. req.op # "batch" => ~batch
    BY <1>1 DEF Batch
  <2> HIDE DEF fs, batch, Counts
  <2>2. given \subseteq meant
    BY <1>2, <1>3 DEF FlagSet, ReqFlags
  <2>3. ASSUME NEW g \in meant PROVE g \in given
    <3>1. Given(g) # {} /\ g \in {"tail", "since", "source", "size", "from", "force"}
      BY DEF Meant, Counts, ReqFlags
    <3>2. g \in DOMAIN fs
      BY <1>2, <3>1 DEF Given, ItemRight, IsOption
    <3>3. g \in DOMAIN r.value
      BY <1>2, <1>3, <3>1, <3>2 DEF FlagSet
    <3> QED BY <1>2, <3>1, <3>3
  <2>4. given = meant
    BY <2>2, <2>3
  <2>5. \A f \in meant : <<f, r.value[f]>> = <<f, Meant(f)>>
    BY <1>2, <2>4
  <2>6. {<<f, r.value[f]>> : f \in given} = {<<f, Meant(f)>> : f \in meant}
    BY <2>4, <2>5
  <2> HIDE DEF given, meant
  <2> QED BY <1>1, <2>1, <2>6
<1> QED BY <1>4, <1>5, <1>6

LEMMA SameSeq ==
  ASSUME NEW S, NEW u \in Seq(S), NEW v \in Seq(S), Len(u) = Len(v), \A j \in 1 .. Len(v) : u[j] = v[j]
  PROVE  u = v
OBVIOUS

\* The first "--" of a command line.
LEMMA SeparatorIs ==
  ASSUME NEW s \in Seq(Text)
  PROVE  /\ (\A i \in 1 .. Len(s) : s[i] # Terminator) => Separator(s) = 0
         /\ \A k \in 1 .. Len(s) :
              s[k] = Terminator /\ (\A j \in 1 .. k - 1 : s[j] # Terminator) => Separator(s) = k
<1> DEFINE I == {i \in 1 .. Len(s) : s[i] = Terminator}
<1>1. Separator(s) = IF I # {} THEN Min(I) ELSE 0
  BY DEF Separator, SelectInSeq
<1>2. Len(s) \in Nat /\ I \subseteq Nat
  OBVIOUS
<1>3. ASSUME NEW k \in 1 .. Len(s), s[k] = Terminator, \A j \in 1 .. k - 1 : s[j] # Terminator
      PROVE  Separator(s) = k
  <2>1. k \in I /\ \A y \in I : k <= y
    BY <1>2, <1>3
  <2> HIDE DEF I
  <2>2. PICK y \in I : y = Min(I) /\ \A z \in I : y <= z
    BY <1>2, <2>1, Least
  <2>3. y = k
    BY <1>2, <2>1, <2>2
  <2> QED BY <1>1, <2>1, <2>2, <2>3
<1> QED BY <1>1, <1>3

\* exec takes words, and at the end what follows "--".
LEMMA ExecItems ==
  ASSUME call \in Calls, call.cmd = "exec", NEW form
  PROVE  LET m == Len(call.told)
         IN /\ m \in Nat /\ DOMAIN call.told = 1 .. m
            /\ \A i \in 1 .. m :
                 \/ /\ call.told[i].kind = "word" /\ call.told[i].text \in Text
                    /\ call.told[i].text # Terminator
                    /\ Typed(call.told[i], form[i]) = <<call.told[i].text>>
                    /\ Words(call.told[i]) = <<call.told[i].text>>
                 \/ /\ i = m /\ call.told[i].kind = "after" /\ call.told[i].texts \in Seq(Text)
                    /\ Typed(call.told[i], form[i]) = <<Terminator>> \o call.told[i].texts
                    /\ Words(call.told[i]) = call.told[i].texts
<1> DEFINE m == Len(call.told)
<1>1. /\ m \in Nat /\ DOMAIN call.told = 1 .. m
      /\ \A i \in DOMAIN call.told : Item(call.cmd, call.told[i], i = m)
  BY Told
<1>2. ASSUME NEW i \in 1 .. m
      PROVE  \/ /\ call.told[i].kind = "word" /\ call.told[i].text \in Text
                /\ call.told[i].text # Terminator
                /\ Typed(call.told[i], form[i]) = <<call.told[i].text>>
                /\ Words(call.told[i]) = <<call.told[i].text>>
             \/ /\ i = m /\ call.told[i].kind = "after" /\ call.told[i].texts \in Seq(Text)
                /\ Typed(call.told[i], form[i]) = <<Terminator>> \o call.told[i].texts
                /\ Words(call.told[i]) = call.told[i].texts
  <2> DEFINE x == call.told[i]
  <2>1. Item("exec", x, i = m)
    BY <1>1
  <2> HIDE DEF x, m
  <2>2. \/ x.kind = "word" /\ x.text \in Text /\ ~Dashed(x.text)
        \/ x.kind = "after" /\ x.texts \in Seq(Text) /\ i = m
    BY <2>1, Zenon DEF Item
  <2>3. x.kind = "word" => Typed(x, form[i]) = <<x.text>> /\ Words(x) = <<x.text>>
    BY DEF Typed, Words
  <2>4. x.kind = "after" => Typed(x, form[i]) = <<Terminator>> \o x.texts /\ Words(x) = x.texts
    BY DEF Typed, Words
  <2>5. ~Dashed(x.text) => x.text # Terminator
    BY DEF Dashed
  <2> QED BY <2>2, <2>3, <2>4, <2>5 DEF x
<1> QED BY <1>1, <1>2

\* As long as there are words only, the arguments are these.
OnlyWords(f, n) ==
  (\A i \in 1 .. n : call.told[i].kind = "word") =>
    f[n] \in Seq(Text) /\ Len(f[n]) = n /\ \A j \in 1 .. n : f[n][j] = call.told[j].text

LEMMA ExecWords ==
  ASSUME call \in Calls, call.cmd = "exec", NEW form, NEW ss, NEW f, Joins(ss, f),
         Len(ss) = Len(call.told), \A i \in 1 .. Len(ss) : ss[i] = Typed(call.told[i], form[i])
  PROVE  \A n \in 0 .. Len(ss) : OnlyWords(f, n)
<1> DEFINE m == Len(call.told)
           T == {n \in Nat : n <= m => OnlyWords(f, n)}
<1>1. /\ m \in Nat
      /\ \A i \in 1 .. m : call.told[i].kind = "word" =>
           ss[i] = <<call.told[i].text>> /\ call.told[i].text \in Text
  BY ExecItems
<1>2. 0 \in T
  <2>1. f[0] = <<>>
    BY DEF Joins
  <2>2. OnlyWords(f, 0)
    BY <2>1 DEF OnlyWords
  <2> QED BY <2>2
<1>3. ASSUME NEW n \in Nat, n \in T PROVE n + 1 \in T
  <2> SUFFICES ASSUME n + 1 <= m, \A i \in 1 .. n + 1 : call.told[i].kind = "word"
               PROVE  f[n + 1] \in Seq(Text) /\ Len(f[n + 1]) = n + 1
                      /\ \A j \in 1 .. n + 1 : f[n + 1][j] = call.told[j].text
    BY DEF OnlyWords
  <2>1. f[n] \in Seq(Text) /\ Len(f[n]) = n /\ \A j \in 1 .. n : f[n][j] = call.told[j].text
    BY <1>1, <1>3 DEF OnlyWords
  <2> DEFINE t == call.told[n + 1].text
  <2>2. ss[n + 1] = <<t>> /\ t \in Text
    BY <1>1
  <2>3. f[n + 1] = f[n] \o <<t>>
    <3>1. n + 1 \in 1 .. Len(ss) /\ (n + 1) - 1 = n
      BY <1>1
    <3>2. f[n + 1] = Then(f[n], ss[n + 1])
      BY <3>1 DEF Joins
    <3> QED BY <2>2, <3>2 DEF Then
  <2> DEFINE told(j) == call.told[j].text
  <2>4. told(n + 1) = t
    OBVIOUS
  <2> HIDE DEF t
  <2>5. <<t>> \in Seq(Text) /\ Len(<<t>>) = 1 /\ <<t>>[1] = t
    BY <2>2
  <2>6. f[n + 1] \in Seq(Text) /\ Len(f[n + 1]) = n + 1
    BY <2>1, <2>3, <2>5
  <2>7. \A j \in 1 .. n : f[n + 1][j] = told(j)
    BY <2>1, <2>3, <2>5
  <2>8. f[n + 1][n + 1] = t
    BY <2>1, <2>3, <2>5
  <2> HIDE DEF told
  <2>9. \A j \in 1 .. n + 1 : f[n + 1][j] = told(j)
    BY <2>4, <2>7, <2>8
  <2> QED BY <2>6, <2>9 DEF told
<1> HIDE DEF T
<1>4. \A n \in Nat : n \in T
  BY <1>2, <1>3, Induct
<1> QED BY <1>1, <1>4 DEF T

\* What exec is given: a word, then "--" with something behind it.
NameAndCommand ==
  /\ Len(call.told) = 2
  /\ call.told[1].kind = "word"
  /\ call.told[2].kind = "after" /\ call.told[2].texts # <<>>

\* The separator is where "--" was meant, and nowhere else.
LEMMA ExecArgs ==
  ASSUME call \in Calls, call.cmd = "exec", NEW form \in [DOMAIN call.told -> Forms],
         args = FlattenSeq([i \in DOMAIN call.told |-> Typed(call.told[i], form[i])])
  PROVE  /\ args \in Seq(Text)
         /\ NameAndCommand =>
              /\ Separator(args) = 2 /\ Len(args) > 2
              /\ args[1] = call.told[1].text
              /\ SubSeq(args, 3, Len(args)) = call.told[2].texts
         /\ ~NameAndCommand => ~(Separator(args) = 2 /\ Len(args) > 2)
<1> DEFINE m == Len(call.told)
           ss == [i \in DOMAIN call.told |-> Typed(call.told[i], form[i])]
<1>1. /\ m \in Nat /\ DOMAIN call.told = 1 .. m
      /\ \A i \in 1 .. m :
           \/ /\ call.told[i].kind = "word" /\ call.told[i].text \in Text
              /\ call.told[i].text # Terminator
              /\ Typed(call.told[i], form[i]) = <<call.told[i].text>>
           \/ /\ i = m /\ call.told[i].kind = "after" /\ call.told[i].texts \in Seq(Text)
              /\ Typed(call.told[i], form[i]) = <<Terminator>> \o call.told[i].texts
  BY ExecItems
<1>2. Terminator \in Text
  <2>1. "--" \in Tokens
    BY MsbctlAssumption
  <2> QED BY <2>1 DEF Terminator, Text
<1>3. ss \in Seq(Seq(Text)) /\ Len(ss) = m /\ \A i \in 1 .. m : ss[i] = Typed(call.told[i], form[i])
  <2>1. \A t \in Text : <<t>> \in Seq(Text)
    OBVIOUS
  <2>2. \A u, v \in Seq(Text) : u \o v \in Seq(Text)
    OBVIOUS
  <2>3. \A i \in 1 .. m : Typed(call.told[i], form[i]) \in Seq(Text)
    BY <1>1, <1>2, <2>1, <2>2
  <2> QED BY <1>1, <2>3
<1>4. args = FlattenSeq(ss)
  OBVIOUS
<1> HIDE DEF m, ss
<1>5. PICK f : Joins(ss, f) /\ args = f[m]
  BY <1>3, <1>4, Flattened
<1>6. \A n \in 0 .. m : OnlyWords(f, n)
  BY <1>3, <1>5, ExecWords DEF m
<1>7. args \in Seq(Text)
  BY <1>1, <1>3, <1>5, JoinedSeqs
<1>8. CASE \A i \in 1 .. m : call.told[i].kind = "word"
  <2>1. Len(args) = m /\ \A j \in 1 .. m : args[j] = call.told[j].text
    <3>1. OnlyWords(f, m)
      BY <1>1, <1>6
    <3> QED BY <1>5, <1>8, <3>1 DEF OnlyWords
  <2>2. \A j \in 1 .. Len(args) : args[j] # Terminator
    BY <1>1, <1>8, <2>1
  <2>3. Separator(args) = 0
    BY <1>7, <2>2, SeparatorIs
  <2>4. ~NameAndCommand
    BY <1>1, <1>8 DEF NameAndCommand, m
  <2> QED BY <1>7, <2>3, <2>4
<1>9. CASE ~(\A i \in 1 .. m : call.told[i].kind = "word")
  <2> DEFINE texts == call.told[m].texts
             k == m - 1
  <2>1. m > 0 /\ k \in 0 .. m /\ m \in 1 .. m
    BY <1>1, <1>9
  <2>2. /\ call.told[m].kind = "after" /\ texts \in Seq(Text)
        /\ ss[m] = <<Terminator>> \o texts
        /\ \A i \in 1 .. k : call.told[i].kind = "word"
    <3>1. PICK i \in 1 .. m : call.told[i].kind # "word"
      BY <1>9
    <3>2. i = m
      BY <1>1, <3>1
    <3>3. call.told[m].kind = "after" /\ texts \in Seq(Text)
          /\ Typed(call.told[m], form[m]) = <<Terminator>> \o texts
      BY <1>1, <3>1, <3>2
    <3>4. \A j \in 1 .. k : j \in 1 .. m /\ j # m
      BY <1>1
    <3>5. \A j \in 1 .. k : call.told[j].kind = "word"
      BY <1>1, <3>4
    <3> QED BY <1>3, <2>1, <3>3, <3>5
  <2>3. f[k] \in Seq(Text) /\ Len(f[k]) = k /\ \A j \in 1 .. k : f[k][j] = call.told[j].text
    BY <1>6, <2>1, <2>2 DEF OnlyWords
  <2>4. args = f[k] \o (<<Terminator>> \o texts)
    BY <1>3, <1>5, <2>1, <2>2 DEF Joins, Then
  <2> DEFINE told(j) == call.told[j].text
  <2>5. \A j \in 1 .. k : f[k][j] = told(j) /\ told(j) # Terminator
    BY <1>1, <2>1, <2>2, <2>3
  <2> HIDE DEF texts, k, told
  <2>6. /\ Len(args) = m + Len(texts)
        /\ \A j \in 1 .. k : args[j] = told(j)
        /\ args[m] = Terminator
        /\ \A j \in 1 .. Len(texts) : args[m + j] = texts[j]
    <3> DEFINE b == <<Terminator>> \o texts
    <3>1. <<Terminator>> \in Seq(Text) /\ Len(<<Terminator>>) = 1 /\ <<Terminator>>[1] = Terminator
      BY <1>2
    <3>2. b \in Seq(Text) /\ Len(b) = 1 + Len(texts) /\ b[1] = Terminator
          /\ \A j \in 1 .. Len(texts) : b[1 + j] = texts[j]
      BY <2>2, <3>1
    <3>7. args = f[k] \o b
      BY <2>4
    <3> HIDE DEF b
    <3>3. Len(args) = k + Len(b) /\ (\A j \in 1 .. k : args[j] = f[k][j])
          /\ \A j \in 1 .. Len(b) : args[k + j] = b[j]
      <4> DEFINE c == f[k]
      <4>1. c \in Seq(Text) /\ Len(c) = k /\ args = c \o b /\ b \in Seq(Text)
        BY <2>3, <3>2, <3>7
      <4> HIDE DEF c
      <4>2. Appended(args, c, b)
        BY <4>1, CatIs, Zenon
      <4>3. Len(args) = k + Len(b) /\ (\A j \in 1 .. k : args[j] = c[j])
            /\ \A j \in 1 .. Len(b) : args[k + j] = b[j]
        BY <4>1, <4>2 DEF Appended
      <4> QED BY <4>3 DEF c
    <3>4. m = k + 1 /\ Len(texts) \in Nat /\ k \in Nat
      BY <1>1, <2>1, <2>2 DEF k
    <3>5. args[m] = Terminator
      BY <3>2, <3>3, <3>4
    <3>6. ASSUME NEW j \in 1 .. Len(texts) PROVE args[m + j] = texts[j]
      <4>1. 1 + j \in 1 .. Len(b) /\ k + (1 + j) = m + j
        BY <3>2, <3>4
      <4> QED BY <3>2, <3>3, <4>1
    <3>8. Len(args) = m + Len(texts)
      BY <3>2, <3>3, <3>4
    <3>9. \A j \in 1 .. k : args[j] = told(j)
      BY <2>5, <3>3
    <3> QED BY <3>5, <3>6, <3>8, <3>9
  <2>7. Separator(args) = m
    <3>1. m \in 1 .. Len(args) /\ \A j \in 1 .. m - 1 : args[j] # Terminator
      BY <1>1, <2>1, <2>2, <2>5, <2>6 DEF k
    <3> QED BY <1>7, <2>6, <3>1, SeparatorIs
  <2>8. NameAndCommand <=> m = 2 /\ texts # <<>>
    <3>1. m = 2 => call.told[1].kind = "word"
      <4>1. m = 2 => 1 \in 1 .. k
        BY DEF k
      <4> QED BY <2>2, <4>1, Zenon
    <3>2. m = 2 => call.told[2].kind = "after" /\ call.told[2].texts = texts
      BY <2>2, Zenon DEF texts
    <3> QED BY <3>1, <3>2, Zenon DEF NameAndCommand, m
  <2>9. Len(texts) > 0 <=> texts # <<>>
    <3>1. texts \in Seq(Text)
      BY <2>2
    <3>2. texts = <<>> <=> Len(texts) = 0
      BY <3>1, EmptySeq
    <3>3. Len(texts) \in Nat
      BY <3>1
    <3> QED BY <3>2, <3>3
  <2>10. CASE NameAndCommand
    <3>1. m = 2 /\ Len(args) > 2 /\ Len(texts) \in Nat
      BY <2>2, <2>6, <2>8, <2>9, <2>10
    <3>2. args[1] = told(1)
      BY <2>6, <3>1 DEF k
    <3>3. SubSeq(args, 3, Len(args)) = texts
      <4> DEFINE u == SubSeq(args, 3, Len(args))
      <4>1. Len(args) = 2 + Len(texts) /\ Len(texts) \in Nat
        BY <2>6, <3>1
      <4>2. u \in Seq(Text) /\ Len(u) = Len(texts)
        BY <1>7, <4>1
      <4>3. ASSUME NEW j \in 1 .. Len(texts) PROVE u[j] = texts[j]
        <5>1. u[j] = args[2 + j]
          BY <1>7, <4>1, <4>3
        <5> QED BY <2>6, <3>1, <5>1
      <4> HIDE DEF u
      <4>4. u = texts
        <5>1. texts \in Seq(Text)
          BY <2>2
        <5> QED BY <4>2, <4>3, <5>1, SameSeq
      <4> QED BY <4>4 DEF u
    <3> QED BY <1>7, <2>7, <2>10, <3>1, <3>2, <3>3 DEF told, texts
  <2>11. CASE ~NameAndCommand
    <3>1. Separator(args) = 2 => ~(Len(args) > 2)
      BY <2>2, <2>6, <2>7, <2>8, <2>9, <2>11
    <3> QED BY <1>7, <2>11, <3>1
  <2> QED BY <2>10, <2>11
<1> QED BY <1>8, <1>9

LEMMA ExecMeant ==
  ASSUME call \in Calls, call.cmd = "exec", NameAndCommand
  PROVE  WordsMeant = <<call.told[1].text>> \o call.told[2].texts
<1> DEFINE m == Len(call.told)
           ws == [i \in DOMAIN call.told |-> Words(call.told[i])]
           a == call.told[1].text
           b == call.told[2].texts
<1>1. m = 2 /\ DOMAIN call.told = 1 .. 2 /\ a \in Text /\ b \in Seq(Text)
      /\ Words(call.told[1]) = <<a>> /\ Words(call.told[2]) = b
  <2>1. Len(call.told) = 2 /\ call.told[1].kind = "word" /\ call.told[2].kind = "after"
    BY DEF NameAndCommand
  <2>2. /\ DOMAIN call.told = 1 .. 2
        /\ \A i \in 1 .. 2 :
             \/ /\ call.told[i].kind = "word" /\ call.told[i].text \in Text
                /\ Words(call.told[i]) = <<call.told[i].text>>
             \/ /\ call.told[i].kind = "after" /\ call.told[i].texts \in Seq(Text)
                /\ Words(call.told[i]) = call.told[i].texts
    BY <2>1, ExecItems
  <2>3. 1 \in 1 .. 2 /\ 2 \in 1 .. 2
    OBVIOUS
  <2>4. a \in Text /\ Words(call.told[1]) = <<a>>
    BY <2>1, <2>2, <2>3
  <2>5. b \in Seq(Text) /\ Words(call.told[2]) = b
    BY <2>1, <2>2, <2>3
  <2> QED BY <2>1, <2>2, <2>4, <2>5
<1>2. ws \in Seq(Seq(Text)) /\ Len(ws) = 2 /\ ws[1] = <<a>> /\ ws[2] = b
  <2>1. \A i \in 1 .. 2 : Words(call.told[i]) \in Seq(Text)
    <3>1. <<a>> \in Seq(Text)
      BY <1>1
    <3>2. Words(call.told[1]) \in Seq(Text) /\ Words(call.told[2]) \in Seq(Text)
      BY <1>1, <3>1
    <3>3. \A i \in 1 .. 2 : i = 1 \/ i = 2
      OBVIOUS
    <3> QED BY <3>2, <3>3
  <2> QED BY <1>1, <2>1
<1>3. WordsMeant = FlattenSeq(ws)
  BY DEF WordsMeant
<1> HIDE DEF m, ws, a, b
<1>4. PICK g : Joins(ws, g) /\ WordsMeant = g[2]
  BY <1>2, <1>3, Flattened
<1>5. g[0] = <<>> /\ g[1] = g[0] \o <<a>> /\ g[2] = g[1] \o b
  <2>1. \A i \in 1 .. 2 : g[i] = Then(g[i - 1], ws[i])
    BY <1>2, <1>4 DEF Joins
  <2>2. 1 \in 1 .. 2 /\ 1 - 1 = 0 /\ 2 \in 1 .. 2 /\ 2 - 1 = 1
    OBVIOUS
  <2> QED BY <1>2, <1>4, <2>1, <2>2 DEF Then, Joins
<1>6. <<>> \o <<a>> = <<a>>
  BY <1>1
<1> QED BY <1>4, <1>5, <1>6 DEF a, b

\* What exec sends.
LEMMA ExecReads ==
  ASSUME call \in Calls, call.cmd = "exec", NEW form \in [DOMAIN call.told -> Forms],
         args = FlattenSeq([i \in DOMAIN call.told |-> Typed(call.told[i], form[i])])
  PROVE  /\ NameAndCommand =>
              /\ ParseExec.ok = TRUE /\ ParseExec.pos = <<call.told[1].text>>
              /\ ParseExec.value = [command |-> call.told[2].texts]
         /\ ~NameAndCommand => ~ParseExec.ok
<1>1. /\ NameAndCommand =>
           /\ Separator(args) = 2 /\ Len(args) > 2
           /\ args[1] = call.told[1].text
           /\ SubSeq(args, 3, Len(args)) = call.told[2].texts
      /\ ~NameAndCommand => ~(Separator(args) = 2 /\ Len(args) > 2)
  BY ExecArgs
<1> DEFINE sep == Separator(args)
           command == SubSeq(args, sep + 1, Len(args))
           read == [NoArgs EXCEPT !.pos = <<args[1]>>, !.value = [command |-> command]]
<1>2. ParseExec = IF sep = 2 /\ Len(args) > sep THEN read ELSE Failed(NoArgs)
  BY DEF ParseExec
<1>3. ~Failed(NoArgs).ok
  BY DEF Failed, NoArgs
<1>4. read.ok = TRUE /\ read.pos = <<args[1]>> /\ read.value = [command |-> command]
  BY DEF NoArgs
<1>5. sep = 2 => command = SubSeq(args, 3, Len(args))
  OBVIOUS
<1> HIDE DEF sep, command, read
<1>6. CASE NameAndCommand
  <2>1. sep = 2 /\ ParseExec = read /\ command = call.told[2].texts
    BY <1>1, <1>2, <1>5, <1>6 DEF sep
  <2> QED BY <1>1, <1>4, <1>6, <2>1
<1>7. CASE ~NameAndCommand
  <2>1. ParseExec = Failed(NoArgs)
    BY <1>1, <1>2, <1>7 DEF sep
  <2> QED BY <1>3, <1>7, <2>1
<1> QED BY <1>6, <1>7

\* What the command line is read as, whether that is refused, and what is sent else.
Reading == Parsed(call.cmd)
Read == Request(call.cmd, Reading)
Refusal ==
  \/ ~WellFormed(call.cmd, Reading)
  \/ Read.op \in {"create", "batch"} /\ call.file = "missing"
  \/ Read.op = "create" /\ (call.file \in {"garbled", "blank"} \/ ~Defined(Reading.map, Read.doc))
ToSend == IF Read.op = "create" THEN [Read EXCEPT !.doc = Interpolate(Reading.map, @)] ELSE Read

AsTyped ==
  \E form \in [DOMAIN call.told -> Forms] :
    args = FlattenSeq([i \in DOMAIN call.told |-> Typed(call.told[i], form[i])])

\* What is sent was read from what was typed; what was configured and sends nothing
\* was refused.
RequestInv ==
  /\ call \in Calls
  /\ pc # "typing" => AsTyped
  /\ pc \in {"typing", "dispatch", "configure"} => target.url = ""
  /\ pc \in {"configure", "parse"} => call.cmd \in Commands
  /\ pc \in {"typing", "dispatch", "configure", "parse"} => request = NoRequest
  /\ pc \in {"send", "answered"} => request # NoRequest
  /\ request # NoRequest => pc # "typing" /\ call.cmd \in Commands /\ ~Refusal /\ request = ToSend
  /\ pc = "over" /\ target.url # "" /\ request = NoRequest => call.cmd \in Commands /\ Refusal

LEMMA ReadingKept ==
  ASSUME UNCHANGED <<call, args>>
  PROVE  AsTyped' = AsTyped /\ Refusal' = Refusal /\ ToSend' = ToSend
<1>1. call' = call /\ args' = args
  OBVIOUS
<1>2. Reading' = Reading
  <2>1. ParseExec' = ParseExec
    BY <1>1 DEF ParseExec
  <2>2. \A cmd : ParseFlags(cmd)' = ParseFlags(cmd)
    BY <1>1 DEF ParseFlags
  <2> QED BY <1>1, <2>1, <2>2 DEF Reading, Parsed
<1>3. Read' = Read
  BY <1>1, <1>2 DEF Read, Request, Written
<1>4. \A set, doc : Defined(set, doc)' = Defined(set, doc)
  BY <1>1 DEF Defined, Lookup
<1>5. \A set, doc : Interpolate(set, doc)' = Interpolate(set, doc)
  BY <1>1 DEF Interpolate, Substitute, Substituted, Lookup
<1>6. AsTyped' = AsTyped
  BY <1>1 DEF AsTyped
<1>7. Refusal' = Refusal
  BY <1>1, <1>2, <1>3 DEF Refusal, Defined, Lookup
<1>8. ToSend' = ToSend
  BY <1>1, <1>2, <1>3 DEF ToSend, Interpolate, Substitute, Substituted, Lookup
<1> QED BY <1>6, <1>7, <1>8

\* A request is for something.
LEMMA RequestIsOne == call.cmd \in Commands => ToSend # NoRequest
<1> SUFFICES ASSUME call.cmd \in Commands PROVE ToSend # NoRequest
  OBVIOUS
<1>1. Read.op = IF call.cmd = "list" THEN "ls" ELSE IF Batch(call.cmd, Reading) THEN "batch" ELSE call.cmd
  BY DEF Read, Request
<1>2. call.cmd # ""
  BY Zenon DEF Commands
<1>3. Read.op # ""
  BY <1>1, <1>2, Zenon
<1>4. ToSend.op = Read.op
  <2>1. \A d : [Read EXCEPT !.doc = d].op = Read.op
    BY DEF Read, Request
  <2> QED BY <2>1 DEF ToSend
<1>5. NoRequest.op = ""
  BY Zenon DEF NoRequest
<1> QED BY <1>3, <1>4, <1>5, Zenon

LEMMA RequestStep == RequestInv /\ [Next]_vars => RequestInv'
<1> SUFFICES ASSUME RequestInv, [Next]_vars PROVE RequestInv'
  OBVIOUS
<1> USE DEF RequestInv, Over
<1>1. CASE Type
  <2>1. AsTyped' /\ call' = call /\ request' = request /\ target' = target
        /\ pc = "typing" /\ pc' = "dispatch"
    BY <1>1 DEF Type, AsTyped
  <2> QED BY <2>1, Zenon
<1>2. ASSUME UNCHANGED <<call, args>> PROVE RequestInv'
  <2>1. AsTyped' = AsTyped /\ Refusal' = Refusal /\ ToSend' = ToSend /\ call' = call
    BY <1>2, ReadingKept
  <2>2. CASE Dispatch BY <2>1, <2>2, Zenon DEF Dispatch
  <2>3. CASE Configure BY <2>1, <2>3, Zenon DEF Configure
  <2>4. CASE Prepare
    <3>1. /\ pc = "parse" /\ UNCHANGED <<call, args, target, answer>>
          /\ \/ Refusal /\ pc' = "over" /\ UNCHANGED request
             \/ ~Refusal /\ pc' = "send" /\ request' = ToSend
      BY <2>4 DEF Prepare, Refusal, ToSend, Read, Reading
    <3>2. target' = target
      BY <3>1
    <3>3. CASE Refusal /\ pc' = "over" /\ UNCHANGED request
      BY <2>1, <3>1, <3>2, <3>3, Zenon
    <3>4. CASE ~Refusal /\ pc' = "send" /\ request' = ToSend
      BY <2>1, <3>1, <3>2, <3>4, RequestIsOne, Zenon
    <3> QED BY <3>1, <3>3, <3>4
  <2>5. CASE Send BY <2>1, <2>5, Zenon DEF Send
  <2>6. CASE Lose BY <2>1, <2>6, Zenon DEF Lose
  <2>7. CASE Render
    <3>1. pc = "answered" /\ pc' = "over" /\ request' = request /\ target' = target
      BY <2>7 DEF Render
    <3> QED BY <2>1, <3>1, Zenon
  <2>8. CASE UNCHANGED vars BY <2>1, <2>8, Zenon DEF vars
  <2> QED BY <1>1, <2>2, <2>3, <2>4, <2>5, <2>6, <2>7, <2>8 DEF Next
<1>3. Type \/ UNCHANGED <<call, args>>
  BY DEF Next, Dispatch, Configure, Prepare, Send, Lose, Render, vars
<1> QED BY <1>1, <1>2, <1>3

LEMMA RequestFirst == Init => RequestInv
<1> SUFFICES ASSUME Init PROVE RequestInv
  OBVIOUS
<1>1. NoProfile.url = ""
  BY Zenon DEF NoProfile
<1>2. call \in Calls /\ pc = "typing" /\ target = NoProfile /\ request = NoRequest
  BY DEF Init
<1>3. "typing" \notin {"configure", "parse", "send", "answered"} /\ "typing" # "over"
  OBVIOUS
<1> QED BY <1>1, <1>2, <1>3, Zenon DEF RequestInv

\* What the command line is read as.
LEMMA ReadAsMeant ==
  ASSUME call \in Calls, AsTyped
  PROVE  /\ call.cmd # "exec" =>
              LET right == \A i \in DOMAIN call.told : ItemRight(Flags(call.cmd), call.told[i])
              IN (right => AsMeant(Reading)) /\ (~right => ~Reading.ok) /\ WordsMeant \in Seq(Text)
         /\ call.cmd = "exec" =>
              /\ NameAndCommand =>
                   /\ Reading.ok = TRUE /\ Reading.pos = <<call.told[1].text>>
                   /\ Reading.value = [command |-> call.told[2].texts]
              /\ ~NameAndCommand => ~Reading.ok
<1>1. PICK form \in [DOMAIN call.told -> Forms] :
        args = FlattenSeq([i \in DOMAIN call.told |-> Typed(call.told[i], form[i])])
  BY DEF AsTyped
<1>2. CASE call.cmd # "exec"
  BY <1>1, <1>2, Accepted DEF Reading, Parsed
<1>3. CASE call.cmd = "exec"
  BY <1>1, <1>3, ExecReads DEF Reading, Parsed
<1> QED BY <1>2, <1>3

\* The route of a command.
LEMMA Route ==
  ASSUME NEW r, NEW cmd \in Commands
  PROVE  LET op == Request(cmd, r).op
         IN /\ op = "exec" <=> cmd = "exec"
            /\ op = "create" <=> cmd = "create"
            /\ op = "snapshot create" <=> cmd = "snapshot create"
            /\ op = "batch" <=> Batch(cmd, r)
<1>1. Request(cmd, r).op = IF cmd = "list" THEN "ls" ELSE IF Batch(cmd, r) THEN "batch" ELSE cmd
  BY DEF Request
<1>2. Batch(cmd, r) => cmd = "volume create"
  BY DEF Batch
<1>3. "batch" \notin Commands
  BY DEF Commands
<1> HIDE DEF Commands
<1> QED BY <1>1, <1>2, <1>3

LEMMA RequestIs ==
  /\ ToSend.op = Read.op /\ ToSend.name = Read.name /\ ToSend.params = Read.params
  /\ ToSend.labels = Read.labels
  /\ Read.op = "create" => ToSend.doc = Interpolate(Reading.map, Read.doc)
<1>1. \A d : LET q == [Read EXCEPT !.doc = d]
             IN /\ q.op = Read.op /\ q.name = Read.name /\ q.params = Read.params
                /\ q.labels = Read.labels /\ q.doc = d
  BY DEF Read, Request
<1> QED BY <1>1 DEF ToSend

LEMMA DoneAsTold == RequestInv => DoesAsTold
<1> SUFFICES ASSUME RequestInv, request # NoRequest PROVE DoesAsTold
  BY DEF DoesAsTold
<1> DEFINE r == Reading
           fs == Flags(call.cmd)
<1>1. call \in Calls /\ AsTyped /\ call.cmd \in Commands /\ WellFormed(call.cmd, r) /\ r.ok
      /\ request = ToSend
  BY DEF RequestInv, Refusal, WellFormed
<1>2. /\ request.op = Read.op /\ request.name = Read.name
      /\ request.params = Read.params /\ request.labels = Read.labels
  BY <1>1, RequestIs
<1>3. Read = Request(call.cmd, r)
  BY DEF Read
<1>4. CASE call.cmd = "exec"
  <2> DEFINE command == call.told[2].texts
  <2>1. NameAndCommand /\ r.pos = <<call.told[1].text>> /\ r.value = [command |-> command]
    BY <1>1, <1>4, ReadAsMeant
  <2>2. ~(call.cmd \in Nameless \/ Batch(call.cmd, r)) /\ ~Batch(call.cmd, r)
    BY <1>4 DEF Nameless, Batch
  <2>3. request.name = call.told[1].text
    <3> HIDE DEF r, command
    <3>1. Request(call.cmd, r).name = r.pos[1]
      BY <2>2 DEF Request
    <3>2. <<call.told[1].text>>[1] = call.told[1].text
      OBVIOUS
    <3> QED BY <1>2, <1>3, <2>1, <3>1, <3>2, Zenon
  <2>4. request.params = {<<"command", command>>}
    <3>1. command # Empty
      BY <2>1 DEF NameAndCommand, Empty
    <3>2. DOMAIN r.value = {"command"} /\ r.value["command"] = command
      BY <2>1
    <3> HIDE DEF r, command
    <3>3. {f \in DOMAIN r.value \ {"o", "f"} : r.value[f] # Empty /\ ~(f = "force" /\ r.value[f] = <<"false">>)}
            = {"command"}
      BY <3>1, <3>2
    <3>4. request.params =
            {<<f, r.value[f]>> : f \in {f \in DOMAIN r.value \ {"o", "f"} :
                                   r.value[f] # Empty /\ ~(f = "force" /\ r.value[f] = <<"false">>)}}
      BY <1>2, <1>3, <2>2 DEF Request
    <3> QED BY <3>2, <3>3, <3>4
  <2> HIDE DEF command
  <2>5. (CHOOSE p \in request.params : TRUE) = <<"command", command>>
    BY <2>4
  <2>6. WordsMeant = <<request.name>> \o (CHOOSE p \in request.params : TRUE)[2]
    <3>1. WordsMeant = <<call.told[1].text>> \o command
      BY <1>1, <1>4, <2>1, ExecMeant DEF command
    <3>2. <<"command", command>>[2] = command
      OBVIOUS
    <3>3. (CHOOSE p \in request.params : TRUE)[2] = command
      BY <2>5, <3>2, Zenon
    <3> QED BY <2>3, <3>1, <3>3
  <2>7. request.op = "exec"
    BY <1>1, <1>2, <1>3, <1>4, Route
  <2> QED BY <2>6, <2>7 DEF DoesAsTold
<1>5. CASE call.cmd # "exec"
  <2>1. AsMeant(r)
    BY <1>1, <1>5, ReadAsMeant
  <2>2. request.op # "exec" /\ (request.op = "snapshot create" => call.cmd = "snapshot create")
    <3>1. LET op == Request(call.cmd, r).op
          IN (op = "exec" <=> call.cmd = "exec") /\ (op = "snapshot create" <=> call.cmd = "snapshot create")
      BY <1>1, Route
    <3> HIDE DEF r
    <3> QED BY <1>2, <1>3, <1>5, <3>1
  <2>3. \A x \in ToSet(call.told) : x.kind \in {"option", "switch"} => x.flag \in DOMAIN fs
    <3>1. \A i \in DOMAIN call.told : ItemRight(fs, call.told[i])
      BY <2>1 DEF AsMeant
    <3> HIDE DEF fs
    <3> QED BY <3>1 DEF ToSet, ItemRight, IsOption
  <2> HIDE DEF r, fs
  <2>4. /\ request.name # Empty => WordsMeant = <<request.name>>
        /\ request.op # "batch" =>
             request.params = {<<f, Meant(f)>> : f \in {g \in ReqFlags :
                                 Meant(g) # Empty /\ ~(g = "force" /\ Meant(g) = <<"false">>)}}
        /\ call.cmd = "snapshot create" =>
             /\ DOMAIN request.labels = Keys("label")
             /\ \A k \in Keys("label") : request.labels[k] = MeantFor("label", k)
    <3>1. /\ Read.name # Empty => WordsMeant = <<Read.name>>
          /\ Read.op # "batch" =>
               Read.params = {<<f, Meant(f)>> : f \in {g \in ReqFlags :
                                Meant(g) # Empty /\ ~(g = "force" /\ Meant(g) = <<"false">>)}}
          /\ call.cmd = "snapshot create" =>
               /\ DOMAIN Read.labels = Keys("label")
               /\ \A k \in Keys("label") : Read.labels[k] = MeantFor("label", k)
      BY <1>1, <1>3, <1>5, <2>1, RequestMeans
    <3> QED BY <1>2, <3>1
  <2> QED BY <2>2, <2>3, <2>4 DEF DoesAsTold, ReqFlags, fs
<1> QED BY <1>4, <1>5

\* The request is the one the user means, wherever flags and name are typed and
\* however the flags are: a value that begins with "-" is a value, "--" makes a
\* name of what looks like a flag, the last of an option's values counts, and exec
\* passes its command on (parseFlags, kvFlag, cmdExec).
THEOREM ToldIsDone == Spec => []DoesAsTold
<1> QED BY RequestFirst, RequestStep, DoneAsTold, PTL DEF Spec

\* What is rightly typed has no item that is refused.
LEMMA RightItems ==
  ASSUME RightlyTyped
  PROVE  \A i \in DOMAIN call.told : ItemRight(Flags(call.cmd), call.told[i])
<1> DEFINE fs == Flags(call.cmd)
<1>1. \A i \in DOMAIN call.told : IsOption(call.told[i]) =>
        /\ call.told[i].flag \in DOMAIN fs
        /\ call.told[i].kind = "switch" => call.told[i].flag = "force"
        /\ call.told[i].flag = "force" => call.told[i].text \in {<<"true">>, <<"false">>}
        /\ call.told[i].flag \in {"set", "label"} => KeysOf(call.told[i].text) # {}
  <2>1. \A x \in ToSet(call.told) : x.kind \in {"option", "switch"} =>
          /\ x.flag \in DOMAIN Flags(call.cmd)
          /\ x.kind = "switch" => x.flag = "force"
          /\ x.flag = "force" => x.text \in {<<"true">>, <<"false">>}
          /\ x.flag \in {"set", "label"} => KeysOf(x.text) # {}
    BY DEF RightlyTyped
  <2>2. \A i \in DOMAIN call.told : call.told[i] \in ToSet(call.told)
    BY DEF ToSet
  <2> QED BY <2>1, <2>2 DEF IsOption
<1>2. /\ \A f \in DOMAIN fs : fs[f] = "bool" <=> f = "force"
      /\ \A f \in DOMAIN fs : fs[f] = "map" <=> f \in {"set", "label"}
  <2>1. FlagSet(fs)
    BY FlagsAre
  <2> HIDE DEF fs
  <2> QED BY <2>1, Zenon DEF FlagSet
<1> HIDE DEF fs
<1>3. \A i \in DOMAIN call.told : ItemRight(fs, call.told[i])
  BY <1>1, <1>2 DEF ItemRight, Right, IsOption
<1> QED BY <1>3 DEF fs

\* What is rightly typed is well-formed.
LEMMA RightIsWellFormed ==
  ASSUME call \in Calls, AsTyped, call.cmd \in Commands, RightlyTyped
  PROVE  /\ WellFormed(call.cmd, Reading)
         /\ call.cmd # "exec" => AsMeant(Reading)
<1> DEFINE r == Reading
           batch == call.cmd = "volume create" /\ Meant("f") # Empty
<1>1. /\ call.cmd = "exec" => /\ [i \in DOMAIN call.told |-> call.told[i].kind] = <<"word", "after">>
                              /\ call.told[1].text # Empty /\ call.told[2].texts # <<>>
      /\ call.cmd # "exec" => \/ call.cmd \in Nameless \/ batch
                              \/ Len(WordsMeant) = 1 /\ WordsMeant[1] # Empty
      /\ call.cmd = "snapshot create" => Meant("from") # Empty
      /\ call.cmd = "volume create" => batch \/ Meant("size") # Empty
      /\ call.cmd = "create" => Meant("f") # Empty
  BY DEF RightlyTyped, Nameless
<1>2. CASE call.cmd = "exec"
  <2> DEFINE kinds == [i \in DOMAIN call.told |-> call.told[i].kind]
             name == call.told[1].text
  <2>1. DOMAIN call.told = 1 .. Len(call.told) /\ Len(call.told) \in Nat
    BY <1>2, Told
  <2>2. DOMAIN kinds = 1 .. 2 /\ kinds[1] = "word" /\ kinds[2] = "after"
    <3>1. kinds = <<"word", "after">>
      BY <1>1, <1>2
    <3> HIDE DEF kinds
    <3> QED BY <3>1
  <2>3. DOMAIN call.told = 1 .. 2
    BY <2>2
  <2>4. Len(call.told) = 2
    <3> DEFINE m == Len(call.told)
    <3>1. m \in Nat /\ 1 .. m = 1 .. 2
      BY <2>1, <2>3
    <3> HIDE DEF m
    <3>2. 2 \in 1 .. m
      BY <3>1
    <3>3. m \in 1 .. 2
      BY <3>1, <3>2
    <3>4. m = 2
      BY <3>1, <3>2, <3>3
    <3> QED BY <3>4 DEF m
  <2>5. NameAndCommand
    <3>1. 1 \in DOMAIN call.told /\ 2 \in DOMAIN call.told
      BY <2>3
    <3> QED BY <1>1, <1>2, <2>2, <2>4, <3>1 DEF NameAndCommand
  <2>6. r.ok = TRUE /\ r.pos = <<name>>
    BY <1>2, <2>5, ReadAsMeant
  <2>7. name # Empty
    BY <1>1, <1>2
  <2> HIDE DEF r, name, kinds
  <2>8. OneName(r)
    BY <2>6, <2>7 DEF OneName
  <2> QED BY <1>2, <2>6, <2>8 DEF WellFormed, r
<1>3. CASE call.cmd # "exec"
  <2>1. AsMeant(r)
    BY <1>3, RightItems, ReadAsMeant
  <2>2. r.ok = TRUE /\ r.pos = WordsMeant
    BY <2>1 DEF AsMeant
  <2>3. Value(r, "f") = Meant("f") /\ Value(r, "size") = Meant("size") /\ Value(r, "from") = Meant("from")
    BY <2>1, ValueIsMeant
  <2> HIDE DEF r
  <2>4. Batch(call.cmd, r) <=> batch
    BY <2>3 DEF Batch
  <2>5. call.cmd \in Nameless \/ Batch(call.cmd, r) \/ OneName(r)
    BY <1>1, <1>3, <2>2, <2>4 DEF OneName
  <2>6. WellFormed(call.cmd, r)
    BY <1>1, <2>2, <2>3, <2>4, <2>5 DEF WellFormed
  <2> QED BY <1>3, <2>1, <2>6 DEF r
<1> QED BY <1>2, <1>3

LEMMA RefusedRightly == RequestInv => RefusedForAReason
<1> SUFFICES ASSUME RequestInv, pc = "over", target.url # "", request = NoRequest, RightlyTyped PROVE FALSE
  BY Zenon DEF RefusedForAReason
<1> DEFINE r == Reading
           batch == call.cmd = "volume create" /\ Meant("f") # Empty
<1>1. call \in Calls /\ AsTyped /\ call.cmd \in Commands /\ Refusal
  BY Zenon DEF RequestInv
<1>2. WellFormed(call.cmd, r) /\ (call.cmd # "exec" => AsMeant(r))
  BY <1>1, RightIsWellFormed
<1>3. /\ call.cmd = "create" =>
           /\ call.file \notin {"missing", "garbled", "blank"}
           /\ \A n \in DOMAIN Written : \A v \in Variables(Written[n].text) :
                <<v>> \in Keys("set") \/ call.vars[v] # Empty
      /\ batch => call.file # "missing"
  BY DEF RightlyTyped
<1>4. (Read.op = "create" <=> call.cmd = "create") /\ (Read.op = "batch" <=> Batch(call.cmd, r))
  BY <1>1, Route DEF Read
<1>5. Batch(call.cmd, r) => batch
  <2>1. call.cmd # "exec" => Value(r, "f") = Meant("f")
    BY <1>1, <1>2, ValueIsMeant
  <2> QED BY <2>1 DEF Batch
<1>6. ASSUME call.cmd = "create" PROVE Defined(r.map, Read.doc)
  <2>1. DOMAIN r.map = Keys("set")
    <3>1. "set" \in DOMAIN Flags(call.cmd) /\ Flags(call.cmd)["set"] = "map"
      BY <1>6 DEF Flags
    <3>2. AsMeant(r)
      BY <1>2, <1>6
    <3> QED BY <3>1, <3>2 DEF AsMeant
  <2>3. Read.doc = Written
    BY <1>6 DEF Read, Request
  <2> HIDE DEF r
  <2>2. \A v : <<v>> \in DOMAIN r.map \/ call.vars[v] # Empty => Lookup(r.map, v) # <<>>
    BY DEF Lookup
  <2> QED BY <1>3, <1>6, <2>1, <2>2, <2>3 DEF Defined
<1> HIDE DEF r, batch
<1>7. ~(Read.op \in {"create", "batch"} /\ call.file = "missing")
  BY <1>3, <1>4, <1>5
<1>8. ~(Read.op = "create" /\ (call.file \in {"garbled", "blank"} \/ ~Defined(r.map, Read.doc)))
  BY <1>3, <1>4, <1>6
<1> QED BY <1>1, <1>2, <1>7, <1>8 DEF Refusal, r

\* What is rightly typed is sent once the target is known: flags after a name, names
\* that look like flags after "--" and repeated options are none of them refused
\* (parseFlags, cmdExec).
THEOREM RefusalsHaveReasons == Spec => []RefusedForAReason
<1> QED BY RequestFirst, RequestStep, RefusedRightly, PTL DEF Spec

-----------------------------------------------------------------------------
(* The document.                                                             *)

LEMMA Slice ==
  ASSUME NEW S, NEW u \in Seq(S), NEW v \in Seq(S), NEW at \in Nat, at + Len(v) <= Len(u),
         \A j \in 1 .. Len(v) : u[at + j] = v[j]
  PROVE  SubSeq(u, at + 1, at + Len(v)) = v
<1> DEFINE w == SubSeq(u, at + 1, at + Len(v))
<1>1. w \in Seq(S) /\ Len(w) = Len(v) /\ \A j \in 1 .. Len(v) : w[j] = u[at + j]
  OBVIOUS
<1> HIDE DEF w
<1>2. w = v
  BY <1>1
<1> QED BY <1>2 DEF w

\* A variable's value is a text.
LEMMA ValueIsText ==
  ASSUME call \in Calls, NEW v \in Placeholders
  PROVE  ValueOf(v) \in Text
<1>1. CASE <<v>> \in Keys("set")
  <2> DEFINE I == {i \in Given("set") : <<v>> \in KeysOf(call.told[i].text)}
             m == Len(call.told)
             t == call.told[Max(I)].text
  <2>1. m \in Nat /\ DOMAIN call.told = 1 .. m
        /\ \A i \in DOMAIN call.told : Item(call.cmd, call.told[i], i = m)
    BY Told
  <2>2. I # {}
    BY <1>1 DEF Keys
  <2>3. I \subseteq 1 .. m
    BY <2>1 DEF Given
  <2>4. ValueOf(v) = SubSeq(t, Len(<<v>>) + 2, Len(t))
    BY <1>1 DEF ValueOf, MeantFor
  <2> HIDE DEF m
  <2>5. Max(I) \in I
    <3> HIDE DEF I
    <3> QED BY <2>1, <2>2, <2>3, MaxBelow
  <2>6. t \in Text
    <3> DEFINE x == call.told[Max(I)]
    <3>1. x.kind \in {"option", "switch"} /\ <<v>> \in KeysOf(x.text)
      BY <2>5 DEF Given
    <3>2. PICK last : Item(call.cmd, x, last)
      BY <2>1, <2>3, <2>5
    <3>3. KeysOf(<<"true">>) = {}
      BY DEF KeysOf
    <3> HIDE DEF x, I
    <3>4. x.kind = "option" => x.text \in Text
      BY <3>2, Zenon DEF Item
    <3>5. x.kind = "switch" => x.text = <<"true">>
      BY <3>2, Zenon DEF Item
    <3> QED BY <3>1, <3>3, <3>4, <3>5 DEF x
  <2> HIDE DEF t
  <2> QED BY <2>4, <2>6 DEF Text
<1>2. CASE <<v>> \notin Keys("set")
  <2>1. Invocation(call)
    BY Zenon, MsbctlAssumption
  <2>2. call.vars \in [Placeholders -> Text]
    BY <2>1 DEF Invocation
  <2> QED BY <1>2, <2>2 DEF ValueOf
<1> QED BY <1>1, <1>2

\* What stands for a token, and what stands before the token's place.
Replacement(a) == IF a \in Placeholders THEN ValueOf(a) ELSE <<a>>
Before(t, i) ==
  FlattenSeq([j \in 1 .. i - 1 |-> IF t[j] \in Placeholders THEN ValueOf(t[j]) ELSE <<t[j]>>])

LEMMA SubstitutedMeans ==
  ASSUME call \in Calls, NEW t \in Text, NEW set,
         \A v \in Variables(t) : Lookup(set, v) = <<ValueOf(v)>>
  PROVE  LET u == Substituted(set, t)
         IN /\ Len(u) = Len(Before(t, Len(t) + 1))
            /\ \A i \in DOMAIN t :
                 SubSeq(u, Len(Before(t, i)) + 1, Len(Before(t, i)) + Len(Replacement(t[i]))) = Replacement(t[i])
<1> DEFINE n == Len(t)
           u == Substituted(set, t)
           ss == [i \in DOMAIN t |-> Replacement(t[i])]
<1>1. n \in Nat /\ DOMAIN t = 1 .. n /\ \A i \in 1 .. n : t[i] \in Tokens
  BY DEF Text
<1>2. \A a \in Tokens : Replacement(a) \in Seq(Tokens)
  <2>1. \A a \in Tokens : <<a>> \in Seq(Tokens)
    OBVIOUS
  <2>2. \A a \in Placeholders : ValueOf(a) \in Seq(Tokens)
    BY ValueIsText DEF Text
  <2> QED BY <2>1, <2>2 DEF Replacement
<1>3. u = FlattenSeq(ss)
  <2> DEFINE With(i) == IF t[i] \notin Placeholders \/ Lookup(set, t[i]) = <<>>
                          THEN <<t[i]>> ELSE Lookup(set, t[i])[1]
  <2>1. ASSUME NEW i \in DOMAIN t PROVE With(i) = Replacement(t[i])
    <3>1. CASE t[i] \notin Placeholders
      BY <3>1 DEF Replacement
    <3>2. CASE t[i] \in Placeholders
      <4> DEFINE v == t[i]
      <4>1. v \in Variables(t)
        BY <3>2 DEF Variables, ToSet
      <4>2. Lookup(set, v) = <<ValueOf(v)>>
        BY <4>1
      <4>3. <<ValueOf(v)>> # <<>> /\ <<ValueOf(v)>>[1] = ValueOf(v)
        OBVIOUS
      <4> HIDE DEF v
      <4>4. Lookup(set, v) # <<>> /\ Lookup(set, v)[1] = ValueOf(v)
        BY <4>2, <4>3
      <4> QED BY <3>2, <4>4 DEF v, Replacement
    <3> QED BY <3>1, <3>2
  <2>2. [i \in DOMAIN t |-> With(i)] = ss
    BY <2>1
  <2>3. u = FlattenSeq([i \in DOMAIN t |-> With(i)])
    BY DEF Substituted
  <2> HIDE DEF With, ss, u
  <2> QED BY <2>2, <2>3
<1>4. ss \in Seq(Seq(Tokens)) /\ Len(ss) = n /\ \A i \in 1 .. n : ss[i] = Replacement(t[i])
  BY <1>1, <1>2
<1> HIDE DEF n, u, ss
<1>5. PICK f : Joins(ss, f) /\ u = f[n]
  BY <1>3, <1>4, Flattened
<1>6. \A i \in 0 .. n : f[i] \in Seq(Tokens)
  BY <1>4, <1>5, JoinedSeqs
<1>7. ASSUME NEW i \in 1 .. n + 1 PROVE Before(t, i) = f[i - 1]
  <2> DEFINE tt == [j \in 1 .. i - 1 |-> Replacement(t[j])]
             k == i - 1
  <2>1. k \in Nat /\ k <= n /\ \A j \in 1 .. k : j \in 1 .. n
    BY <1>1
  <2>2. Before(t, i) = FlattenSeq(tt)
    BY DEF Before, Replacement
  <2>3. tt \in Seq(Seq(Tokens)) /\ Len(tt) = k /\ \A j \in 1 .. k : tt[j] = Replacement(t[j])
    <3>1. \A j \in 1 .. k : Replacement(t[j]) \in Seq(Tokens)
      BY <1>1, <1>2, <2>1
    <3>2. tt = [j \in 1 .. k |-> Replacement(t[j])]
      OBVIOUS
    <3> HIDE DEF tt, k
    <3> QED BY <2>1, <3>1, <3>2
  <2> HIDE DEF tt
  <2>4. PICK g : Joins(tt, g) /\ FlattenSeq(tt) = g[k]
    BY <2>3, Flattened
  <2> HIDE DEF k
  <2>5. g[k] = f[k]
    <3>1. /\ Len(ss) \in Nat /\ Len(tt) \in Nat /\ Len(tt) <= Len(ss)
          /\ \A j \in 1 .. Len(tt) : tt[j] = ss[j]
      BY <1>1, <1>4, <2>1, <2>3
    <3>2. \A j \in 0 .. Len(tt) : g[j] = f[j]
      BY <1>5, <2>4, <3>1, JoinedPrefix
    <3> QED BY <2>1, <2>3, <3>2
  <2> QED BY <2>2, <2>4, <2>5 DEF k
<1>8. Len(u) = Len(Before(t, n + 1))
  BY <1>1, <1>5, <1>7
<1>9. ASSUME NEW i \in 1 .. n
      PROVE  SubSeq(u, Len(Before(t, i)) + 1, Len(Before(t, i)) + Len(Replacement(t[i]))) = Replacement(t[i])
  <2> DEFINE at == Len(Before(t, i))
             v == Replacement(t[i])
  <2>1. Before(t, i) = f[i - 1] /\ i - 1 \in 0 .. n
    BY <1>1, <1>7
  <2>2. at \in Nat /\ at = Len(f[i - 1])
    BY <1>6, <2>1
  <2>3. Placed(ss, f, n, i)
    BY <1>1, <1>4, <1>5, JoinedAt
  <2>4. v = ss[i] /\ v \in Seq(Tokens)
    BY <1>1, <1>2, <1>4
  <2>5. u \in Seq(Tokens)
    BY <1>1, <1>5, <1>6
  <2> HIDE DEF at, v
  <2>6. at + Len(v) <= Len(u) /\ \A j \in 1 .. Len(v) : u[at + j] = v[j]
    BY <1>5, <2>2, <2>3, <2>4 DEF Placed
  <2>7. SubSeq(u, at + 1, at + Len(v)) = v
    BY <2>2, <2>4, <2>5, <2>6, Slice
  <2> QED BY <2>7 DEF at, v
<1> QED BY <1>1, <1>8, <1>9 DEF n, u

LEMMA NotSet ==
  ASSUME NEW set, NEW v, <<v>> \notin DOMAIN set, Lookup(set, v) # <<>>
  PROVE  Lookup(set, v) = <<call.vars[v]>>
<1> DEFINE env == IF call.vars[v] # Empty THEN <<call.vars[v]>> ELSE <<>>
<1>1. Lookup(set, v) = IF <<v>> \in DOMAIN set THEN <<set[<<v>>]>> ELSE env
  BY DEF Lookup
<1> HIDE DEF env
<1>2. Lookup(set, v) = env
  BY <1>1
<1>3. env = <<>> \/ env = <<call.vars[v]>>
  BY DEF env
<1> QED BY <1>2, <1>3

\* The variables of an accepted spec have the values that are meant.
LEMMA LookedUp ==
  ASSUME call.cmd = "create", AsMeant(Reading), NEW v, Lookup(Reading.map, v) # <<>>
  PROVE  Lookup(Reading.map, v) = <<ValueOf(v)>>
<1> DEFINE set == Reading.map
<1>1. DOMAIN set = Keys("set") /\ \A k \in Keys("set") : set[k] = MeantFor("set", k)
  <2>1. "set" \in DOMAIN Flags(call.cmd) /\ Flags(call.cmd)["set"] = "map"
    BY DEF Flags
  <2> QED BY <2>1 DEF AsMeant
<1> HIDE DEF set
<1>2. CASE <<v>> \in Keys("set")
  <2>1. Lookup(set, v) = <<set[<<v>>]>>
    BY <1>1, <1>2 DEF Lookup
  <2>2. set[<<v>>] = ValueOf(v)
    BY <1>1, <1>2 DEF ValueOf
  <2> QED BY <2>1, <2>2 DEF set
<1>3. CASE <<v>> \notin Keys("set")
  <2>1. ValueOf(v) = call.vars[v]
    BY <1>3, Zenon DEF ValueOf
  <2>2. Lookup(set, v) # <<>>
    BY DEF set
  <2>3. <<v>> \notin DOMAIN set
    BY <1>1, <1>3, Zenon
  <2>4. Lookup(set, v) = <<call.vars[v]>>
    BY <2>2, <2>3, NotSet, SMTT(40)
  <2> QED BY <2>1, <2>4 DEF set
<1> QED BY <1>2, <1>3

LEMMA SubstitutedAsMeant == RequestInv => SpecSubstituted
<1> SUFFICES ASSUME RequestInv, request.op = "create" PROVE SpecSubstituted
  BY DEF SpecSubstituted
<1> DEFINE r == Reading
           doc == Written
<1>1. request # NoRequest
  <2>1. NoRequest.op # "create"
    BY Zenon DEF NoRequest
  <2> QED BY <2>1
<1>2. call \in Calls /\ AsTyped /\ call.cmd \in Commands /\ ~Refusal /\ request = ToSend
  BY <1>1, Zenon DEF RequestInv
<1>3. Read.op = "create" /\ request.doc = Interpolate(r.map, Read.doc)
  BY <1>2, RequestIs
<1>4. call.cmd = "create"
  BY <1>2, <1>3, Route DEF Read
<1>5. Read.doc = doc
  BY <1>4 DEF Read, Request
<1>6. AsMeant(r) /\ Defined(r.map, doc)
  <2>1. WellFormed(call.cmd, Reading) /\ Defined(Reading.map, Read.doc)
    BY <1>2, <1>3 DEF Refusal
  <2>2. r.ok
    BY <2>1 DEF WellFormed
  <2>3. AsMeant(r)
    BY <1>2, <1>4, <2>2, ReadAsMeant
  <2> QED BY <1>5, <2>1, <2>3
<1>7. /\ doc \in Seq([part : {"key", "value"}, text : Text, quoted : BOOLEAN])
      /\ Len(doc) \in Nat /\ DOMAIN doc = 1 .. Len(doc)
      /\ \A n \in DOMAIN doc : doc[n] \in [part : {"key", "value"}, text : Text, quoted : BOOLEAN]
  <2>1. Invocation(call)
    BY <1>2, Zenon, MsbctlAssumption
  <2> DEFINE Scalar == [part : {"key", "value"}, text : Text, quoted : BOOLEAN]
  <2>2. doc \in Seq(Scalar)
    <3>1. call.doc \in Seq(Scalar) /\ Null \in Scalar
      BY <2>1 DEF Invocation, Null, Text, Empty
    <3> HIDE DEF Scalar
    <3>2. <<Null>> \in Seq(Scalar)
      BY <3>1
    <3> QED BY <3>1, <3>2 DEF Written
  <2> HIDE DEF doc, Scalar
  <2>3. Len(doc) \in Nat /\ DOMAIN doc = 1 .. Len(doc) /\ \A n \in DOMAIN doc : doc[n] \in Scalar
    BY <2>2
  <2> QED BY <2>2, <2>3 DEF Scalar
<1>8. request.doc = [n \in DOMAIN doc |-> Substitute(r.map, doc[n])]
  BY <1>3, <1>5 DEF Interpolate
<1>9. Len(request.doc) = Len(doc)
  <2> HIDE DEF r, doc
  <2> QED BY <1>7, <1>8
<1>10. ASSUME NEW n \in DOMAIN doc
       PROVE  LET t == doc[n].text
                  u == request.doc[n].text
              IN /\ request.doc[n].part = doc[n].part
                 /\ Len(u) = Len(Before(t, Len(t) + 1))
                 /\ \A i \in DOMAIN t :
                      SubSeq(u, Len(Before(t, i)) + 1, Len(Before(t, i)) + Len(Replacement(t[i])))
                        = Replacement(t[i])
                 /\ Variables(t) # {} => request.doc[n].quoted
  <2> DEFINE x == doc[n]
             t == x.text
             y == request.doc[n]
             u == y.text
  <2>1. x \in [part : {"key", "value"}, text : Text, quoted : BOOLEAN] /\ y = Substitute(r.map, x)
    BY <1>7, <1>8
  <2>2. \A v \in Variables(t) : Lookup(r.map, v) = <<ValueOf(v)>>
    BY <1>4, <1>6, LookedUp DEF Defined
  <2> HIDE DEF r, doc, x, y
  <2>3. /\ y.part = x.part /\ u = Substituted(r.map, t)
        /\ (Variables(t) # {}) => y.quoted
    BY <2>1 DEF Substitute
  <2>4. t \in Text
    BY <2>1
  <2> HIDE DEF t, u
  <2>6. /\ Len(u) = Len(Before(t, Len(t) + 1))
        /\ \A i \in DOMAIN t :
             SubSeq(u, Len(Before(t, i)) + 1, Len(Before(t, i)) + Len(Replacement(t[i]))) = Replacement(t[i])
    BY <1>2, <2>2, <2>3, <2>4, SubstitutedMeans
  <2> QED BY <2>3, <2>6 DEF t, u, x, y
<1> QED BY <1>9, <1>10 DEF SpecSubstituted, Before, Replacement, doc

\* The document sent is the one written, with each variable's value in the place of
\* its ${NAME} and nowhere else, whatever the values hold (interpolate.go); a key with
\* a variable is left out, a file of comments is the null it is read as.
THEOREM SpecsSubstituted == Spec => []SpecSubstituted
<1> QED BY RequestFirst, RequestStep, SubstitutedAsMeant, PTL DEF Spec

=============================================================================
