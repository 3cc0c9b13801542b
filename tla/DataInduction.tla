---------------------------- MODULE DataInduction ----------------------------
(***************************************************************************)
(* Induction over the natural numbers, over finite recursive functions and *)
(* over sequences, in a form that first-order provers can use: what is     *)
(* shown of every number is that it belongs to a set.                      *)
(***************************************************************************)
EXTENDS SequencesExt, SequenceTheorems, FiniteSetTheorems, WellFoundedInduction, TLAPS

LEMMA LeastElement ==
  ASSUME NEW T \in SUBSET Nat, T # {}
  PROVE  \E x \in T : \A y \in T : x <= y
<1> DEFINE R == {ss \in Nat \X Nat : ss[1] < ss[2]}
<1>1. IsWellFoundedOn(R, Nat)
  BY NatLessThanWellFounded DEF OpToRel
<1>2. \A x, y \in Nat : x < y => <<x, y>> \in R
  OBVIOUS
<1> HIDE DEF R
<1>3. PICK x \in T : \A y \in T : ~ (<<y, x>> \in R)
  BY <1>1, WFMin
<1>4. ASSUME NEW y \in T
      PROVE  x <= y
  <2>1. x \in Nat /\ y \in Nat /\ ~ (y < x)
    BY <1>2, <1>3
  <2> QED
    BY <2>1
<1> QED
  BY <1>4

\* A set that holds 0 and with each number the next one holds all up to n.
LEMMA UpTo ==
  ASSUME NEW n \in Nat, NEW S, 0 \in S, \A k \in 0..(n - 1) : k \in S => k + 1 \in S
  PROVE  0..n \subseteq S
<1> DEFINE T == (0..n) \ S
<1> SUFFICES ASSUME T # {}
             PROVE  FALSE
  OBVIOUS
<1>1. PICK x \in T : \A y \in T : x <= y
  <2>1. T \in SUBSET Nat
    OBVIOUS
  <2> QED
    BY <2>1, LeastElement
<1>2. x - 1 \in 0..(n - 1) /\ x - 1 \in S
  BY <1>1
<1> QED
  BY <1>1, <1>2

GoTogether(f, g, m, n) ==
  f[m] = g[m] /\ \A i \in (m + 1)..n : f[i - 1] = g[i - 1] => f[i] = g[i]

LEMMA SameRun ==
  ASSUME NEW m \in Nat, NEW n \in Nat, NEW f, NEW g, GoTogether(f, g, m, n)
  PROVE  \A i \in m..n : f[i] = g[i]
<1> DEFINE S == {k \in 0..n : k >= m => f[k] = g[k]}
<1>1. 0 \in S
  BY DEF GoTogether
<1>2. ASSUME NEW k \in 0..(n - 1), k \in S
      PROVE  k + 1 \in S
  <2>1. k + 1 \in 0..n /\ (k + 1) - 1 = k
    OBVIOUS
  <2>2. CASE k + 1 > m
    <3>1. f[k] = g[k] /\ k + 1 \in (m + 1)..n
      BY <1>2, <2>1, <2>2
    <3>2. f[k + 1] = g[k + 1]
      BY <2>1, <3>1 DEF GoTogether
    <3> QED
      BY <2>1, <3>2
  <2>3. CASE k + 1 = m
    BY <2>1, <2>3 DEF GoTogether
  <2>4. CASE k + 1 < m
    BY <2>1, <2>4
  <2> QED
    BY <2>1, <2>2, <2>3, <2>4
<1>3. 0..n \subseteq S
  <2> HIDE DEF S
  <2> QED
    BY <1>1, <1>2, UpTo
<1> QED
  BY <1>3

-----------------------------------------------------------------------------
(* Recursive functions                                                     *)

\* There is a sequence of states that begins with start and takes each step.
AreSteps(step, n, Q) == \A i \in 1..n : \A q \in Q : step[i][q] \in Q

IsRun(f, n, Q, start, step) ==
  /\ f \in [0..n -> Q]
  /\ f[0] = start
  /\ \A i \in 1..n : f[i] = step[i][f[i - 1]]

LEMMA RunExists ==
  ASSUME NEW n \in Nat, NEW Q, NEW start \in Q, NEW step, AreSteps(step, n, Q)
  PROVE  \E f : IsRun(f, n, Q, start, step)
<1> DEFINE Goes(k, f) ==
             f[0] = start /\ \A i \in 1..k : f[i] = step[i][f[i - 1]]
           S == {k \in 0..n : \E f \in [0..k -> Q] : Goes(k, f)}
<1>1. 0 \in S
  <2> DEFINE g == [i \in 0..0 |-> start]
  <2>1. g \in [0..0 -> Q]
    OBVIOUS
  <2>2. Goes(0, g)
    OBVIOUS
  <2> HIDE DEF g, Goes
  <2>3. 0 \in 0..n
    OBVIOUS
  <2> QED
    BY <2>1, <2>2, <2>3
<1>2. ASSUME NEW k \in 0..(n - 1), k \in S
      PROVE  k + 1 \in S
  <2>1. PICK f \in [0..k -> Q] : Goes(k, f)
    BY <1>2
  <2> DEFINE next == step[k + 1][f[k]]
             g == [i \in 0..(k + 1) |-> IF i = k + 1 THEN next ELSE f[i]]
  <2>2. next \in Q
    <3>1. f[k] \in Q /\ k + 1 \in 1..n
      OBVIOUS
    <3> QED
      BY <3>1 DEF AreSteps
  <2> HIDE DEF next
  <2>3. /\ g \in [0..(k + 1) -> Q]
        /\ g[k + 1] = next
        /\ \A i \in 0..k : g[i] = f[i]
    BY <2>2
  <2> HIDE DEF g
  <2>4. g[0] = start
    BY <2>1, <2>3
  <2>5. ASSUME NEW i \in 1..(k + 1)
        PROVE  g[i] = step[i][g[i - 1]]
    <3>1. g[i - 1] = f[i - 1]
      BY <2>3
    <3>2. CASE i = k + 1
      <4>1. i - 1 = k
        BY <3>2
      <4> QED
        BY <2>3, <3>1, <3>2, <4>1 DEF next
    <3>3. CASE i \in 1..k
      <4>1. g[i] = f[i]
        BY <2>3, <3>3
      <4>2. f[i] = step[i][f[i - 1]]
        BY <2>1, <3>3
      <4> QED
        BY <3>1, <4>1, <4>2
    <3> QED
      BY <3>2, <3>3
  <2>6. Goes(k + 1, g)
    BY <2>4, <2>5
  <2>7. k + 1 \in 0..n
    OBVIOUS
  <2> HIDE DEF Goes
  <2> QED
    BY <2>3, <2>6, <2>7
<1>3. 0..n \subseteq S
  <2> HIDE DEF S
  <2> QED
    BY <1>1, <1>2, UpTo
<1>4. n \in S
  BY <1>3
<1> QED
  BY <1>4 DEF IsRun

-----------------------------------------------------------------------------
(* FlattenSeq                                                              *)

\* What the sequences add up to, one after the other.
FlattensBy(s, f) ==
  /\ f[0] = <<>>
  /\ \A i \in 1..Len(s) : f[i] = f[i - 1] \o s[i]

LEMMA FlattenRun ==
  ASSUME NEW A, NEW s \in Seq(Seq(A))
  PROVE  \E f \in [0..Len(s) -> Seq(A)] : FlattensBy(s, f) /\ FlattenSeq(s) = f[Len(s)]
<1> DEFINE n == Len(s)
           step == [i \in 1..n |-> [q \in Seq(A) |-> q \o s[i]]]
<1>1. n \in Nat /\ <<>> \in Seq(A) /\ \A i \in 1..n : s[i] \in Seq(A)
  OBVIOUS
<1> HIDE DEF n
<1>2. \A i \in 1..n : \A q \in Seq(A) : step[i][q] \in Seq(A)
  BY <1>1
<1>3. \A q \in Seq(A), i \in 1..n : step[i][q] = q \o s[i]
  BY <1>1
<1> HIDE DEF step
<1>4. PICK f \in [0..n -> Seq(A)] :
        f[0] = <<>> /\ \A i \in 1..n : f[i] = step[i][f[i - 1]]
  <2>1. AreSteps(step, n, Seq(A))
    BY <1>2 DEF AreSteps
  <2>2. PICK f : IsRun(f, n, Seq(A), <<>>, step)
    BY <1>1, <2>1, RunExists
  <2> QED
    BY <2>2 DEF IsRun
<1>5. ASSUME NEW i \in 1..n
      PROVE  f[i - 1] \in Seq(A) /\ f[i] = f[i - 1] \o s[i]
  <2>1. i - 1 \in 0..n
    BY <1>1
  <2> QED
    BY <1>3, <1>4, <2>1
<1>6. FlattensBy(s, f)
  BY <1>4, <1>5 DEF FlattensBy, n
<1>7. CASE n = 0
  <2>1. s = <<>>
    BY <1>7 DEF n
  <2>2. FlattenSeq(s) = <<>>
    BY <1>7, <2>1 DEF FlattenSeq, n
  <2> QED
    BY <1>4, <1>6, <1>7, <2>2 DEF n
<1>8. CASE n # 0
  <2> DEFINE Eq(g) == g = [i \in 1..n |-> IF i = 1 THEN s[i] ELSE g[i - 1] \o s[i]]
             h == [i \in 1..n |-> f[i]]
             c == CHOOSE g : Eq(g)
  <2>1. FlattenSeq(s) = c[n]
    BY <1>8 DEF FlattenSeq, n
  <2>a. 1 \in 1..n /\ n \in 1..n
    BY <1>1, <1>8
  <2>b. 1 \in Nat /\ 1 <= n
    BY <2>a
  <2>2. f[1] = s[1]
    <3>1. f[1] = f[1 - 1] \o s[1]
      BY <1>5, <2>a
    <3>3. f[1 - 1] = <<>>
      BY <1>4
    <3>2. s[1] \in Seq(A)
      BY <1>1, <2>a
    <3> QED
      BY <3>1, <3>2, <3>3, ConcatEmptySeq
  <2>3. Eq(h)
    <3>1. ASSUME NEW i \in 1..n
          PROVE  f[i] = IF i = 1 THEN s[i] ELSE h[i - 1] \o s[i]
      <4>1. CASE i = 1
        BY <2>2, <4>1
      <4>2. CASE i # 1
        <5>1. i - 1 \in 1..n
          BY <1>1, <4>2
        <5> QED
          BY <1>5, <4>2, <5>1
      <4> QED
        BY <4>1, <4>2
    <3> QED
      BY <3>1
  <2>4. Eq(c)
    <3> HIDE DEF Eq, h
    <3> QED
      BY <2>3
  <2>5. /\ c[1] = s[1]
        /\ \A i \in 2..n : c[i] = c[i - 1] \o s[i]
    <3> HIDE DEF c
    <3>1. ASSUME NEW i \in 2..n
          PROVE  c[i] = c[i - 1] \o s[i]
      <4>1. i \in 1..n /\ i # 1
        BY <1>1
      <4> QED
        BY <2>4, <4>1, Zenon
    <3>2. c[1] = s[1]
      BY <2>4, <2>a, Zenon
    <3> QED
      BY <3>1, <3>2
  <2> HIDE DEF c, Eq, h
  <2>6. \A i \in 1..n : c[i] = f[i]
    <3>1. c[1] = f[1]
      BY <2>2, <2>5
    <3>2. ASSUME NEW i \in 2..n, c[i - 1] = f[i - 1]
          PROVE  c[i] = f[i]
      <4>1. i \in 1..n
        BY <1>1
      <4> QED
        BY <1>5, <2>5, <3>2, <4>1
    <3>3. GoTogether(c, f, 1, n)
      BY <3>1, <3>2 DEF GoTogether
    <3> QED
      BY <1>1, <2>a, <2>b, <3>1, <3>3, SameRun
  <2>7. c[n] = f[n]
    BY <1>1, <1>8, <2>6
  <2> QED
    BY <1>6, <2>1, <2>7 DEF n
<1> QED
  BY <1>7, <1>8

LEMMA FlattenType ==
  ASSUME NEW A, NEW s \in Seq(Seq(A))
  PROVE  FlattenSeq(s) \in Seq(A)
<1>1. PICK f \in [0..Len(s) -> Seq(A)] : FlattenSeq(s) = f[Len(s)]
  BY FlattenRun
<1>2. Len(s) \in 0..Len(s)
  OBVIOUS
<1> QED
  BY <1>1, <1>2

LEMMA FlattenEmpty == FlattenSeq(<<>>) = <<>>
BY DEF FlattenSeq

LEMMA FlattenAppend ==
  ASSUME NEW A, NEW s \in Seq(Seq(A)), NEW x \in Seq(A)
  PROVE  FlattenSeq(Append(s, x)) = FlattenSeq(s) \o x
<1> DEFINE n == Len(s)
           t == Append(s, x)
<1>1. /\ n \in Nat /\ t \in Seq(Seq(A)) /\ Len(t) = n + 1 /\ t[n + 1] = x
      /\ \A i \in 1..n : t[i] = s[i]
  OBVIOUS
<1>2. PICK f : FlattensBy(s, f) /\ FlattenSeq(s) = f[n]
  BY FlattenRun
<1> HIDE DEF t, n
<1>3. PICK g : FlattensBy(t, g) /\ FlattenSeq(t) = g[n + 1]
  BY <1>1, FlattenRun
<1>4. GoTogether(f, g, 0, n)
  <2>1. f[0] = g[0]
    BY <1>2, <1>3 DEF FlattensBy
  <2>2. ASSUME NEW i \in (0 + 1)..n, f[i - 1] = g[i - 1]
        PROVE  f[i] = g[i]
    <3>1. i \in 1..n /\ i \in 1..Len(t) /\ t[i] = s[i]
      BY <1>1
    <3>2. f[i] = f[i - 1] \o s[i]
      BY <1>2, <3>1, Zenon DEF FlattensBy, n
    <3>3. g[i] = g[i - 1] \o t[i]
      BY <1>3, <3>1, Zenon DEF FlattensBy
    <3> QED
      BY <2>2, <3>1, <3>2, <3>3
  <2> QED
    BY <2>1, <2>2 DEF GoTogether
<1>5. f[n] = g[n]
  BY <1>1, <1>4, SameRun
<1>6. g[n + 1] = g[n] \o t[n + 1]
  <2>1. n + 1 \in 1..Len(t) /\ (n + 1) - 1 = n
    BY <1>1
  <2>2. g[n + 1] = g[(n + 1) - 1] \o t[n + 1]
    BY <1>3, <2>1, Zenon DEF FlattensBy
  <2> QED
    BY <2>1, <2>2
<1> QED
  BY <1>1, <1>2, <1>3, <1>5, <1>6 DEF t

LEMMA ConcatThenAppend ==
  ASSUME NEW A, NEW s \in Seq(A), NEW t \in Seq(A), NEW x \in A
  PROVE  s \o Append(t, x) = Append(s \o t, x)
OBVIOUS

LEMMA FlattenConcatStep ==
  ASSUME NEW A, NEW s \in Seq(Seq(A)), NEW t \in Seq(Seq(A)), NEW x \in Seq(A),
         FlattenSeq(s \o t) = FlattenSeq(s) \o FlattenSeq(t)
  PROVE  FlattenSeq(s \o Append(t, x)) = FlattenSeq(s) \o FlattenSeq(Append(t, x))
<1>1. FlattenSeq(s) \in Seq(A) /\ FlattenSeq(t) \in Seq(A)
  BY FlattenType
<1>2. s \o t \in Seq(Seq(A)) /\ s \o Append(t, x) = Append(s \o t, x)
  BY ConcatProperties, ConcatThenAppend
<1>3. FlattenSeq(s \o Append(t, x)) = (FlattenSeq(s) \o FlattenSeq(t)) \o x
  BY <1>2, FlattenAppend
<1>4. FlattenSeq(Append(t, x)) = FlattenSeq(t) \o x
  BY FlattenAppend
<1>5. (FlattenSeq(s) \o FlattenSeq(t)) \o x = FlattenSeq(s) \o (FlattenSeq(t) \o x)
  BY SMTT(30), <1>1, ConcatAssociative
<1> QED
  BY <1>3, <1>4, <1>5

LEMMA FlattenConcat ==
  ASSUME NEW A, NEW s \in Seq(Seq(A)), NEW t \in Seq(Seq(A))
  PROVE  FlattenSeq(s \o t) = FlattenSeq(s) \o FlattenSeq(t)
<1> DEFINE n == Len(t)
           Start(k) == SubSeq(t, 1, k)
           S == {k \in 0..n : FlattenSeq(s \o Start(k)) = FlattenSeq(s) \o FlattenSeq(Start(k))}
<1>1. n \in Nat
  OBVIOUS
<1>2. 0 \in S
  <2>1. Start(0) = <<>> /\ s \o <<>> = s
    OBVIOUS
  <2>2. FlattenSeq(s) \o <<>> = FlattenSeq(s)
    BY FlattenType, ConcatEmptySeq
  <2>3. 0 \in 0..n
    BY <1>1
  <2> QED
    BY <2>1, <2>2, <2>3, FlattenEmpty, Zenon
<1>3. ASSUME NEW k \in 0..(n - 1), k \in S
      PROVE  k + 1 \in S
  <2>1. /\ Start(k) \in Seq(Seq(A)) /\ t[k + 1] \in Seq(A)
        /\ Start(k + 1) = Append(Start(k), t[k + 1])
    OBVIOUS
  <2>2. FlattenSeq(s \o Start(k)) = FlattenSeq(s) \o FlattenSeq(Start(k))
    BY <1>3
  <2>3. k + 1 \in 0..n
    OBVIOUS
  <2>4. PICK u \in Seq(Seq(A)) : u = Start(k)
    BY <2>1
  <2>5. PICK x \in Seq(A) : x = t[k + 1]
    BY <2>1
  <2> HIDE DEF Start, n
  <2>6. FlattenSeq(s \o Append(u, x)) = FlattenSeq(s) \o FlattenSeq(Append(u, x))
    BY <2>2, <2>4, FlattenConcatStep
  <2> QED
    BY <2>1, <2>3, <2>4, <2>5, <2>6
<1>4. 0..n \subseteq S
  <2> HIDE DEF S, n
  <2> QED
    BY <1>1, <1>2, <1>3, UpTo
<1>5. n \in 0..n /\ Start(n) = t
  BY <1>1
<1> QED
  BY <1>4, <1>5

LEMMA SplitSeq ==
  ASSUME NEW A, NEW s \in Seq(A), NEW k \in 0..Len(s), NEW j \in 0..k
  PROVE  /\ SubSeq(s, 1, j) \in Seq(A)
         /\ SubSeq(s, j + 1, k) \in Seq(A)
         /\ SubSeq(s, 1, k) = SubSeq(s, 1, j) \o SubSeq(s, j + 1, k)
OBVIOUS

LEMMA FlattenSplit ==
  ASSUME NEW A, NEW s \in Seq(Seq(A)), NEW k \in 0..Len(s), NEW j \in 0..k
  PROVE  /\ FlattenSeq(SubSeq(s, 1, j)) \in Seq(A)
         /\ FlattenSeq(SubSeq(s, j + 1, k)) \in Seq(A)
         /\ FlattenSeq(SubSeq(s, 1, k))
              = FlattenSeq(SubSeq(s, 1, j)) \o FlattenSeq(SubSeq(s, j + 1, k))
<1>1. PICK u \in Seq(Seq(A)) : u = SubSeq(s, 1, j)
  BY SplitSeq
<1>2. PICK v \in Seq(Seq(A)) : v = SubSeq(s, j + 1, k)
  BY SplitSeq
<1>3. SubSeq(s, 1, k) = u \o v
  BY <1>1, <1>2, SplitSeq
<1>4. FlattenSeq(u \o v) = FlattenSeq(u) \o FlattenSeq(v)
  BY FlattenConcat
<1>5. FlattenSeq(u) \in Seq(A) /\ FlattenSeq(v) \in Seq(A)
  BY FlattenType
<1> QED
  BY <1>1, <1>2, <1>3, <1>4, <1>5

LEMMA StartOfConcat ==
  ASSUME NEW A, NEW s \in Seq(A), NEW t \in Seq(A)
  PROVE  /\ Len(s) <= Len(s \o t) /\ Len(s) \in Nat /\ Len(s \o t) \in Nat
         /\ SubSeq(s \o t, 1, Len(s)) = s
OBVIOUS

AreSeqs(A, s, t, u) == s \in Seq(A) /\ t \in Seq(A) /\ u \in Seq(A)

LEMMA Regroup3 ==
  ASSUME NEW A, NEW s, NEW t, NEW u, AreSeqs(A, s, t, u)
  PROVE  (s \o t) \o u = s \o (t \o u)
BY ConcatAssociative DEF AreSeqs

ArePieces(A, above, s, w, cut, rest, below) ==
  above = s \o w /\ AreSeqs(A, above, s, w) /\ AreSeqs(A, cut, rest, below)

AreRegrouped(A, above, s, w, cut, rest, below) ==
  /\ AreSeqs(A, above \o cut, rest \o below, w \o cut)
  /\ (above \o (cut \o rest)) \o below = (above \o cut) \o (rest \o below)
  /\ above \o cut = s \o (w \o cut)

LEMMA Regroup ==
  ASSUME NEW A, NEW above, NEW s, NEW w, NEW cut, NEW rest, NEW below,
         ArePieces(A, above, s, w, cut, rest, below)
  PROVE  AreRegrouped(A, above, s, w, cut, rest, below)
<1>1. AreSeqs(A, above \o cut, rest \o below, w \o cut)
  BY ConcatProperties DEF AreSeqs, ArePieces
<1>2. AreSeqs(A, above, cut, rest) /\ AreSeqs(A, above \o cut, rest, below)
      /\ AreSeqs(A, s, w, cut)
  BY <1>1 DEF AreSeqs, ArePieces
<1>3. (above \o cut) \o rest = above \o (cut \o rest)
  BY <1>2, Regroup3
<1>4. ((above \o cut) \o rest) \o below = (above \o cut) \o (rest \o below)
  BY <1>2, Regroup3
<1>5. (s \o w) \o cut = s \o (w \o cut)
  BY <1>2, Regroup3
<1> QED
  BY <1>1, <1>3, <1>4, <1>5 DEF ArePieces, AreRegrouped

\* A place in the k-th of several sequences, behind the first b of them.
IsCut(A, ls, b, k, j) ==
  /\ ls \in Seq(Seq(A))
  /\ b \in Nat
  /\ k \in (b + 1)..Len(ls)
  /\ j \in 0..Len(ls[k])

\* u is what comes before that place, w the part of it behind the first b, and v
\* what comes after it.
AreCutParts(A, ls, b, k, j, u, v, w) ==
  LET above == FlattenSeq(SubSeq(ls, 1, k - 1))
      cut   == SubSeq(ls[k], 1, j)
  IN  /\ FlattenSeq(ls) = u \o v
      /\ u = FlattenSeq(SubSeq(ls, 1, b)) \o w
      /\ cut \in Seq(A)
      /\ u = above \o cut
      /\ \A x \in A : Append(u, x) = above \o Append(cut, x)

LEMMA CutInside ==
  ASSUME NEW A, NEW ls, NEW b, NEW k, NEW j, IsCut(A, ls, b, k, j)
  PROVE  \E u, v, w \in Seq(A) : AreCutParts(A, ls, b, k, j, u, v, w)
<1> USE DEF IsCut
<1>1. PICK line \in Seq(A) : line = ls[k]
  <2>1. ls[k] \in Seq(A)
    OBVIOUS
  <2> QED
    BY <2>1
<1>2. PICK n \in Nat : n = Len(ls) /\ n \in 0..Len(ls) /\ SubSeq(ls, 1, n) = ls
  OBVIOUS
<1>3. /\ k \in 0..Len(ls) /\ k \in 0..n /\ k - 1 \in 0..k /\ k - 1 \in 0..Len(ls)
      /\ b \in 0..(k - 1)
  BY <1>2
<1>4. PICK above \in Seq(A) : above = FlattenSeq(SubSeq(ls, 1, k - 1))
  BY <1>3, FlattenSplit
<1>5. PICK s \in Seq(A) : s = FlattenSeq(SubSeq(ls, 1, b))
  BY <1>3, FlattenSplit
<1>6. PICK w \in Seq(A) : above = s \o w
  BY <1>3, <1>4, <1>5, FlattenSplit
<1>7. PICK below \in Seq(A) : FlattenSeq(ls) = FlattenSeq(SubSeq(ls, 1, k)) \o below
  <2>1. FlattenSeq(SubSeq(ls, 1, n))
          = FlattenSeq(SubSeq(ls, 1, k)) \o FlattenSeq(SubSeq(ls, k + 1, n))
    BY <1>2, <1>3, FlattenSplit
  <2>2. FlattenSeq(SubSeq(ls, k + 1, n)) \in Seq(A)
    BY <1>2, <1>3, FlattenSplit
  <2> QED
    BY <1>2, <2>1, <2>2
<1>8. FlattenSeq(SubSeq(ls, 1, k)) = above \o line
  <2>1. PICK start \in Seq(Seq(A)) : start = SubSeq(ls, 1, k - 1)
    BY <1>3, SplitSeq
  <2>2. SubSeq(ls, 1, k) = Append(start, line)
    BY SMTT(30), <1>1, <1>3, <2>1
  <2> QED
    BY <1>4, <2>1, <2>2, FlattenAppend
<1>9. /\ SubSeq(line, 1, j) \in Seq(A) /\ SubSeq(line, j + 1, Len(line)) \in Seq(A)
      /\ SubSeq(line, 1, Len(line)) = SubSeq(line, 1, j) \o SubSeq(line, j + 1, Len(line))
  <2>1. Len(line) \in 0..Len(line) /\ j \in 0..Len(line)
    BY <1>1
  <2> QED
    BY <2>1, SplitSeq
<1>10. SubSeq(line, 1, Len(line)) = line
  OBVIOUS
<1>11. PICK cut \in Seq(A) : cut = SubSeq(line, 1, j)
  BY <1>9
<1>12. PICK rest \in Seq(A) : line = cut \o rest
  BY <1>9, <1>10, <1>11
<1>a. ArePieces(A, above, s, w, cut, rest, below)
  BY <1>6 DEF AreSeqs, ArePieces
<1>c. AreRegrouped(A, above, s, w, cut, rest, below)
  BY <1>a, Regroup
<1>13. AreSeqs(A, above \o cut, rest \o below, w \o cut)
  BY <1>c DEF AreRegrouped
<1>d. above \o cut = s \o (w \o cut)
  BY <1>c DEF AreRegrouped
<1>b. \A x \in A : above \o Append(cut, x) = Append(above \o cut, x)
  BY SMTT(30), ConcatThenAppend
<1>14. FlattenSeq(ls) = (above \o cut) \o (rest \o below)
  BY <1>7, <1>8, <1>12, <1>c DEF AreRegrouped
<1> QED
  BY <1>1, <1>4, <1>5, <1>11, <1>13, <1>14, <1>b, <1>d DEF AreSeqs, AreCutParts

-----------------------------------------------------------------------------
(* A sequence for each element, one after the other                        *)

IsMap(m, A, B) == m \in [A -> B]
Images(m, s) == [i \in DOMAIN s |-> m[s[i]]]
FlatMap(m, s) == FlattenSeq(Images(m, s))

LEMMA ImagesType ==
  ASSUME NEW A, NEW B, NEW m, IsMap(m, A, B), NEW s \in Seq(A)
  PROVE  /\ Images(m, s) \in Seq(B)
         /\ Len(Images(m, s)) = Len(s)
         /\ \A i \in 1..Len(s) : Images(m, s)[i] = m[s[i]]
<1>1. DOMAIN s = 1..Len(s) /\ Len(s) \in Nat /\ \A i \in 1..Len(s) : s[i] \in A
  OBVIOUS
<1> QED
  BY <1>1, IsASeq DEF Images, IsMap

LEMMA ImagesConcat ==
  ASSUME NEW A, NEW B, NEW m, IsMap(m, A, B), NEW s \in Seq(A), NEW t \in Seq(A)
  PROVE  Images(m, s \o t) = Images(m, s) \o Images(m, t)
<1>1. PICK st \in Seq(A) : st = s \o t /\ Len(st) = Len(s) + Len(t)
  <2>1. s \o t \in Seq(A) /\ Len(s \o t) = Len(s) + Len(t)
    BY ConcatProperties
  <2> QED
    BY <2>1
<1>2. PICK u \in Seq(B) : u = Images(m, st)
  BY ImagesType
<1>3. PICK v \in Seq(B) : v = Images(m, s)
  BY ImagesType
<1>4. PICK w \in Seq(B) : w = Images(m, t)
  BY ImagesType
<1>5. Len(u) = Len(s) + Len(t) /\ Len(v) = Len(s) /\ Len(w) = Len(t)
  <2>1. Len(u) = Len(st)
    BY <1>2, ImagesType
  <2>2. Len(v) = Len(s)
    BY <1>3, ImagesType
  <2>3. Len(w) = Len(t)
    BY <1>4, ImagesType
  <2> QED
    BY <1>1, <2>1, <2>2, <2>3
<1>6. ASSUME NEW i \in 1..Len(u)
      PROVE  u[i] = (v \o w)[i]
  <2>1. u[i] = m[st[i]]
    BY <1>2, <1>5, ImagesType
  <2>2. CASE i <= Len(s)
    <3>1. st[i] = s[i] /\ i \in 1..Len(s)
      BY <1>1, <1>5, <2>2
    <3>2. v[i] = m[s[i]]
      BY <1>3, <3>1, ImagesType
    <3>3. (v \o w)[i] = v[i]
      BY <1>5, <2>2
    <3> QED
      BY <2>1, <3>1, <3>2, <3>3
  <2>3. CASE i > Len(s)
    <3>1. st[i] = t[i - Len(s)] /\ i - Len(s) \in 1..Len(t)
      BY <1>1, <1>5, <2>3
    <3>a. PICK j \in 1..Len(t) : j = i - Len(s)
      BY <3>1
    <3>b. w[j] = m[t[j]]
      BY <1>4, ImagesType
    <3>2. w[i - Len(s)] = m[t[i - Len(s)]]
      BY <3>a, <3>b
    <3>3. (v \o w)[i] = w[i - Len(s)]
      BY <1>5, <2>3
    <3> QED
      BY <2>1, <3>1, <3>2, <3>3
  <2> QED
    BY <1>5, <2>2, <2>3
<1>7. v \o w \in Seq(B) /\ Len(v \o w) = Len(u)
  <2>1. v \o w \in Seq(B) /\ Len(v \o w) = Len(v) + Len(w)
    BY ConcatProperties
  <2> QED
    BY <1>5, <2>1
<1>8. u = v \o w
  BY <1>6, <1>7, SeqEqual
<1> QED
  BY <1>1, <1>2, <1>3, <1>4, <1>8

LEMMA FlatMapType ==
  ASSUME NEW A, NEW B, NEW m, IsMap(m, A, Seq(B)), NEW s \in Seq(A)
  PROVE  FlatMap(m, s) \in Seq(B)
BY ImagesType, FlattenType DEF FlatMap

LEMMA FlatMapConcat ==
  ASSUME NEW A, NEW B, NEW m, IsMap(m, A, Seq(B)), NEW s \in Seq(A), NEW t \in Seq(A)
  PROVE  FlatMap(m, s \o t) = FlatMap(m, s) \o FlatMap(m, t)
<1>1. Images(m, s) \in Seq(Seq(B)) /\ Images(m, t) \in Seq(Seq(B))
  BY ImagesType
<1>2. Images(m, s \o t) = Images(m, s) \o Images(m, t)
  BY ImagesConcat
<1> QED
  BY <1>1, <1>2, FlattenConcat DEF FlatMap

LEMMA FlatMapEmpty == \A m : FlatMap(m, <<>>) = <<>>
<1> TAKE m
<1>1. Images(m, <<>>) = <<>>
  BY DEF Images
<1> QED
  BY <1>1, FlattenEmpty DEF FlatMap

LEMMA FlatMapOne ==
  ASSUME NEW A, NEW B, NEW m, IsMap(m, A, Seq(B)), NEW a \in A
  PROVE  FlatMap(m, <<a>>) = m[a]
<1>1. <<>> \in Seq(Seq(B)) /\ m[a] \in Seq(B) /\ <<a>> \in Seq(A)
  BY DEF IsMap
<1>2. Images(m, <<a>>) = Append(<<>>, m[a])
  BY <1>1 DEF Images
<1>3. FlattenSeq(Append(<<>>, m[a])) = FlattenSeq(<<>>) \o m[a]
  BY <1>1, FlattenAppend
<1>4. <<>> \o m[a] = m[a]
  BY <1>1, ConcatEmptySeq
<1> QED
  BY <1>2, <1>3, <1>4, FlattenEmpty DEF FlatMap

LEMMA FlatMapAppend ==
  ASSUME NEW A, NEW B, NEW m, IsMap(m, A, Seq(B)), NEW s \in Seq(A), NEW a \in A
  PROVE  FlatMap(m, Append(s, a)) = FlatMap(m, s) \o m[a]
<1>1. PICK t \in Seq(A) : t = <<a>>
  <2>1. <<a>> \in Seq(A)
    OBVIOUS
  <2> QED
    BY <2>1
<1>2. Append(s, a) = s \o t
  BY <1>1
<1>3. FlatMap(m, s \o t) = FlatMap(m, s) \o FlatMap(m, t)
  BY FlatMapConcat
<1>4. FlatMap(m, t) = m[a]
  BY <1>1, FlatMapOne
<1> QED
  BY <1>2, <1>3, <1>4

LEMMA SeqsOfMore ==
  ASSUME NEW S, NEW T, S \subseteq T
  PROVE  Seq(S) \subseteq Seq(T)
<1> SUFFICES ASSUME NEW u \in Seq(S)
             PROVE  u \in Seq(T)
  OBVIOUS
<1>1. u \in [1..Len(u) -> S] /\ Len(u) \in Nat
  OBVIOUS
<1>2. u \in [1..Len(u) -> T]
  BY <1>1
<1> QED
  BY <1>1, <1>2, SeqDef

LEMMA Behind ==
  ASSUME NEW A, NEW a \in A, NEW s \in Seq(A)
  PROVE  <<a>> \o s \in Seq(A) /\ Tail(<<a>> \o s) = s
<1>1. PICK o \in Seq(A) : o = <<a>>
  <2>1. <<a>> \in Seq(A)
    OBVIOUS
  <2> QED
    BY <2>1
<1>2. Len(o) = 1
  BY <1>1
<1>3. /\ o \o s \in Seq(A) /\ Len(o \o s) = Len(s) + 1
      /\ \A i \in 1..Len(s) : (o \o s)[i + 1] = s[i]
  BY SMTT(30), <1>2, ConcatProperties
<1>4. PICK t \in Seq(A) : t = o \o s
  BY <1>3
<1>5. t # <<>>
  BY <1>3, <1>4
<1>6. /\ Tail(t) \in Seq(A) /\ Len(Tail(t)) = Len(s)
      /\ \A i \in 1..Len(Tail(t)) : Tail(t)[i] = s[i]
  BY <1>3, <1>4, <1>5, HeadTailProperties
<1>7. Tail(t) = s
  BY <1>6, SeqEqual
<1> QED
  BY <1>1, <1>3, <1>4, <1>7

LEMMA Bracketed ==
  ASSUME NEW A, NEW x \in Seq(A), NEW a \in A
  PROVE  <<a>> \o x \o <<a>> \in Seq(A) /\ Tail(<<a>> \o x \o <<a>>) = Append(x, a)
<1>1. PICK s \in Seq(A) : s = <<a>> \o x
  BY Behind
<1>2. s \o <<a>> = Append(s, a)
  OBVIOUS
<1>3. <<a>> \o Append(x, a) = Append(<<a>> \o x, a)
  OBVIOUS
<1>4. PICK y \in Seq(A) : y = Append(x, a)
  <2>1. Append(x, a) \in Seq(A)
    BY AppendProperties
  <2> QED
    BY <2>1
<1>5. <<a>> \o y \in Seq(A) /\ Tail(<<a>> \o y) = y
  BY Behind
<1> QED
  BY <1>1, <1>2, <1>3, <1>4, <1>5, Zenon

-----------------------------------------------------------------------------
(* Induction over sequences                                                *)

\* A set that holds the empty sequence and with each sequence its extensions.
HoldsAllOf(S, A) == <<>> \in S /\ \A s \in Seq(A), a \in A : s \in S => Append(s, a) \in S

LEMMA SeqInduction ==
  ASSUME NEW A, NEW S, HoldsAllOf(S, A)
  PROVE  Seq(A) \subseteq S
<1> SUFFICES ASSUME NEW s \in Seq(A)
             PROVE  s \in S
  OBVIOUS
<1> DEFINE n == Len(s)
           T == {k \in 0..n : SubSeq(s, 1, k) \in S}
<1>1. n \in Nat
  OBVIOUS
<1>2. 0 \in T
  <2>1. SubSeq(s, 1, 0) = <<>> /\ 0 \in 0..n
    OBVIOUS
  <2> QED
    BY <2>1 DEF HoldsAllOf
<1>3. ASSUME NEW k \in 0..(n - 1), k \in T
      PROVE  k + 1 \in T
  <2>1. /\ SubSeq(s, 1, k) \in Seq(A) /\ s[k + 1] \in A
        /\ SubSeq(s, 1, k + 1) = Append(SubSeq(s, 1, k), s[k + 1])
        /\ k + 1 \in 0..n
    OBVIOUS
  <2> QED
    BY <1>3, <2>1 DEF HoldsAllOf
<1>4. 0..n \subseteq T
  <2> HIDE DEF T, n
  <2> QED
    BY <1>1, <1>2, <1>3, UpTo
<1>5. SubSeq(s, 1, n) = s /\ n \in 0..n
  OBVIOUS
<1> QED
  BY <1>4, <1>5

-----------------------------------------------------------------------------
(* Machines that read a sequence: M[c][q] is the state after q on reading c *)

IsMachine(M, C, Q) == \A c \in C, q \in Q : M[c][q] \in Q

IsTrace(M, q, u, f) == f[0] = q /\ \A i \in 1..Len(u) : f[i] = M[u[i]][f[i - 1]]
Trace(M, q, u) == CHOOSE f : IsTrace(M, q, u, f)

\* The state after q on reading all of u.
Run(M, q, u) == Trace(M, q, u)[Len(u)]

LEMMA TraceExists ==
  ASSUME NEW M, NEW C, NEW Q, IsMachine(M, C, Q), NEW q \in Q, NEW u \in Seq(C)
  PROVE  \E f \in [0..Len(u) -> Q] : IsTrace(M, q, u, f)
<1> DEFINE n == Len(u)
           step == [i \in 1..n |-> M[u[i]]]
<1>1. n \in Nat
  OBVIOUS
<1>2. AreSteps(step, n, Q)
  BY DEF AreSteps, IsMachine
<1> HIDE DEF n
<1>3. \A i \in 1..n : step[i] = M[u[i]]
  OBVIOUS
<1> HIDE DEF step
<1>4. PICK f : IsRun(f, n, Q, q, step)
  BY <1>1, <1>2, RunExists
<1>5. IsTrace(M, q, u, f) /\ f \in [0..n -> Q]
  BY <1>3, <1>4 DEF IsRun, IsTrace, n
<1> QED
  BY <1>5 DEF n

LEMMA TracesAgree ==
  ASSUME NEW M, NEW q, NEW C, NEW u \in Seq(C), NEW f, NEW g,
         IsTrace(M, q, u, f), IsTrace(M, q, u, g)
  PROVE  \A i \in 0..Len(u) : f[i] = g[i]
<1>1. GoTogether(f, g, 0, Len(u))
  BY DEF GoTogether, IsTrace
<1>2. Len(u) \in Nat
  OBVIOUS
<1> QED
  BY <1>1, <1>2, SameRun

LEMMA TraceIs ==
  ASSUME NEW M, NEW C, NEW Q, IsMachine(M, C, Q), NEW q \in Q, NEW u \in Seq(C)
  PROVE  /\ IsTrace(M, q, u, Trace(M, q, u))
         /\ \A i \in 0..Len(u) : Trace(M, q, u)[i] \in Q
<1>1. PICK f \in [0..Len(u) -> Q] : IsTrace(M, q, u, f)
  BY TraceExists
<1>2. IsTrace(M, q, u, Trace(M, q, u))
  BY <1>1 DEF Trace
<1>3. \A i \in 0..Len(u) : Trace(M, q, u)[i] = f[i]
  BY <1>1, <1>2, TracesAgree
<1> QED
  BY <1>1, <1>2, <1>3

LEMMA RunType ==
  ASSUME NEW M, NEW C, NEW Q, IsMachine(M, C, Q), NEW q \in Q, NEW u \in Seq(C)
  PROVE  Run(M, q, u) \in Q
<1>1. Len(u) \in 0..Len(u)
  OBVIOUS
<1> QED
  BY <1>1, TraceIs DEF Run

LEMMA RunEmpty ==
  ASSUME NEW M, NEW C, NEW Q, IsMachine(M, C, Q), NEW q \in Q
  PROVE  Run(M, q, <<>>) = q
<1>1. PICK u \in Seq(C) : u = <<>> /\ Len(u) = 0
  <2>1. <<>> \in Seq(C) /\ Len(<<>>) = 0
    OBVIOUS
  <2> QED
    BY <2>1
<1>2. IsTrace(M, q, u, Trace(M, q, u))
  BY TraceIs
<1>3. Run(M, q, u) = q
  BY <1>1, <1>2 DEF Run, IsTrace
<1> QED
  BY <1>1, <1>3

LEMMA RunAppend ==
  ASSUME NEW M, NEW C, NEW Q, IsMachine(M, C, Q), NEW q \in Q, NEW u \in Seq(C), NEW c \in C
  PROVE  Run(M, q, Append(u, c)) = M[c][Run(M, q, u)]
<1>1. PICK v \in Seq(C) : v = Append(u, c)
  <2>1. Append(u, c) \in Seq(C)
    OBVIOUS
  <2> QED
    BY <2>1
<1>2. PICK n \in Nat : n = Len(u) /\ Len(v) = n + 1 /\ v[n + 1] = c /\ \A i \in 1..n : v[i] = u[i]
  BY <1>1
<1>3. PICK g : g = Trace(M, q, v) /\ IsTrace(M, q, v, g)
  BY TraceIs
<1>4. IsTrace(M, q, u, g)
  <2>1. ASSUME NEW i \in 1..Len(u)
        PROVE  g[i] = M[u[i]][g[i - 1]]
    <3>1. i \in 1..Len(v) /\ v[i] = u[i]
      BY <1>2
    <3> QED
      BY <1>3, <3>1 DEF IsTrace
  <2>2. g[0] = q
    BY <1>3 DEF IsTrace
  <2> QED
    BY <2>1, <2>2 DEF IsTrace
<1>5. PICK f : f = Trace(M, q, u) /\ IsTrace(M, q, u, f)
  BY TraceIs
<1>6. f[n] = g[n]
  <2>1. \A i \in 0..Len(u) : f[i] = g[i]
    BY <1>4, <1>5, TracesAgree
  <2> QED
    BY <1>2, <2>1
<1>7. g[n + 1] = M[c][g[n]]
  <2>1. n + 1 \in 1..Len(v) /\ (n + 1) - 1 = n
    BY <1>2
  <2>2. g[n + 1] = M[v[n + 1]][g[(n + 1) - 1]]
    BY <1>3, <2>1, Zenon DEF IsTrace
  <2> QED
    BY <1>2, <2>1, <2>2
<1> QED
  BY <1>1, <1>2, <1>3, <1>5, <1>6, <1>7 DEF Run

LEMMA RunConcat ==
  ASSUME NEW M, NEW C, NEW Q, IsMachine(M, C, Q), NEW q \in Q, NEW u \in Seq(C), NEW v \in Seq(C)
  PROVE  Run(M, q, u \o v) = Run(M, Run(M, q, u), v)
<1>1. PICK r \in Q : r = Run(M, q, u)
  BY RunType
<1> DEFINE S == {w \in Seq(C) : Run(M, q, u \o w) = Run(M, r, w)}
<1>2. <<>> \in S
  <2>1. u \o <<>> = u /\ <<>> \in Seq(C)
    BY ConcatEmptySeq
  <2>2. Run(M, r, <<>>) = r
    BY RunEmpty
  <2> QED
    BY <1>1, <2>1, <2>2
<1>3. ASSUME NEW w \in Seq(C), NEW c \in C, w \in S
      PROVE  Append(w, c) \in S
  <2>1. PICK uw \in Seq(C) : uw = u \o w
    <3>1. u \o w \in Seq(C)
      BY ConcatProperties
    <3> QED
      BY <3>1
  <2>2. u \o Append(w, c) = Append(uw, c)
    BY <2>1, ConcatThenAppend
  <2>3. Run(M, q, Append(uw, c)) = M[c][Run(M, q, uw)]
    BY RunAppend
  <2>4. Run(M, r, Append(w, c)) = M[c][Run(M, r, w)]
    BY RunAppend
  <2>5. Append(w, c) \in Seq(C)
    OBVIOUS
  <2> QED
    BY <1>3, <2>1, <2>2, <2>3, <2>4, <2>5
<1>4. HoldsAllOf(S, C)
  BY <1>2, <1>3 DEF HoldsAllOf
<1>5. Seq(C) \subseteq S
  <2> HIDE DEF S
  <2> QED
    BY <1>4, SeqInduction
<1> QED
  BY <1>1, <1>5

LEMMA RunOne ==
  ASSUME NEW M, NEW C, NEW Q, IsMachine(M, C, Q), NEW q \in Q, NEW c \in C
  PROVE  Run(M, q, <<c>>) = M[c][q]
<1>1. PICK u \in Seq(C) : u = <<>>
  <2>1. <<>> \in Seq(C)
    OBVIOUS
  <2> QED
    BY <2>1
<1>2. Append(u, c) = <<c>>
  BY <1>1
<1>3. Run(M, q, Append(u, c)) = M[c][Run(M, q, u)]
  BY RunAppend
<1> QED
  BY <1>1, <1>2, <1>3, RunEmpty

OneMore(C, s, n, t) ==
  /\ s \in Seq(C) /\ t \in Seq(C) /\ n \in Nat
  /\ Len(s) = n /\ Len(t) = n + 1
  /\ \A i \in 1..n : t[i] = s[i]

LEMMA AppendIs ==
  ASSUME NEW C, NEW s, NEW t, NEW n, OneMore(C, s, n, t), NEW b \in C, b = t[n + 1]
  PROVE  Append(s, b) = t
<1> USE DEF OneMore
<1>1. /\ Append(s, b) \in Seq(C) /\ Len(Append(s, b)) = n + 1 /\ Append(s, b)[n + 1] = b
      /\ \A i \in 1..n : Append(s, b)[i] = s[i]
  BY AppendProperties
<1>2. \A i \in 1..Len(t) : Append(s, b)[i] = t[i]
  BY <1>1
<1> QED
  BY <1>1, <1>2, SeqEqual

LEMMA AppendTwo ==
  ASSUME NEW C, NEW a \in C, NEW b \in C
  PROVE  Append(<<a>>, b) = <<a, b>>
<1>1. <<a>> \in Seq(C) /\ <<a, b>> \in Seq(C)
  OBVIOUS
<1>2. Len(<<a>>) = 1 /\ Len(<<a, b>>) = 1 + 1
  OBVIOUS
<1>3. \A i \in 1..1 : <<a, b>>[i] = <<a>>[i]
  OBVIOUS
<1>4. b = <<a, b>>[1 + 1]
  OBVIOUS
<1>5. OneMore(C, <<a>>, 1, <<a, b>>)
  BY <1>1, <1>2, <1>3, Zenon DEF OneMore
<1> QED
  BY <1>4, <1>5, AppendIs, Zenon

LEMMA AppendThree ==
  ASSUME NEW C, NEW a \in C, NEW b \in C, NEW c \in C
  PROVE  Append(<<a, b>>, c) = <<a, b, c>>
<1>1. <<a, b>> \in Seq(C) /\ <<a, b, c>> \in Seq(C)
  OBVIOUS
<1>2. Len(<<a, b>>) = 2 /\ Len(<<a, b, c>>) = 2 + 1
  OBVIOUS
<1>3. \A i \in 1..2 : <<a, b, c>>[i] = <<a, b>>[i]
  OBVIOUS
<1>4. c = <<a, b, c>>[2 + 1]
  OBVIOUS
<1>5. OneMore(C, <<a, b>>, 2, <<a, b, c>>)
  BY <1>1, <1>2, <1>3, Zenon DEF OneMore
<1>6. PICK s : s = <<a, b>>
  OBVIOUS
<1>7. PICK t : t = <<a, b, c>>
  OBVIOUS
<1>8. OneMore(C, s, 2, t) /\ c = t[2 + 1]
  BY <1>4, <1>5, <1>6, <1>7, Zenon
<1>9. Append(s, c) = t
  BY <1>8, AppendIs
<1> QED
  BY <1>6, <1>7, <1>9, Zenon

LEMMA OneAndTwo ==
  ASSUME NEW C, NEW a \in C, NEW b \in C, NEW c \in C
  PROVE  <<a>> \o <<b, c>> = <<a, b, c>>
<1>1. <<a>> \o Append(<<b>>, c) = Append(<<a>> \o <<b>>, c)
  OBVIOUS
<1>2. <<a>> \o <<b>> = Append(<<a>>, b)
  OBVIOUS
<1> QED
  BY <1>1, <1>2, AppendTwo, AppendThree, Zenon

LEMMA RunTwo ==
  ASSUME NEW M, NEW C, NEW Q, IsMachine(M, C, Q), NEW q \in Q, NEW a \in C, NEW b \in C
  PROVE  Run(M, q, <<a, b>>) = M[b][M[a][q]]
<1>1. PICK u \in Seq(C) : u = <<a>>
  <2>1. <<a>> \in Seq(C)
    OBVIOUS
  <2> QED
    BY <2>1
<1>2. Append(u, b) = <<a, b>>
  BY <1>1, AppendTwo, Zenon
<1>3. Run(M, q, Append(u, b)) = M[b][Run(M, q, u)]
  BY RunAppend
<1>4. Run(M, q, <<a>>) = M[a][q]
  BY RunOne
<1> QED
  BY <1>1, <1>2, <1>3, <1>4, Zenon

LEMMA RunThree ==
  ASSUME NEW M, NEW C, NEW Q, IsMachine(M, C, Q), NEW q \in Q,
         NEW a \in C, NEW b \in C, NEW c \in C
  PROVE  Run(M, q, <<a, b, c>>) = M[c][M[b][M[a][q]]]
<1>1. PICK u \in Seq(C) : u = <<a, b>>
  <2>1. <<a, b>> \in Seq(C)
    OBVIOUS
  <2> QED
    BY <2>1
<1>2. Append(u, c) = <<a, b, c>>
  BY <1>1, AppendThree, Zenon
<1>3. Run(M, q, Append(u, c)) = M[c][Run(M, q, u)]
  BY RunAppend
<1>4. Run(M, q, <<a, b>>) = M[b][M[a][q]]
  BY RunTwo
<1> QED
  BY <1>1, <1>2, <1>3, <1>4, Zenon

-----------------------------------------------------------------------------
(* FoldLeft, which goes by the subsets of the domain of a sequence         *)

LEMMA MaxIsIn ==
  ASSUME NEW k \in Nat, NEW s \in SUBSET (1..k), s # {}
  PROVE  Max(s) \in s /\ \A y \in s : Max(s) >= y
<1> DEFINE T == {x \in 1..k : \A y \in s : x >= y}
<1>a. PICK y0 \in 1..k : y0 \in s
  OBVIOUS
<1>1. PICK x \in T : \A y \in T : x <= y
  <2>1. k \in T
    BY <1>a
  <2>2. T \in SUBSET Nat
    OBVIOUS
  <2> QED
    BY <2>1, <2>2, LeastElement
<1>2. x \in s
  <2> SUFFICES ASSUME x \notin s
               PROVE  FALSE
    OBVIOUS
  <2>a. \A y \in s : y \in 1..k /\ x >= y /\ x # y
    BY <1>1
  <2>b. x - 1 \in 1..k
    BY <1>a, <2>a
  <2>1. x - 1 \in T
    BY <2>a, <2>b
  <2> QED
    BY <1>1, <2>1
<1> QED
  BY <1>1, <1>2 DEF Max

LEMMA MaxOfStart ==
  ASSUME NEW k \in Nat, k > 0
  PROVE  /\ 1..k # {} /\ Max(1..k) = k /\ (1..k) \ {k} = 1..(k - 1)
         /\ \A n \in Nat : k <= n => 1..k \in SUBSET (1..n)
<1>1. 1..k # {} /\ k \in 1..k
  OBVIOUS
<1>2. Max(1..k) \in 1..k /\ \A y \in 1..k : Max(1..k) >= y
  BY <1>1, MaxIsIn
<1>3. Max(1..k) = k
  BY <1>1, <1>2
<1> QED
  BY <1>1, <1>3

IsFold(M, q, u, n, c) ==
  c = [s \in SUBSET (1..n) |-> IF s = {} THEN q ELSE M[u[Max(s)]][c[s \ {Max(s)}]]]

LEMMA LongerFold ==
  ASSUME NEW M, NEW C, NEW Q, IsMachine(M, C, Q), NEW q \in Q, NEW u \in Seq(C),
         NEW k \in 0..(Len(u) - 1), NEW c \in [SUBSET (1..k) -> Q], IsFold(M, q, u, k, c)
  PROVE  \E d \in [SUBSET (1..(k + 1)) -> Q] : IsFold(M, q, u, k + 1, d)
<1> DEFINE d == [s \in SUBSET (1..(k + 1)) |->
                   IF k + 1 \in s THEN M[u[k + 1]][c[s \ {k + 1}]] ELSE c[s]]
<1>1. k \in Nat /\ k + 1 \in Nat /\ u[k + 1] \in C
  OBVIOUS
<1>2. ASSUME NEW s \in SUBSET (1..(k + 1)), k + 1 \in s
      PROVE  /\ s # {} /\ Max(s) = k + 1 /\ s \ {k + 1} \in SUBSET (1..k)
             /\ d[s] = M[u[k + 1]][c[s \ {k + 1}]] /\ d[s] \in Q
             /\ d[s \ {k + 1}] = c[s \ {k + 1}]
  <2>1. s \ {k + 1} \in SUBSET (1..k) /\ s \ {k + 1} \in SUBSET (1..(k + 1))
    OBVIOUS
  <2>2. Max(s) \in s /\ \A y \in s : Max(s) >= y
    BY <1>1, <1>2, MaxIsIn
  <2>3. Max(s) = k + 1
    <3>1. Max(s) \in 1..(k + 1) /\ Max(s) >= k + 1
      BY <1>2, <2>2
    <3> QED
      BY <3>1
  <2>4. c[s \ {k + 1}] \in Q
    BY <2>1
  <2>5. M[u[k + 1]][c[s \ {k + 1}]] \in Q
    BY <1>1, <2>4 DEF IsMachine
  <2>6. d[s] = M[u[k + 1]][c[s \ {k + 1}]]
    BY <1>2
  <2>7. d[s \ {k + 1}] = c[s \ {k + 1}]
    BY <2>1
  <2> QED
    BY <1>2, <2>1, <2>3, <2>5, <2>6, <2>7
<1>3. ASSUME NEW s \in SUBSET (1..(k + 1)), k + 1 \notin s
      PROVE  /\ s \in SUBSET (1..k) /\ d[s] = c[s] /\ d[s] \in Q
             /\ c[s] = IF s = {} THEN q ELSE M[u[Max(s)]][c[s \ {Max(s)}]]
             /\ d[s \ {Max(s)}] = c[s \ {Max(s)}]
  <2>a. s \in SUBSET (1..k)
    BY <1>3
  <2>1. s \in SUBSET (1..k) /\ s \ {Max(s)} \in SUBSET (1..(k + 1))
    BY <2>a
  <2>2. d[s] = c[s] /\ d[s \ {Max(s)}] = c[s \ {Max(s)}]
    BY <1>3, <2>1
  <2>3. c[s] = IF s = {} THEN q ELSE M[u[Max(s)]][c[s \ {Max(s)}]]
    BY <2>1, Zenon DEF IsFold
  <2> QED
    BY <2>1, <2>2, <2>3
<1>4. d = [s \in SUBSET (1..(k + 1)) |-> d[s]]
  OBVIOUS
<1> HIDE DEF d
<1>5. ASSUME NEW s \in SUBSET (1..(k + 1))
      PROVE  /\ d[s] = IF s = {} THEN q ELSE M[u[Max(s)]][d[s \ {Max(s)}]]
             /\ d[s] \in Q
  <2>1. CASE k + 1 \in s
    <3>1. /\ s # {} /\ Max(s) = k + 1 /\ d[s] \in Q
          /\ d[s] = M[u[k + 1]][c[s \ {k + 1}]] /\ d[s \ {k + 1}] = c[s \ {k + 1}]
      BY <1>2, <2>1
    <3> QED
      BY <3>1
  <2>2. CASE k + 1 \notin s
    <3>1. /\ d[s] = c[s] /\ d[s] \in Q /\ d[s \ {Max(s)}] = c[s \ {Max(s)}]
          /\ c[s] = IF s = {} THEN q ELSE M[u[Max(s)]][c[s \ {Max(s)}]]
      BY <1>3, <2>2
    <3> QED
      BY <3>1, Zenon
  <2> QED
    BY <2>1, <2>2
<1>6. IsFold(M, q, u, k + 1, d)
  BY <1>4, <1>5 DEF IsFold
<1>7. d \in [SUBSET (1..(k + 1)) -> Q]
  BY <1>4, <1>5
<1> QED
  BY <1>6, <1>7

LEMMA FoldExists ==
  ASSUME NEW M, NEW C, NEW Q, IsMachine(M, C, Q), NEW q \in Q, NEW u \in Seq(C)
  PROVE  \E c \in [SUBSET (1..Len(u)) -> Q] : IsFold(M, q, u, Len(u), c)
<1> DEFINE n == Len(u)
           T == {k \in 0..n : \E c \in [SUBSET (1..k) -> Q] : IsFold(M, q, u, k, c)}
<1>1. n \in Nat
  OBVIOUS
<1>2. 0 \in T
  <2> DEFINE c == [s \in SUBSET (1..0) |-> q]
  <2>1. 1..0 = {} /\ 0 \in 0..n
    OBVIOUS
  <2>2. c \in [SUBSET (1..0) -> Q]
    OBVIOUS
  <2>3. \A s \in SUBSET (1..0) : s = {}
    BY <2>1
  <2>4. IsFold(M, q, u, 0, c)
    BY <2>3 DEF IsFold
  <2> QED
    BY <2>1, <2>2, <2>4
<1>3. ASSUME NEW k \in 0..(n - 1), k \in T
      PROVE  k + 1 \in T
  <2>1. PICK c \in [SUBSET (1..k) -> Q] : IsFold(M, q, u, k, c)
    BY <1>3
  <2>2. \E d \in [SUBSET (1..(k + 1)) -> Q] : IsFold(M, q, u, k + 1, d)
    BY <2>1, LongerFold
  <2>3. k + 1 \in 0..n
    OBVIOUS
  <2> QED
    BY <2>2, <2>3
<1>4. 0..n \subseteq T
  <2> HIDE DEF T, n
  <2> QED
    BY <1>1, <1>2, <1>3, UpTo
<1>5. n \in 0..n
  BY <1>1
<1> QED
  BY <1>4, <1>5

\* What a fold is at the starts of the domain; c is it as FoldLeft defines it.
FoldsStarts(M, q, u, Q, c) ==
  /\ c[{}] = q
  /\ \A k \in 1..Len(u) : c[1..(k - 1)] \in Q => c[1..k] = M[u[k]][c[1..(k - 1)]]

LEMMA FoldIsRun ==
  ASSUME NEW M, NEW C, NEW Q, IsMachine(M, C, Q), NEW q \in Q, NEW u \in Seq(C), NEW c,
         FoldsStarts(M, q, u, Q, c)
  PROVE  c[1..Len(u)] = Run(M, q, u)
<1> DEFINE n == Len(u)
           f == Trace(M, q, u)
           g == [k \in 0..n |-> c[1..k]]
<1>1. n \in Nat
  OBVIOUS
<1>2. IsTrace(M, q, u, f) /\ \A k \in 0..n : f[k] \in Q
  BY TraceIs
<1>3. \A k \in 0..n : g[k] = c[1..k]
  OBVIOUS
<1>4. f[0] = g[0]
  <2>1. 1..0 = {} /\ 0 \in 0..n
    OBVIOUS
  <2> QED
    BY <1>2, <1>3, <2>1 DEF IsTrace, FoldsStarts
<1> HIDE DEF f, g
<1>5. ASSUME NEW k \in (0 + 1)..n, f[k - 1] = g[k - 1]
      PROVE  f[k] = g[k]
  <2>1. k \in 1..n /\ k \in 0..n /\ k - 1 \in 0..n
    BY <1>1
  <2>2. f[k] = M[u[k]][f[k - 1]]
    BY <1>2, <2>1 DEF IsTrace
  <2>3. c[1..(k - 1)] = f[k - 1] /\ f[k - 1] \in Q
    BY <1>2, <1>3, <1>5, <2>1
  <2>4. c[1..k] = M[u[k]][c[1..(k - 1)]]
    BY <2>1, <2>3 DEF FoldsStarts
  <2> QED
    BY <1>3, <2>1, <2>2, <2>3, <2>4
<1>6. GoTogether(f, g, 0, n)
  BY <1>4, <1>5 DEF GoTogether
<1>7. f[n] = g[n]
  <2> HIDE DEF n
  <2> QED
    BY <1>1, <1>6, SameRun
<1> QED
  BY <1>1, <1>3, <1>7 DEF Run, f

-----------------------------------------------------------------------------
(* The ends of sequences, and short ones                                   *)

LEMMA FrontAndLast ==
  ASSUME NEW A, NEW s \in Seq(A), s # <<>>
  PROVE  Front(s) \in Seq(A) /\ Last(s) \in A
BY DEF Front, Last

LEMMA OfAppend ==
  ASSUME NEW A, NEW s \in Seq(A), NEW a \in A
  PROVE  Front(Append(s, a)) = s /\ Last(Append(s, a)) = a
<1>1. PICK t \in Seq(A) : /\ t = Append(s, a) /\ Len(t) = Len(s) + 1 /\ t[Len(s) + 1] = a
                          /\ \A i \in 1..Len(s) : t[i] = s[i]
  <2>1. /\ Append(s, a) \in Seq(A) /\ Len(Append(s, a)) = Len(s) + 1
        /\ Append(s, a)[Len(s) + 1] = a /\ \A i \in 1..Len(s) : Append(s, a)[i] = s[i]
    BY AppendProperties
  <2> QED
    BY <2>1
<1>2. Last(t) = a
  BY <1>1 DEF Last
<1>3. Len(t) - 1 = Len(s) /\ Len(s) \in Nat
  BY <1>1
<1>4. SubSeq(t, 1, Len(s)) = s
  BY <1>1
<1>5. Front(t) = s
  BY <1>3, <1>4 DEF Front
<1> QED
  BY <1>1, <1>2, <1>5

LEMMA EndOfConcat ==
  ASSUME NEW A, NEW s \in Seq(A), NEW t \in Seq(A)
  PROVE  SubSeq(s \o t, Len(s) + 1, Len(s \o t)) = t
OBVIOUS

LEMMA OneAndOne ==
  ASSUME NEW A, NEW a \in A, NEW b \in A
  PROVE  <<a>> \o <<b>> = <<a, b>>
<1>1. <<a>> \o <<b>> = Append(<<a>>, b)
  OBVIOUS
<1> QED
  BY <1>1, AppendTwo, Zenon

LEMMA AppendFour ==
  ASSUME NEW C, NEW a \in C, NEW b \in C, NEW c \in C, NEW d \in C
  PROVE  Append(<<a, b, c>>, d) = <<a, b, c, d>>
<1>1. <<a, b, c>> \in Seq(C) /\ <<a, b, c, d>> \in Seq(C)
  OBVIOUS
<1>2. Len(<<a, b, c>>) = 3 /\ Len(<<a, b, c, d>>) = 3 + 1
  OBVIOUS
<1>3. \A i \in 1..3 : <<a, b, c, d>>[i] = <<a, b, c>>[i]
  OBVIOUS
<1>4. d = <<a, b, c, d>>[3 + 1]
  OBVIOUS
<1>5. OneMore(C, <<a, b, c>>, 3, <<a, b, c, d>>)
  BY <1>1, <1>2, <1>3, Zenon DEF OneMore
<1>6. PICK s : s = <<a, b, c>>
  OBVIOUS
<1>7. PICK t : t = <<a, b, c, d>>
  OBVIOUS
<1>8. OneMore(C, s, 3, t) /\ d = t[3 + 1]
  BY <1>4, <1>5, <1>6, <1>7, Zenon
<1>9. Append(s, d) = t
  BY <1>8, AppendIs
<1> QED
  BY <1>6, <1>7, <1>9, Zenon

LEMMA OneAndThree ==
  ASSUME NEW C, NEW a \in C, NEW b \in C, NEW c \in C, NEW d \in C
  PROVE  <<a>> \o <<b, c, d>> = <<a, b, c, d>>
<1>1. PICK s \in Seq(C) : s = <<a>>
  <2>1. <<a>> \in Seq(C)
    OBVIOUS
  <2> QED
    BY <2>1
<1>2. PICK t \in Seq(C) : t = <<b, c>>
  <2>1. <<b, c>> \in Seq(C)
    OBVIOUS
  <2> QED
    BY <2>1
<1>3. s \o Append(t, d) = Append(s \o t, d)
  BY ConcatThenAppend
<1>4. Append(t, d) = <<b, c, d>>
  BY <1>2, AppendThree
<1>5. s \o t = <<a, b, c>>
  BY <1>1, <1>2, OneAndTwo
<1>6. Append(s \o t, d) = <<a, b, c, d>>
  BY <1>5, AppendFour
<1> QED
  BY <1>1, <1>3, <1>4, <1>6, Zenon

LEMMA LeastOfOne ==
  ASSUME NEW k \in Nat
  PROVE  (CHOOSE i \in {k + 1} : \A j \in {k + 1} : i <= j) = k + 1
<1>1. \E i \in {k + 1} : \A j \in {k + 1} : i <= j
  OBVIOUS
<1> QED
  BY <1>1

AreSix(A, a, b, c, d, e, f) == AreSeqs(A, a, b, c) /\ AreSeqs(A, d, e, f)

SixRegrouped(a, b, c, d, e, f) ==
  (((a \o (b \o c)) \o d) \o e) \o f = (a \o b) \o (c \o ((d \o e) \o f))

LEMMA RegroupSix ==
  ASSUME NEW A, NEW a, NEW b, NEW c, NEW d, NEW e, NEW f, AreSix(A, a, b, c, d, e, f)
  PROVE  SixRegrouped(a, b, c, d, e, f)
<1> USE DEF AreSix
<1>1. PICK ab \in Seq(A) : ab = a \o b
  BY ConcatProperties DEF AreSeqs
<1>2. PICK de \in Seq(A) : de = d \o e
  BY ConcatProperties DEF AreSeqs
<1>3. PICK cd \in Seq(A) : cd = c \o d
  BY ConcatProperties DEF AreSeqs
<1>4. PICK cde \in Seq(A) : cde = c \o de
  BY ConcatProperties DEF AreSeqs
<1>5. /\ AreSeqs(A, ab, c, d) /\ AreSeqs(A, ab, cd, e) /\ AreSeqs(A, c, d, e)
      /\ AreSeqs(A, ab, cde, f) /\ AreSeqs(A, c, de, f)
  BY DEF AreSeqs
<1>6. ab \o c = a \o (b \o c)
  BY SMTT(30), <1>1, Regroup3
<1>7. (ab \o c) \o d = ab \o cd
  BY SMTT(30), <1>3, <1>5, Regroup3
<1>8. (ab \o cd) \o e = ab \o (cd \o e)
  BY SMTT(30), <1>5, Regroup3
<1>9. cd \o e = cde
  BY SMTT(30), <1>2, <1>3, <1>4, <1>5, Regroup3
<1>10. (ab \o cde) \o f = ab \o (cde \o f)
  BY SMTT(30), <1>5, Regroup3
<1>11. cde \o f = c \o (de \o f)
  BY SMTT(30), <1>4, <1>5, Regroup3
<1> QED
  BY <1>1, <1>2, <1>6, <1>7, <1>8, <1>9, <1>10, <1>11, Zenon DEF SixRegrouped

-----------------------------------------------------------------------------
(* Increasing sequences                                                    *)

Increasing(v) == \A k, l \in DOMAIN v : k < l => v[k] < v[l]
ValuesOf(v, from) == {v[l] : l \in from..Len(v)}

LEMMA CountValues ==
  ASSUME NEW v \in Seq(Nat), Increasing(v), NEW k \in 1..Len(v)
  PROVE  Cardinality(ValuesOf(v, k + 1)) = Len(v) - k
<1> DEFINE n == Len(v)
           Last1(d) == ValuesOf(v, n - d + 1)
           T == {d \in 0..n : IsFiniteSet(Last1(d)) /\ Cardinality(Last1(d)) = d}
<1>1. n \in Nat /\ DOMAIN v = 1..n
  OBVIOUS
<1>2. 0 \in T
  <2>1. (n - 0 + 1)..n = {}
    BY <1>1
  <2>2. Last1(0) = {}
    BY <2>1 DEF ValuesOf
  <2>3. 0 \in 0..n
    BY <1>1
  <2> QED
    BY <2>2, <2>3, FS_EmptySet
<1>3. ASSUME NEW d \in 0..(n - 1), d \in T
      PROVE  d + 1 \in T
  <2>1. PICK m \in 1..n : m = n - d
    <3>1. n - d \in 1..n
      BY <1>1
    <3> HIDE DEF T, n
    <3> QED
      BY <3>1
  <2>2. n - (d + 1) + 1 = m /\ n - d + 1 = m + 1
    BY <1>1, <2>1
  <2>3. m..n = {m} \cup ((m + 1)..n)
    BY <1>1
  <2>4. Last1(d + 1) = Last1(d) \cup {v[m]}
    BY <2>2, <2>3 DEF ValuesOf
  <2>5. v[m] \notin Last1(d)
    <3>1. ASSUME NEW l \in (m + 1)..n
          PROVE  v[l] # v[m]
      <4>1. l \in DOMAIN v /\ m \in DOMAIN v /\ m < l
        BY <1>1
      <4>2. v[m] < v[l] /\ v[m] \in Nat /\ v[l] \in Nat
        BY <4>1 DEF Increasing
      <4> QED
        BY <4>2
    <3> QED
      BY <2>2, <3>1 DEF ValuesOf
  <2>6. IsFiniteSet(Last1(d)) /\ Cardinality(Last1(d)) = d
    BY <1>3
  <2> HIDE DEF Last1
  <2>7. IsFiniteSet(Last1(d + 1)) /\ Cardinality(Last1(d + 1)) = d + 1
    <3>1. PICK S, x : S = Last1(d) /\ x = v[m]
      OBVIOUS
    <3>2. /\ IsFiniteSet(S \cup {x})
          /\ Cardinality(S \cup {x}) = IF x \in S THEN Cardinality(S) ELSE Cardinality(S) + 1
      BY <2>6, <3>1, FS_AddElement
    <3> QED
      BY <2>4, <2>5, <2>6, <3>1, <3>2
  <2>8. d + 1 \in 0..n
    BY <1>1
  <2> QED
    BY <2>7, <2>8
<1>4. 0..n \subseteq T
  <2> HIDE DEF T, n
  <2> QED
    BY <1>1, <1>2, <1>3, UpTo
<1>5. n - k \in 0..n /\ n - (n - k) + 1 = k + 1
  BY <1>1
<1>6. Cardinality(Last1(n - k)) = n - k
  <2> HIDE DEF Last1
  <2> QED
    BY <1>4, <1>5
<1> QED
  BY <1>5, <1>6

\* Those with fewer than limit greater ones are the last limit of them.
LEMMA GreatestAreLast ==
  ASSUME NEW v \in Seq(Nat), Increasing(v), NEW limit \in Nat
  PROVE  LET all == ValuesOf(v, 1)
         IN  {i \in all : Cardinality({j \in all : j > i}) < limit}
               = ValuesOf(v, IF Len(v) > limit THEN Len(v) - limit + 1 ELSE 1)
<1> DEFINE n == Len(v)
           all == ValuesOf(v, 1)
           from == IF n > limit THEN n - limit + 1 ELSE 1
<1>1. n \in Nat /\ DOMAIN v = 1..n
  OBVIOUS
<1>2. ASSUME NEW k \in 1..n
      PROVE  Cardinality({j \in all : j > v[k]}) < limit <=> k \in from..n
  <2>1. \A l \in 1..n : v[l] > v[k] <=> l \in (k + 1)..n
    <3>1. ASSUME NEW l \in 1..n
          PROVE  v[l] > v[k] <=> l \in (k + 1)..n
      <4>1. v[l] \in Nat /\ v[k] \in Nat /\ (k < l => v[k] < v[l]) /\ (l < k => v[l] < v[k])
        BY <1>1 DEF Increasing
      <4>2. k < l \/ k = l \/ l < k
        OBVIOUS
      <4> QED
        BY <1>1, <4>1, <4>2
    <3> QED
      BY <3>1
  <2>2. {j \in all : j > v[k]} = ValuesOf(v, k + 1)
    <3>1. \A l \in (k + 1)..n : l \in 1..n
      BY <1>1
    <3>2. \A j \in all : \E l \in 1..n : j = v[l]
      BY DEF ValuesOf
    <3>3. \A j \in ValuesOf(v, k + 1) : \E l \in (k + 1)..n : j = v[l]
      BY DEF ValuesOf
    <3>4. \A l \in 1..n : v[l] \in all
      BY DEF ValuesOf
    <3>5. \A l \in (k + 1)..n : v[l] \in ValuesOf(v, k + 1)
      BY DEF ValuesOf
    <3> HIDE DEF all, n
    <3> QED
      BY <2>1, <3>1, <3>2, <3>3, <3>4, <3>5
  <2>3. Cardinality({j \in all : j > v[k]}) = n - k
    BY <2>2, CountValues
  <2>4. n - k < limit <=> k \in from..n
    BY <1>1
  <2> HIDE DEF all, from, n
  <2> QED
    BY <2>3, <2>4
<1>3. \A k \in from..n : k \in 1..n
  BY <1>1
<1>4. \A i \in all : \E k \in 1..n : i = v[k]
  BY DEF ValuesOf
<1>5. \A k \in 1..n : v[k] \in all
  BY DEF ValuesOf
<1>6. \A i : i \in ValuesOf(v, from) <=> \E k \in from..n : i = v[k]
  BY DEF ValuesOf
<1> HIDE DEF all, from
<1>7. \A i : i \in {x \in all : Cardinality({j \in all : j > x}) < limit}
                <=> i \in ValuesOf(v, from)
  <2> HIDE DEF n
  <2> QED
    BY <1>2, <1>3, <1>4, <1>5, <1>6
<1>8. {x \in all : Cardinality({j \in all : j > x}) < limit} = ValuesOf(v, from)
  BY <1>7
<1> QED
  BY <1>8 DEF all, from
=============================================================================
