------------------------- MODULE SequenceInduction -------------------------
(***************************************************************************)
(* Induction over the natural numbers, and what FlattenSeq makes of        *)
(* sequences of any length.                                                *)
(***************************************************************************)
EXTENDS Integers, SequencesExt, SequenceTheorems, WellFoundedInduction, TLAPS

-----------------------------------------------------------------------------
(* Induction over the natural numbers.  The theorems of the library take a *)
(* predicate as a parameter; a set does as well.                           *)

(* Every set of natural numbers has a smallest one.                        *)
LEMMA Smallest ==
  ASSUME NEW T, T \subseteq Nat, T # {}
  PROVE  \E n \in T : \A m \in T : n <= m
<1> DEFINE R == OpToRel(<, Nat)
<1>1. IsWellFoundedOn(R, Nat)
  BY NatLessThanWellFounded
<1>2. \A x, y \in Nat : <<x, y>> \in R <=> x < y
  BY DEF OpToRel
<1> HIDE DEF R
<1>3. \E n \in T : \A m \in T : ~(<<m, n>> \in R)
  BY <1>1, WFMin
<1>4. PICK n \in T : \A m \in T : ~(<<m, n>> \in R)
  BY <1>3
<1>5. n \in Nat
  OBVIOUS
<1>6. \A m \in T : ~(m < n)
  BY <1>2, <1>4, <1>5
<1>7. \A m \in T : n <= m
  BY <1>5, <1>6
<1> QED
  BY <1>7

LEMMA Induction ==
  ASSUME NEW T, 0 \in T, \A n \in Nat : n \in T => n + 1 \in T
  PROVE  \A n \in Nat : n \in T
<1> SUFFICES ASSUME Nat \ T # {} PROVE FALSE
  OBVIOUS
<1>1. PICK n \in Nat \ T : \A m \in Nat \ T : n <= m
  BY Smallest
<1>2. n # 0 /\ n - 1 \in Nat /\ (n - 1) + 1 = n
  BY <1>1
<1>3. n - 1 \in T
  BY <1>1, <1>2
<1> QED
  BY <1>1, <1>2, <1>3

-----------------------------------------------------------------------------
(* FlattenSeq.  p[i] is what the first i parts make together.              *)
Joins(p, parts, n) ==
  /\ p[0] = <<>>
  /\ \A i \in 1..n : p[i] = p[i - 1] \o parts[i]

LEMMA JoinsExist ==
  ASSUME NEW A, <<>> \in A, \A x, y \in A : x \o y \in A,
         NEW n \in Nat, NEW parts \in [1..n -> A]
  PROVE  \E p \in [Nat -> A] : Joins(p, parts, n)
<1> DEFINE T == { m \in Nat : m <= n => \E p \in [Nat -> A] : Joins(p, parts, m) }
<1>1. 0 \in T
  <2> DEFINE q == [i \in Nat |-> <<>>]
  <2>1. q \in [Nat -> A] /\ Joins(q, parts, 0)
    BY DEF Joins
  <2> QED
    BY <2>1
<1>2. ASSUME NEW m \in Nat, m \in T PROVE m + 1 \in T
  <2> SUFFICES ASSUME m + 1 <= n PROVE \E p \in [Nat -> A] : Joins(p, parts, m + 1)
    OBVIOUS
  <2>1. PICK p \in [Nat -> A] : Joins(p, parts, m)
    BY <1>2
  <2> DEFINE a == p[m] \o parts[m + 1]
             q == [p EXCEPT ![m + 1] = a]
  <2>2. a \in A
    OBVIOUS
  <2> HIDE DEF a
  <2>3. q \in [Nat -> A]
    BY <2>2
  <2>4. q[0] = <<>>
    BY <2>1 DEF Joins
  <2>5. ASSUME NEW i \in 1..m PROVE q[i] = q[i - 1] \o parts[i]
    <3>1. q[i] = p[i] /\ q[i - 1] = p[i - 1]
      OBVIOUS
    <3> QED
      BY <2>1, <3>1 DEF Joins
  <2>6. q[m + 1] = q[m] \o parts[m + 1]
    <3>1. q[m + 1] = a /\ q[m] = p[m]
      OBVIOUS
    <3> QED
      BY <3>1 DEF a
  <2>7. Joins(q, parts, m + 1)
    <3> HIDE DEF q
    <3>3. ASSUME NEW i \in 1..(m + 1) PROVE q[i] = q[i - 1] \o parts[i]
      <4>1. CASE i \in 1..m
        BY <4>1, <2>5
      <4>2. CASE i = m + 1
        <5>1. i - 1 = m
          BY <4>2
        <5> QED
          BY <4>2, <5>1, <2>6
      <4>3. i \in 1..m \/ i = m + 1
        OBVIOUS
      <4> QED
        BY <4>1, <4>2, <4>3
    <3> QED
      BY <3>3, <2>4 DEF Joins
  <2> QED
    BY <2>3, <2>7
<1>3. \A m \in Nat : m \in T
  <2> HIDE DEF T
  <2> QED
    BY <1>1, <1>2, Induction
<1> QED
  BY <1>3

(* The parts can be joined in one way only. *)
Continues(p, parts, n) == \A i \in 1..n : i # 1 => p[i] = p[i - 1] \o parts[i]

LEMMA JoinsUnique ==
  ASSUME NEW n \in Nat, NEW parts, NEW p, NEW q,
         p[1] = q[1],
         Continues(p, parts, n), Continues(q, parts, n)
  PROVE  \A i \in 1..n : p[i] = q[i]
<1> DEFINE T == { m \in Nat : m + 1 <= n => p[m + 1] = q[m + 1] }
<1>1. 0 \in T
  OBVIOUS
<1>2. ASSUME NEW m \in Nat, m \in T PROVE m + 1 \in T
  <2> SUFFICES ASSUME (m + 1) + 1 <= n PROVE p[(m + 1) + 1] = q[(m + 1) + 1]
    OBVIOUS
  <2> DEFINE i == (m + 1) + 1
  <2>1. i \in 1..n /\ i # 1 /\ i - 1 = m + 1 /\ m + 1 <= n
    OBVIOUS
  <2>2. p[m + 1] = q[m + 1]
    BY <1>2, <2>1
  <2> HIDE DEF i
  <2>3. p[i] = q[i]
    BY <2>1, <2>2 DEF Continues
  <2> QED
    BY <2>3 DEF i
<1>3. \A m \in Nat : m \in T
  <2> HIDE DEF T
  <2> QED
    BY <1>1, <1>2, Induction
<1>4. ASSUME NEW i \in 1..n PROVE p[i] = q[i]
  <2>1. i - 1 \in T /\ (i - 1) + 1 = i
    BY <1>3
  <2> QED
    BY <2>1
<1> QED
  BY <1>4

LEMMA FlattenIs ==
  ASSUME NEW n \in Nat, n # 0, NEW ss, Len(ss) = n,
         NEW p, p[1] = ss[1], Continues(p, ss, n)
  PROVE  FlattenSeq(ss) = p[n]
<1> DEFINE E(f) == f = [i \in 1..n |-> IF i = 1 THEN ss[i] ELSE f[i - 1] \o ss[i]]
           g == [i \in 1..n |-> p[i]]
           c == CHOOSE h : E(h)
<1>1. E(g)
  <2>1. ASSUME NEW i \in 1..n PROVE p[i] = IF i = 1 THEN ss[i] ELSE g[i - 1] \o ss[i]
    <3>1. CASE i = 1
      BY <3>1
    <3>2. CASE i # 1
      <4>1. g[i - 1] = p[i - 1]
        BY <3>2
      <4> QED
        BY <3>2, <4>1 DEF Continues
    <3> QED
      BY <3>1, <3>2
  <2> QED
    BY <2>1
<1>2. E(c)
  BY <1>1, Zenon
<1>3. FlattenSeq(ss) = c[n]
  BY Zenon DEF FlattenSeq
<1> HIDE DEF c, g
<1>4. PICK f : E(f) /\ FlattenSeq(ss) = f[n]
  BY <1>2, <1>3
<1>5. \A i \in 1..n : f[i] = IF i = 1 THEN ss[i] ELSE f[i - 1] \o ss[i]
  BY <1>4
<1>6. f[1] = p[1]
  <2>1. 1 \in 1..n
    OBVIOUS
  <2> QED
    BY <1>5, <2>1
<1>7. Continues(f, ss, n)
  BY <1>5, Zenon DEF Continues
<1>8. \A i \in 1..n : f[i] = p[i]
  BY <1>6, <1>7, JoinsUnique
<1> QED
  BY <1>4, <1>8

LEMMA FlattenJoins ==
  ASSUME NEW S, NEW ss \in Seq(Seq(S)), NEW p \in [Nat -> Seq(S)], Joins(p, ss, Len(ss))
  PROVE  FlattenSeq(ss) = p[Len(ss)]
<1>1. CASE Len(ss) = 0
  BY <1>1 DEF FlattenSeq, Joins
<1>2. ASSUME NEW n \in Nat \ {0}, Len(ss) = n PROVE FlattenSeq(ss) = p[n]
  <2>0. /\ ss \in [1..n -> Seq(S)] /\ p[0] = <<>> /\ \A i \in 1..n : p[i] = p[i - 1] \o ss[i]
    BY <1>2, LenProperties DEF Joins
  <2>1. p[1] = ss[1]
    <3>1. 1 \in 1..n /\ 1 - 1 = 0
      OBVIOUS
    <3>2. p[1] = <<>> \o ss[1] /\ ss[1] \in Seq(S)
      BY <2>0, <3>1
    <3> QED
      BY <3>2, ConcatEmptySeq
  <2>2. Continues(p, ss, n)
    BY <2>0, Zenon DEF Continues
  <2>3. n \in Nat /\ n # 0
    OBVIOUS
  <2> QED
    BY <1>2, <2>1, <2>2, <2>3, FlattenIs, Zenon
<1> QED
  BY <1>1, <1>2, LenProperties

Begins(s, t) == Len(s) <= Len(t) /\ \A x \in 1..Len(s) : t[x] = s[x]

LEMMA ConcatPlaces ==
  ASSUME NEW S, NEW s \in Seq(S), NEW t \in Seq(S), NEW u, u = s \o t
  PROVE  /\ Begins(s, u) /\ u \in Seq(S) /\ Len(u) = Len(s) + Len(t)
         /\ \A x \in 1..Len(t) : u[Len(s) + x] = t[x]
<1>1. /\ Len(u) = Len(s) + Len(t) /\ Len(s) \in Nat /\ Len(t) \in Nat /\ u \in Seq(S)
      /\ \A i \in 1..(Len(s) + Len(t)) : u[i] = IF i <= Len(s) THEN s[i] ELSE t[i - Len(s)]
  BY ConcatProperties, LenProperties
<1>2. Begins(s, u)
  BY <1>1 DEF Begins
<1>3. ASSUME NEW x \in 1..Len(t) PROVE u[Len(s) + x] = t[x]
  <2>1. Len(s) + x \in 1..(Len(s) + Len(t)) /\ ~(Len(s) + x <= Len(s)) /\ Len(s) + x - Len(s) = x
    BY <1>1
  <2> QED
    BY <1>1, <2>1
<1> QED
  BY <1>1, <1>2, <1>3

LEMMA BeginsTransitive ==
  ASSUME NEW S, NEW s \in Seq(S), NEW t \in Seq(S), NEW u \in Seq(S), Begins(s, t), Begins(t, u)
  PROVE  Begins(s, u)
  BY LenProperties DEF Begins

PartAt(a, b, c, w) ==
  /\ Len(c) = Len(a) + Len(b) /\ Len(c) <= Len(w)
  /\ \A x \in 1..Len(b) : w[Len(a) + x] = b[x]

LEMMA PartPlaces ==
  ASSUME NEW S, NEW a \in Seq(S), NEW b \in Seq(S), NEW c, c = a \o b, NEW w, Begins(c, w)
  PROVE  PartAt(a, b, c, w)
<1>1. /\ Len(c) = Len(a) + Len(b)
      /\ \A x \in 1..Len(b) : c[Len(a) + x] = b[x]
  BY ConcatPlaces
<1>2. Len(c) <= Len(w) /\ \A x \in 1..Len(c) : w[x] = c[x]
  BY DEF Begins
<1>3. ASSUME NEW x \in 1..Len(b) PROVE w[Len(a) + x] = b[x]
  <2>1. Len(a) + x \in 1..Len(c)
    BY <1>1, LenProperties
  <2> QED
    BY <1>1, <1>2, <2>1
<1> QED
  BY <1>1, <1>2, <1>3 DEF PartAt

(* What the first parts make together is where the whole begins. *)
LEMMA JoinsBegin ==
  ASSUME NEW S, NEW n \in Nat, NEW parts, NEW p, \A i \in Nat : p[i] \in Seq(S),
         \A i \in 1..n : parts[i] \in Seq(S), Joins(p, parts, n)
  PROVE  \A i \in 0..n : Begins(p[i], p[n])
<1> DEFINE T == { m \in Nat : m <= n => \A i \in 0..m : Begins(p[i], p[m]) }
<1>0. \A m \in Nat : Begins(p[m], p[m])
  BY LenProperties DEF Begins
<1>1. 0 \in T
  <2>1. \A i \in 0..0 : i = 0
    OBVIOUS
  <2> QED
    BY <1>0, <2>1
<1>2. ASSUME NEW m \in Nat, m \in T PROVE m + 1 \in T
  <2> SUFFICES ASSUME m + 1 <= n, NEW i \in 0..(m + 1) PROVE Begins(p[i], p[m + 1])
    OBVIOUS
  <2>1. CASE i = m + 1
    BY <1>0, <2>1
  <2>2. CASE i # m + 1
    <3>1. Begins(p[i], p[m])
      BY <1>2, <2>2
    <3>2. p[m + 1] = p[m] \o parts[m + 1] /\ parts[m + 1] \in Seq(S)
      <4>1. m + 1 \in 1..n /\ (m + 1) - 1 = m
        OBVIOUS
      <4> QED
        BY <4>1, Zenon DEF Joins
    <3>3. p[m] \in Seq(S) /\ p[i] \in Seq(S) /\ p[m + 1] \in Seq(S)
      OBVIOUS
    <3>4. Begins(p[m], p[m + 1])
      BY <3>2, <3>3, ConcatPlaces
    <3> QED
      BY <3>1, <3>3, <3>4, BeginsTransitive
  <2> QED
    BY <2>1, <2>2
<1>3. \A m \in Nat : m \in T
  <2> HIDE DEF T
  <2> QED
    BY <1>1, <1>2, Induction
<1>4. n \in T
  BY <1>3
<1> QED
  BY <1>4

(* The place of every element of every part in the whole. *)
Places(r, ss, flat) ==
  /\ r[0] = 0 /\ r[Len(ss)] = Len(flat)
  /\ \A i \in 1..Len(ss) :
       /\ r[i] = r[i - 1] + Len(ss[i]) /\ r[i] <= Len(flat)
       /\ \A x \in 1..Len(ss[i]) : flat[r[i - 1] + x] = ss[i][x]

LEMMA FlattenPlaces ==
  ASSUME NEW S, NEW ss \in Seq(Seq(S))
  PROVE  /\ FlattenSeq(ss) \in Seq(S)
         /\ \E r \in [Nat -> Nat] : Places(r, ss, FlattenSeq(ss))
<1> DEFINE n == Len(ss)
<1>1. n \in Nat /\ ss \in [1..n -> Seq(S)] /\ <<>> \in Seq(S) /\ \A x, y \in Seq(S) : x \o y \in Seq(S)
  BY LenProperties, ConcatProperties
<1> HIDE DEF n
<1>2. PICK p \in [Nat -> Seq(S)] : Joins(p, ss, n)
  <2> DEFINE A == Seq(S)
  <2>1. n \in Nat /\ ss \in [1..n -> A] /\ <<>> \in A /\ \A x, y \in A : x \o y \in A
    BY <1>1
  <2> HIDE DEF A
  <2>2. \E p \in [Nat -> A] : Joins(p, ss, n)
    BY <2>1, JoinsExist
  <2> QED
    BY <2>2 DEF A
<1>3. FlattenSeq(ss) = p[n]
  BY <1>2, FlattenJoins DEF n
<1>4. \A i \in 0..n : Begins(p[i], p[n])
  <2>1. (\A i \in Nat : p[i] \in Seq(S)) /\ \A i \in 1..n : ss[i] \in Seq(S)
    BY <1>1
  <2> QED
    BY <1>1, <1>2, <2>1, JoinsBegin
<1> DEFINE r == [i \in Nat |-> Len(p[i])]
<1>5. r \in [Nat -> Nat]
  BY LenProperties
<1>6. r[0] = 0 /\ r[n] = Len(p[n])
  BY <1>1, <1>2 DEF Joins
<1>7. ASSUME NEW i \in 1..n
      PROVE  /\ r[i] = r[i - 1] + Len(ss[i]) /\ r[i] <= Len(p[n])
             /\ \A x \in 1..Len(ss[i]) : p[n][r[i - 1] + x] = ss[i][x]
  <2>1. i \in Nat /\ i - 1 \in Nat /\ i \in 0..n
    BY <1>1
  <2>2. p[i] = p[i - 1] \o ss[i]
    BY <1>2 DEF Joins
  <2>3. p[i] \in Seq(S) /\ p[i - 1] \in Seq(S) /\ ss[i] \in Seq(S)
    BY <1>1, <2>1
  <2>4. PICK a \in Seq(S), b \in Seq(S), c \in Seq(S) : a = p[i - 1] /\ b = ss[i] /\ c = p[i]
    BY <2>3
  <2>5. c = a \o b
    BY <2>2, <2>4
  <2>6. Begins(c, p[n])
    BY <1>4, <2>1, <2>4
  <2>7. PartAt(a, b, c, p[n])
    BY <2>5, <2>6, PartPlaces
  <2>8. r[i] = Len(c) /\ r[i - 1] = Len(a)
    BY <2>1, <2>4
  <2> HIDE DEF r
  <2> QED
    BY <2>4, <2>7, <2>8 DEF PartAt
<1>8. Places(r, ss, p[n])
  <2> HIDE DEF r
  <2> QED
    BY <1>6, <1>7, Zenon DEF Places, n
<1> QED
  BY <1>1, <1>3, <1>5, <1>8

LEMMA FlattenAppend ==
  ASSUME NEW S, NEW ss \in Seq(Seq(S)), NEW t \in Seq(S)
  PROVE  FlattenSeq(Append(ss, t)) = FlattenSeq(ss) \o t
<1> DEFINE n == Len(ss)
           u == Append(ss, t)
<1>1. n \in Nat /\ <<>> \in Seq(S) /\ \A x, y \in Seq(S) : x \o y \in Seq(S)
  BY LenProperties, ConcatProperties
<1>2. u \in Seq(Seq(S)) /\ Len(u) = n + 1 /\ u[n + 1] = t /\ \A i \in 1..n : u[i] = ss[i]
  BY AppendProperties
<1>3. u \in [1..(n + 1) -> Seq(S)]
  BY <1>2, LenProperties
<1> HIDE DEF n, u
<1>4. PICK p \in [Nat -> Seq(S)] : Joins(p, u, n + 1)
  <2> DEFINE A == Seq(S)
  <2>1. n + 1 \in Nat /\ u \in [1..(n + 1) -> A] /\ <<>> \in A /\ \A x, y \in A : x \o y \in A
    BY <1>1, <1>3
  <2> HIDE DEF A
  <2>2. \E p \in [Nat -> A] : Joins(p, u, n + 1)
    BY <2>1, JoinsExist
  <2> QED
    BY <2>2 DEF A
<1>5. FlattenSeq(u) = p[n + 1]
  BY <1>2, <1>4, FlattenJoins
<1>6. Joins(p, ss, n)
  <2>1. ASSUME NEW i \in 1..n PROVE p[i] = p[i - 1] \o ss[i]
    <3>1. i \in 1..(n + 1)
      BY <1>1
    <3> QED
      BY <3>1, <1>2, <1>4 DEF Joins
  <2> QED
    BY <2>1, <1>4 DEF Joins
<1>7. FlattenSeq(ss) = p[n]
  BY <1>6, FlattenJoins DEF n
<1>8. p[n + 1] = p[n] \o t
  <2>1. n + 1 \in 1..(n + 1) /\ (n + 1) - 1 = n
    BY <1>1
  <2> QED
    BY <1>2, <1>4, <2>1 DEF Joins
<1> QED
  BY <1>5, <1>7, <1>8 DEF u


(* A set of sequences that is closed under concatenation.                  *)
LEMMA FlattenClosed ==
  ASSUME NEW S, NEW A, A \subseteq Seq(S), <<>> \in A, \A x, y \in A : x \o y \in A,
         NEW n \in Nat, NEW ss \in [1..n -> A]
  PROVE  FlattenSeq(ss) \in A
<1>1. PICK p \in [Nat -> A] : Joins(p, ss, n)
  BY JoinsExist
<1>2. p \in [Nat -> Seq(S)] /\ ss \in [1..n -> Seq(S)] /\ p[n] \in A
  OBVIOUS
<1>3. ss \in Seq(Seq(S)) /\ Len(ss) = n
  BY <1>2
<1>4. FlattenSeq(ss) = p[n]
  BY <1>1, <1>2, <1>3, FlattenJoins
<1> QED
  BY <1>2, <1>4

LEMMA Regrouped ==
  ASSUME NEW S, NEW a \in Seq(S), NEW b \in Seq(S), NEW c \in Seq(S), NEW d \in Seq(S)
  PROVE  ((a \o b) \o c) \o d = a \o ((b \o c) \o d)
<1>1. (a \o b) \o c = a \o (b \o c)
  BY ConcatAssociative
<1>2. b \o c \in Seq(S)
  BY ConcatProperties
<1>3. (a \o (b \o c)) \o d = a \o ((b \o c) \o d)
  BY <1>2, ConcatAssociative
<1> QED
  BY <1>1, <1>3

(* u is h, of length 2, and then t. *)
GoesOn(h, t, u) ==
  /\ Len(u) >= 2 /\ u[1] = h[1] /\ u[2] = h[2]
  /\ \A i \in 3..Len(u) : i - 2 \in 1..Len(t) /\ u[i] = t[i - 2]

LEMMA AfterTwo ==
  ASSUME NEW S, NEW h \in Seq(S), NEW t \in Seq(S), NEW u, u = h \o t
  PROVE  /\ u \in Seq(S)
         /\ Len(h) = 2 => GoesOn(h, t, u)
<1>1. Len(t) \in Nat
  BY LenProperties
<1>2. /\ Begins(h, u) /\ u \in Seq(S) /\ Len(u) = Len(h) + Len(t)
      /\ \A i \in 1..Len(t) : u[Len(h) + i] = t[i]
  <2>1. Begins(h, u)
    BY ConcatPlaces
  <2>2. u \in Seq(S) /\ Len(u) = Len(h) + Len(t)
    BY ConcatPlaces
  <2>3. \A i \in 1..Len(t) : u[Len(h) + i] = t[i]
    BY ConcatPlaces
  <2> QED
    BY <2>1, <2>2, <2>3
<1>3. ASSUME Len(h) = 2 PROVE u[1] = h[1] /\ u[2] = h[2]
  BY <1>2, <1>3 DEF Begins
<1>4. ASSUME Len(h) = 2, NEW i \in 3..Len(u) PROVE i - 2 \in 1..Len(t) /\ u[i] = t[i - 2]
  <2>1. i - 2 \in 1..Len(t) /\ i = 2 + (i - 2)
    BY <1>1, <1>2, <1>4
  <2> QED
    BY <1>2, <1>4, <2>1
<1> QED
  BY <1>1, <1>2, <1>3, <1>4 DEF GoesOn
=============================================================================
