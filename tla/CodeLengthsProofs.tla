-------------------------- MODULE CodeLengthsProofs --------------------------
(***************************************************************************)
(* What canonical_huffman_lengths computes, for every histogram and every  *)
(* cap that leaves room for its symbols: the lengths fill the code space   *)
(* exactly, stay under the cap, and no prefix code under the cap is        *)
(* shorter - whether the tree was kept or package-merge was needed.        *)
(***************************************************************************)
EXTENDS CodeLengths, FiniteSetTheorems, Lemmas

------------------------------------------------------------------------------
(* Totals.                                                                   *)
(* The size of a set of numbers below n is the sum of its indicator.         *)
LEMMA CountAsSum ==
  ASSUME NEW n \in Nat, NEW A \in SUBSET (0 .. n - 1),
         NEW f, \A i \in 1 .. n : f[i] = IF i - 1 \in A THEN 1 ELSE 0
  PROVE  Cardinality(A) = Sum(f, n)
<1> DEFINE B(m) == {a \in A : a < m}
           S == {m \in Nat : m <= n => IsFiniteSet(B(m)) /\ Cardinality(B(m)) = Sum(f, m)}
<1>0. \A a \in A : a \in Nat /\ a < n
  OBVIOUS
<1>1. 0 \in S
  <2>1. B(0) = {}
    <3> HIDE DEF S
    <3>1. ASSUME NEW a \in B(0) PROVE FALSE
      BY <1>0
    <3> QED BY <3>1
  <2> QED BY <2>1, FS_EmptySet, SumEquations
<1>2. ASSUME NEW m \in S PROVE m + 1 \in S
  <2> SUFFICES ASSUME m + 1 <= n
               PROVE  IsFiniteSet(B(m + 1)) /\ Cardinality(B(m + 1)) = Sum(f, m + 1)
    OBVIOUS
  <2>1. Sum(f, m + 1) = Sum(f, m) + f[m + 1]
    BY SumEquations
  <2>2. f[m + 1] = IF m \in A THEN 1 ELSE 0
    OBVIOUS
  <2>3. IsFiniteSet(B(m)) /\ Cardinality(B(m)) = Sum(f, m) /\ Cardinality(B(m)) \in Nat
    BY FS_CardinalityType
  <2>4. CASE m \in A
    <3>1. B(m + 1) = B(m) \cup {m} /\ m \notin B(m)
      <4> HIDE DEF S
      <4>1. m \in Nat /\ \A a \in A : a < m + 1 <=> a < m \/ a = m
        BY <1>0 DEF S
      <4>2. m \notin B(m)
        BY <4>1
      <4>3. ASSUME NEW a PROVE a \in B(m + 1) <=> a \in B(m) \cup {m}
        BY <2>4, <4>1
      <4> HIDE DEF B
      <4> QED BY <4>2, <4>3
    <3> HIDE DEF B, S
    <3> QED BY <2>1, <2>2, <2>3, <2>4, <3>1, FS_AddElement
  <2>5. CASE m \notin A
    <3>1. B(m + 1) = B(m)
      <4> HIDE DEF S
      <4>1. m \in Nat /\ \A a \in A : a < m + 1 <=> a < m
        BY <1>0, <2>5 DEF S
      <4> QED BY <4>1
    <3> HIDE DEF B, S
    <3> QED BY <2>1, <2>2, <2>3, <2>5, <3>1
  <2> QED BY <2>4, <2>5
<1>3. S = Nat
  <2> HIDE DEF S
  <2>1. S \in SUBSET Nat
    BY DEF S
  <2> QED BY <1>1, <1>2, <2>1, NatSetInduction
<1>4. B(n) = A
  <2> HIDE DEF S
  <2> QED BY <1>0
<1>5. Cardinality(B(n)) = Sum(f, n)
  <2>1. n \in S
    <3> HIDE DEF S
    <3> QED BY <1>3
  <2> HIDE DEF B
  <2> QED BY <2>1
<1> HIDE DEF B, S
<1> QED BY <1>4, <1>5


LEMMA SumAdd ==
  ASSUME NEW f, NEW g, NEW h, NEW n \in Nat,
         \A k \in 1 .. n : f[k] \in Nat /\ g[k] \in Nat /\ h[k] = f[k] + g[k]
  PROVE  Sum(h, n) = Sum(f, n) + Sum(g, n)
<1> DEFINE S == {m \in Nat : m <= n => /\ Sum(f, m) \in Nat /\ Sum(g, m) \in Nat
                                       /\ Sum(h, m) = Sum(f, m) + Sum(g, m)}
<1>1. 0 \in S
  BY SumEquations
<1>2. ASSUME NEW m \in S PROVE m + 1 \in S
  <2> SUFFICES ASSUME m + 1 <= n
               PROVE  /\ Sum(f, m + 1) \in Nat /\ Sum(g, m + 1) \in Nat
                      /\ Sum(h, m + 1) = Sum(f, m + 1) + Sum(g, m + 1)
    OBVIOUS
  <2>1. /\ Sum(f, m + 1) = Sum(f, m) + f[m + 1]
        /\ Sum(g, m + 1) = Sum(g, m) + g[m + 1]
        /\ Sum(h, m + 1) = Sum(h, m) + h[m + 1]
    BY SumEquations
  <2>2. f[m + 1] \in Nat /\ g[m + 1] \in Nat /\ h[m + 1] = f[m + 1] + g[m + 1]
    OBVIOUS
  <2>3. /\ Sum(f, m) \in Nat /\ Sum(g, m) \in Nat
        /\ Sum(h, m) = Sum(f, m) + Sum(g, m)
    OBVIOUS
  <2> QED BY ONLY <2>1, <2>2, <2>3
<1>3. S = Nat
  <2> HIDE DEF S
  <2>1. S \in SUBSET Nat
    BY DEF S
  <2> QED BY <1>1, <1>2, <2>1, NatSetInduction
<1> QED BY <1>3

LEMMA SumScale ==
  ASSUME NEW c \in Nat, NEW f, NEW h, NEW n \in Nat,
         \A k \in 1 .. n : f[k] \in Nat /\ h[k] = c * f[k]
  PROVE  Sum(h, n) = c * Sum(f, n)
<1> DEFINE S == {m \in Nat : m <= n => Sum(f, m) \in Nat /\ Sum(h, m) = c * Sum(f, m)}
<1>1. 0 \in S
  BY SumEquations
<1>2. ASSUME NEW m \in S PROVE m + 1 \in S
  <2> SUFFICES ASSUME m + 1 <= n
               PROVE  Sum(f, m + 1) \in Nat /\ Sum(h, m + 1) = c * Sum(f, m + 1)
    OBVIOUS
  <2>1. /\ Sum(f, m + 1) = Sum(f, m) + f[m + 1]
        /\ Sum(h, m + 1) = Sum(h, m) + h[m + 1]
    BY SumEquations
  <2>2. f[m + 1] \in Nat /\ h[m + 1] = c * f[m + 1]
    OBVIOUS
  <2>3. Sum(f, m) \in Nat /\ Sum(h, m) = c * Sum(f, m)
    OBVIOUS
  <2>4. \A x, y \in Nat : c * (x + y) = c * x + c * y
    OBVIOUS
  <2>5. c * (Sum(f, m) + f[m + 1]) = c * Sum(f, m) + c * f[m + 1]
    BY ONLY <2>2, <2>3, <2>4
  <2> QED BY ONLY <2>1, <2>2, <2>3, <2>5
<1>3. S = Nat
  <2> HIDE DEF S
  <2>1. S \in SUBSET Nat
    BY DEF S
  <2> QED BY <1>1, <1>2, <2>1, NatSetInduction
<1> QED BY <1>3

(* The first summand, and the rest moved up.                                 *)
LEMMA SumFront ==
  ASSUME NEW f, NEW g, NEW n \in Nat, \A k \in 1 .. n + 1 : f[k] \in Nat,
         \A k \in 1 .. n : g[k] = f[k + 1]
  PROVE  Sum(f, n + 1) = f[1] + Sum(g, n)
<1> DEFINE S == {m \in Nat : m <= n => Sum(g, m) \in Nat /\ Sum(f, m + 1) = f[1] + Sum(g, m)}
<1>1. 0 \in S
  <2>1. Sum(f, 0 + 1) = Sum(f, 0) + f[0 + 1] /\ Sum(f, 0) = 0 /\ Sum(g, 0) = 0
    BY SumEquations
  <2>2. f[1] \in Nat
    OBVIOUS
  <2> QED BY <2>1, <2>2
<1>2. ASSUME NEW m \in S PROVE m + 1 \in S
  <2> SUFFICES ASSUME m + 1 <= n
               PROVE  Sum(g, m + 1) \in Nat /\ Sum(f, (m + 1) + 1) = f[1] + Sum(g, m + 1)
    OBVIOUS
  <2>1. m + 1 \in Nat
    OBVIOUS
  <2>2. /\ Sum(f, (m + 1) + 1) = Sum(f, m + 1) + f[(m + 1) + 1]
        /\ Sum(g, m + 1) = Sum(g, m) + g[m + 1]
    BY <2>1, SumEquations
  <2>3. f[(m + 1) + 1] \in Nat /\ g[m + 1] = f[(m + 1) + 1] /\ f[1] \in Nat
    OBVIOUS
  <2>4. Sum(g, m) \in Nat /\ Sum(f, m + 1) = f[1] + Sum(g, m)
    OBVIOUS
  <2> QED BY ONLY <2>2, <2>3, <2>4
<1>3. S = Nat
  <2> HIDE DEF S
  <2>1. S \in SUBSET Nat
    BY DEF S
  <2> QED BY <1>1, <1>2, <2>1, NatSetInduction
<1> QED BY <1>3

(* No summand is above the total.                                            *)
LEMMA SumHolds ==
  ASSUME NEW f, NEW n \in Nat, \A k \in 1 .. n : f[k] \in Nat, NEW j \in 1 .. n
  PROVE  f[j] <= Sum(f, n)
<1>1. j - 1 \in Nat /\ j \in 0 .. n /\ (j - 1) + 1 = j /\ f[j] \in Nat
  OBVIOUS
<1>2. Sum(f, j - 1) \in Nat
  <2>1. \A k \in 1 .. j - 1 : f[k] \in Nat
    OBVIOUS
  <2> QED BY <1>1, <2>1, SumNat
<1>3. Sum(f, j) = Sum(f, j - 1) + f[j]
  BY <1>1, SumEquations
<1>4. Sum(f, j) <= Sum(f, n) /\ Sum(f, n) \in Nat /\ Sum(f, j) \in Nat
  <2>1. \A k \in 1 .. j : f[k] \in Nat
    OBVIOUS
  <2> QED BY <1>1, <2>1, SumGrows, SumNat
<1> QED BY <1>1, <1>2, <1>3, <1>4

(* One summand that is not 0.                                                *)
LEMMA SumSingle ==
  ASSUME NEW f, NEW n \in Nat, NEW j \in 1 .. n, NEW c \in Nat,
         \A k \in 1 .. n : f[k] = IF k = j THEN c ELSE 0
  PROVE  Sum(f, n) = c
<1> DEFINE S == {m \in Nat : m <= n => Sum(f, m) = IF j <= m THEN c ELSE 0}
<1>1. 0 \in S
  BY SumEquations
<1>2. ASSUME NEW m \in S PROVE m + 1 \in S
  <2> SUFFICES ASSUME m + 1 <= n PROVE Sum(f, m + 1) = IF j <= m + 1 THEN c ELSE 0
    OBVIOUS
  <2>1. Sum(f, m + 1) = Sum(f, m) + f[m + 1]
    BY SumEquations
  <2>2. f[m + 1] = IF m + 1 = j THEN c ELSE 0
    OBVIOUS
  <2>3. Sum(f, m) = (IF j <= m THEN c ELSE 0) /\ m \in Nat /\ j \in Nat
    OBVIOUS
  <2> QED BY ONLY <2>1, <2>2, <2>3, c \in Nat
<1>3. S = Nat
  <2> HIDE DEF S
  <2>1. S \in SUBSET Nat
    BY DEF S
  <2> QED BY <1>1, <1>2, <2>1, NatSetInduction
<1> QED BY <1>3

------------------------------------------------------------------------------
(* The total of f over a set of numbers below n.                             *)
Picked(f, S, n) == [i \in 1 .. n |-> IF i - 1 \in S THEN f[i - 1] ELSE 0]
Over(f, S, n)   == Sum(Picked(f, S, n), n)

LEMMA FiniteBelow ==
  ASSUME NEW n \in Nat, NEW S \in SUBSET (0 .. n - 1)
  PROVE  IsFiniteSet(S) /\ Cardinality(S) \in Nat
<1>1. IsFiniteSet(0 .. n - 1)
  BY FS_Interval
<1>2. IsFiniteSet(S)
  BY <1>1, FS_Subset
<1> QED BY <1>2, FS_CardinalityType

LEMMA PickedAt ==
  ASSUME NEW n \in Nat, NEW S \in SUBSET (0 .. n - 1), NEW f, NEW i \in 1 .. n
  PROVE  /\ i - 1 \in S => Picked(f, S, n)[i] = f[i - 1]
         /\ i - 1 \notin S => Picked(f, S, n)[i] = 0
BY DEF Picked

LEMMA OverNat ==
  ASSUME NEW n \in Nat, NEW S \in SUBSET (0 .. n - 1), NEW f, \A s \in S : f[s] \in Nat
  PROVE  /\ Over(f, S, n) \in Nat
         /\ \A s \in S : f[s] <= Over(f, S, n)
         /\ \A i \in 1 .. n : Picked(f, S, n)[i] \in Nat
<1>1. \A i \in 1 .. n : Picked(f, S, n)[i] \in Nat
  BY DEF Picked
<1>2. Over(f, S, n) \in Nat
  BY <1>1, SumNat DEF Over
<1>3. ASSUME NEW s \in S PROVE f[s] <= Over(f, S, n)
  <2>1. s + 1 \in 1 .. n /\ (s + 1) - 1 = s
    OBVIOUS
  <2>2. Picked(f, S, n)[s + 1] = f[s]
    BY <2>1, PickedAt
  <2> QED BY <1>1, <2>1, <2>2, SumHolds DEF Over
<1> QED BY <1>1, <1>2, <1>3

LEMMA OverSame ==
  ASSUME NEW n \in Nat, NEW S, NEW f, NEW g, \A s \in S : f[s] = g[s]
  PROVE  Over(f, S, n) = Over(g, S, n)
<1>1. \A i \in 1 .. n : Picked(f, S, n)[i] = Picked(g, S, n)[i]
  BY DEF Picked
<1> QED BY <1>1, SumSame DEF Over

LEMMA OverMonotone ==
  ASSUME NEW n \in Nat, NEW S \in SUBSET (0 .. n - 1), NEW f, NEW g,
         \A s \in S : f[s] \in Nat /\ g[s] \in Nat /\ f[s] <= g[s]
  PROVE  Over(f, S, n) <= Over(g, S, n)
<1>1. ASSUME NEW i \in 1 .. n
      PROVE  /\ Picked(f, S, n)[i] \in Nat /\ Picked(g, S, n)[i] \in Nat
             /\ Picked(f, S, n)[i] <= Picked(g, S, n)[i]
  BY DEF Picked
<1> QED BY <1>1, SumMonotone DEF Over

LEMMA OverScale ==
  ASSUME NEW n \in Nat, NEW S \in SUBSET (0 .. n - 1), NEW c \in Nat, NEW f, NEW h,
         \A s \in S : f[s] \in Nat /\ h[s] = c * f[s]
  PROVE  Over(h, S, n) = c * Over(f, S, n)
<1>1. ASSUME NEW i \in 1 .. n
      PROVE  Picked(f, S, n)[i] \in Nat /\ Picked(h, S, n)[i] = c * Picked(f, S, n)[i]
  <2>1. CASE i - 1 \in S
    BY <2>1, PickedAt
  <2>2. CASE i - 1 \notin S
    BY <2>2, PickedAt
  <2> QED BY <2>1, <2>2
<1> QED BY <1>1, SumScale DEF Over

LEMMA OverPlus ==
  ASSUME NEW n \in Nat, NEW S \in SUBSET (0 .. n - 1), NEW f, NEW g, NEW h,
         \A s \in S : f[s] \in Nat /\ g[s] \in Nat /\ h[s] = f[s] + g[s]
  PROVE  Over(h, S, n) = Over(f, S, n) + Over(g, S, n)
<1>1. ASSUME NEW i \in 1 .. n
      PROVE  /\ Picked(f, S, n)[i] \in Nat /\ Picked(g, S, n)[i] \in Nat
             /\ Picked(h, S, n)[i] = Picked(f, S, n)[i] + Picked(g, S, n)[i]
  <2>1. CASE i - 1 \in S
    BY <2>1, PickedAt
  <2>2. CASE i - 1 \notin S
    BY <2>2, PickedAt
  <2> QED BY <2>1, <2>2
<1> QED BY <1>1, SumAdd DEF Over

LEMMA OverUnion ==
  ASSUME NEW n \in Nat, NEW S \in SUBSET (0 .. n - 1), NEW T \in SUBSET (0 .. n - 1),
         NEW f, \A s \in S \cup T : f[s] \in Nat, S \cap T = {}
  PROVE  Over(f, S \cup T, n) = Over(f, S, n) + Over(f, T, n)
<1>1. ASSUME NEW i \in 1 .. n
      PROVE  /\ Picked(f, S, n)[i] \in Nat /\ Picked(f, T, n)[i] \in Nat
             /\ Picked(f, S \cup T, n)[i] = Picked(f, S, n)[i] + Picked(f, T, n)[i]
  <2>0. S \cup T \in SUBSET (0 .. n - 1)
    OBVIOUS
  <2>1. CASE i - 1 \in S
    BY <2>0, <2>1, PickedAt
  <2>2. CASE i - 1 \in T
    BY <2>0, <2>2, PickedAt
  <2>3. CASE i - 1 \notin S \cup T
    BY <2>0, <2>3, PickedAt
  <2> QED BY <2>1, <2>2, <2>3
<1> DEFINE a == Picked(f, S, n)
           b == Picked(f, T, n)
           c == Picked(f, S \cup T, n)
<1>2. \A i \in 1 .. n : a[i] \in Nat /\ b[i] \in Nat /\ c[i] = a[i] + b[i]
  BY <1>1
<1> HIDE DEF a, b, c
<1>3. Sum(c, n) = Sum(a, n) + Sum(b, n)
  BY <1>2, SumAdd
<1> QED BY <1>3 DEF Over, a, b, c

LEMMA OverEmpty == \A n \in Nat : \A f : Over(f, {}, n) = 0
<1> SUFFICES ASSUME NEW n \in Nat, NEW f PROVE Over(f, {}, n) = 0
  OBVIOUS
<1>1. \A i \in 1 .. n : Picked(f, {}, n)[i] = 0
  BY DEF Picked
<1> QED BY <1>1, SumZero DEF Over

LEMMA OverSingle ==
  ASSUME NEW n \in Nat, NEW s \in 0 .. n - 1, NEW f, f[s] \in Nat
  PROVE  Over(f, {s}, n) = f[s]
<1>1. s + 1 \in 1 .. n
  OBVIOUS
<1>2. \A i \in 1 .. n : Picked(f, {s}, n)[i] = IF i = s + 1 THEN f[s] ELSE 0
  BY DEF Picked
<1> QED BY <1>1, <1>2, SumSingle DEF Over

LEMMA OverAdd ==
  ASSUME NEW n \in Nat, NEW S \in SUBSET (0 .. n - 1), NEW s \in (0 .. n - 1) \ S,
         NEW f, f[s] \in Nat, \A t \in S : f[t] \in Nat
  PROVE  Over(f, S \cup {s}, n) = Over(f, S, n) + f[s]
<1>1. {s} \in SUBSET (0 .. n - 1) /\ S \cap {s} = {} /\ \A t \in S \cup {s} : f[t] \in Nat
  OBVIOUS
<1>2. Over(f, S \cup {s}, n) = Over(f, S, n) + Over(f, {s}, n)
  BY <1>1, OverUnion
<1>3. Over(f, {s}, n) = f[s]
  BY OverSingle
<1> QED BY <1>2, <1>3

LEMMA OverRemove ==
  ASSUME NEW n \in Nat, NEW S \in SUBSET (0 .. n - 1), NEW s \in S,
         NEW f, \A t \in S : f[t] \in Nat
  PROVE  Over(f, S, n) = Over(f, S \ {s}, n) + f[s]
<1>1. /\ S \ {s} \in SUBSET (0 .. n - 1) /\ s \in (0 .. n - 1) \ (S \ {s})
      /\ (S \ {s}) \cup {s} = S /\ f[s] \in Nat /\ \A t \in S \ {s} : f[t] \in Nat
  OBVIOUS
<1> QED BY <1>1, OverAdd

LEMMA OverCount ==
  ASSUME NEW n \in Nat, NEW S \in SUBSET (0 .. n - 1), NEW f, \A s \in S : f[s] = 1
  PROVE  Over(f, S, n) = Cardinality(S)
<1>1. \A i \in 1 .. n : Picked(f, S, n)[i] = IF i - 1 \in S THEN 1 ELSE 0
  BY DEF Picked
<1> QED BY <1>1, CountAsSum DEF Over

(* D sets, each with a factor: adding up set by set or element by element.   *)
Rows(O, c, D, w, n) == [j \in 1 .. D |-> c[j] * Over(w, O[j], n)]
Column(O, c, D, s)  == [j \in 1 .. D |-> IF s \in O[j] THEN c[j] ELSE 0]

LEMMA DoubleSum ==
  ASSUME NEW n \in Nat, NEW S \in SUBSET (0 .. n - 1), NEW D \in Nat,
         NEW O \in [1 .. D -> SUBSET S], NEW c \in [1 .. D -> Nat],
         NEW w, \A s \in S : w[s] \in Nat
  PROVE  Sum(Rows(O, c, D, w, n), D) = Over([s \in S |-> w[s] * Sum(Column(O, c, D, s), D)], S, n)
<1> DEFINE R == Rows(O, c, D, w, n)
           C(s) == Column(O, c, D, s)
           x(d) == [s \in S |-> w[s] * Sum(C(s), d)]
           A == {d \in Nat : d <= D => Sum(R, d) = Over(x(d), S, n)}
<1>1. 0 \in A
  <2>1. \A s \in S : x(0)[s] = 0
    <3> SUFFICES ASSUME NEW s \in S PROVE x(0)[s] = 0
      OBVIOUS
    <3>1. Sum(C(s), 0) = 0
      BY SumEquations
    <3> HIDE DEF C
    <3> QED BY <3>1
  <2> HIDE DEF x
  <2>2. \A i \in 1 .. n : Picked(x(0), S, n)[i] = 0
    BY <2>1 DEF Picked
  <2>3. Over(x(0), S, n) = 0
    BY <2>2, SumZero DEF Over
  <2> QED BY <2>3, SumEquations
<1>2. ASSUME NEW d \in A PROVE d + 1 \in A
  <2> HIDE DEF R, x
  <2> SUFFICES ASSUME d + 1 <= D PROVE Sum(R, d + 1) = Over(x(d + 1), S, n)
    OBVIOUS
  <2>0. d \in Nat /\ d + 1 \in 1 .. D
    OBVIOUS
  <2>1. Sum(R, d + 1) = Sum(R, d) + R[d + 1]
    BY <2>0, SumEquations
  <2>2. Sum(R, d) = Over(x(d), S, n)
    OBVIOUS
  <2> DEFINE y == [s \in S |-> w[s] * C(s)[d + 1]]
  <2> HIDE DEF A
  <2>3. ASSUME NEW s \in S
        PROVE  /\ x(d)[s] \in Nat /\ y[s] \in Nat /\ x(d + 1)[s] = x(d)[s] + y[s]
    <3>1. Sum(C(s), d + 1) = Sum(C(s), d) + C(s)[d + 1]
      BY <2>0, SumEquations
    <3>2. \A k \in 1 .. d + 1 : C(s)[k] \in Nat
      BY <2>0 DEF Column
    <3>3. Sum(C(s), d) \in Nat /\ C(s)[d + 1] \in Nat
      <4>1. \A k \in 1 .. d : C(s)[k] \in Nat
        BY <2>0, <3>2
      <4> QED BY <2>0, <3>2, <4>1, SumNat
    <3>4. w[s] \in Nat /\ x(d)[s] = w[s] * Sum(C(s), d) /\ y[s] = w[s] * C(s)[d + 1]
          /\ x(d + 1)[s] = w[s] * Sum(C(s), d + 1)
      BY DEF x
    <3>5. \A p, q, r \in Nat : p * (q + r) = p * q + p * r
      OBVIOUS
    <3>6. \A p, q \in Nat : p * q \in Nat
      OBVIOUS
    <3> QED BY ONLY <3>1, <3>3, <3>4, <3>5, <3>6
  <2>4. Over(y, S, n) = R[d + 1]
    <3>1. O[d + 1] \in SUBSET S /\ c[d + 1] \in Nat /\ O[d + 1] \in SUBSET (0 .. n - 1)
      BY <2>0
    <3>2. R[d + 1] = c[d + 1] * Over(w, O[d + 1], n)
      BY <2>0 DEF R, Rows
    <3>3. ASSUME NEW i \in 1 .. n
          PROVE  /\ Picked(w, O[d + 1], n)[i] \in Nat
                 /\ Picked(y, S, n)[i] = c[d + 1] * Picked(w, O[d + 1], n)[i]
      <4>1. CASE i - 1 \in O[d + 1]
        <5>1. i - 1 \in S /\ w[i - 1] \in Nat
          BY <3>1, <4>1
        <5>2. y[i - 1] = w[i - 1] * c[d + 1]
          BY <2>0, <4>1, <5>1 DEF Column
        <5>3. Picked(y, S, n)[i] = y[i - 1] /\ Picked(w, O[d + 1], n)[i] = w[i - 1]
          BY <3>1, <4>1, <5>1, PickedAt
        <5> QED BY ONLY <3>1, <5>1, <5>2, <5>3
      <4>2. CASE i - 1 \in S /\ i - 1 \notin O[d + 1]
        <5>1. w[i - 1] \in Nat
          BY <4>2
        <5>2. y[i - 1] = w[i - 1] * 0
          BY <2>0, <4>2 DEF Column
        <5>3. Picked(y, S, n)[i] = y[i - 1] /\ Picked(w, O[d + 1], n)[i] = 0
          BY <3>1, <4>2, PickedAt
        <5> QED BY ONLY <3>1, <5>1, <5>2, <5>3
      <4>3. CASE i - 1 \notin S
        <5>1. i - 1 \notin O[d + 1]
          BY <3>1, <4>3
        <5>2. Picked(y, S, n)[i] = 0 /\ Picked(w, O[d + 1], n)[i] = 0
          BY <3>1, <4>3, <5>1, PickedAt
        <5> QED BY ONLY <3>1, <5>2
      <4> QED BY <4>1, <4>2, <4>3
    <3> HIDE DEF y, R
    <3> DEFINE a == Picked(w, O[d + 1], n)
               b == Picked(y, S, n)
               e == c[d + 1]
    <3>4. e \in Nat /\ \A i \in 1 .. n : a[i] \in Nat /\ b[i] = e * a[i]
      BY <3>1, <3>3
    <3> HIDE DEF a, b, e
    <3>5. Sum(b, n) = e * Sum(a, n)
      BY ONLY n \in Nat, <3>4, SumScale
    <3> QED BY <3>2, <3>5 DEF Over, a, b, e
  <2> HIDE DEF x, y, R
  <2>5. Over(x(d + 1), S, n) = Over(x(d), S, n) + Over(y, S, n)
    BY <2>3, OverPlus
  <2> QED BY <2>1, <2>2, <2>4, <2>5
<1>3. A = Nat
  <2> HIDE DEF A
  <2>1. A \in SUBSET Nat
    BY DEF A
  <2> QED BY <1>1, <1>2, <2>1, NatSetInduction
<1>4. Sum(R, D) = Over(x(D), S, n)
  <2> HIDE DEF R, x
  <2>1. D \in A
    <3> HIDE DEF A
    <3> QED BY <1>3
  <2> QED BY <2>1
<1> QED BY <1>4

------------------------------------------------------------------------------
(* Lengths as layers.  Lengths of up to D bits for the elements of S are D   *)
(* subsets of S, each inside the next: a length is the number of subsets an  *)
(* element is in.  The j-th subset is worth Pow2(j - 1) per element.         *)
Ones(D)     == [j \in 1 .. D |-> 1]
Doubling(D) == [j \in 1 .. D |-> Pow2(j - 1)]

Worth(O, D)        == Sum([j \in 1 .. D |-> Pow2(j - 1) * Cardinality(O[j])], D)
Weight(O, w, D, n) == Sum([j \in 1 .. D |-> Over(w, O[j], n)], D)

(* What codes of these lengths take of Pow2(D) strings of D bits.            *)
Space(l, S, D, n) == Over([s \in S |-> Pow2(D - l[s])], S, n)

Ascending(O, D) == \A i, j \in 1 .. D : i <= j => O[i] \subseteq O[j]

LEMMA Ladder ==
  ASSUME NEW D \in Nat, NEW O, Ascending(O, D), NEW s,
         NEW v, v = Sum(Column(O, Ones(D), D, s), D),
         NEW u, u = Sum(Column(O, Doubling(D), D, s), D)
  PROVE  v \in 0 .. D /\ u \in Nat /\ u + Pow2(D - v) = Pow2(D)
<1> DEFINE x == Column(O, Ones(D), D, s)
           y == Column(O, Doubling(D), D, s)
           Good(d, a, b) == a \in 0 .. d /\ b \in Nat /\ b + Pow2(d - a) = Pow2(d)
           A == {d \in Nat : d <= D => Good(d, Sum(x, d), Sum(y, d))}
<1>0. ASSUME NEW j \in 1 .. D
      PROVE  /\ s \in O[j] => x[j] = 1 /\ y[j] = Pow2(j - 1)
             /\ s \notin O[j] => x[j] = 0 /\ y[j] = 0
  BY DEF Column, Ones, Doubling
<1>1. 0 \in A
  BY SumEquations, Pow2Equations
<1> HIDE DEF x, y
<1>2. ASSUME NEW d \in A PROVE d + 1 \in A
  <2> SUFFICES ASSUME d + 1 <= D PROVE Good(d + 1, Sum(x, d + 1), Sum(y, d + 1))
    OBVIOUS
  <2>0. d \in Nat /\ d + 1 \in 1 .. D /\ (d + 1) - 1 = d
    OBVIOUS
  <2>1. Sum(x, d + 1) = Sum(x, d) + x[d + 1] /\ Sum(y, d + 1) = Sum(y, d) + y[d + 1]
    BY <2>0, SumEquations
  <2>2. Good(d, Sum(x, d), Sum(y, d))
    OBVIOUS
  <2>3. Pow2(d + 1) = 2 * Pow2(d) /\ Pow2(d) \in Nat
    BY <2>0, Pow2Equations, Pow2Type
  <2> HIDE DEF A
  <2>4. CASE s \in O[d + 1]
    <3>1. x[d + 1] = 1 /\ y[d + 1] = Pow2(d)
      BY <1>0, <2>0, <2>4
    <3>2. (d + 1) - (Sum(x, d) + 1) = d - Sum(x, d)
      BY <2>0, <2>2
    <3>3. d - Sum(x, d) \in Nat /\ Pow2(d - Sum(x, d)) \in Nat
      BY <2>0, <2>2, Pow2Type
    <3> QED BY <2>0, <2>1, <2>2, <2>3, <3>1, <3>2, <3>3
  <2>5. CASE s \notin O[d + 1]
    <3>1. ASSUME NEW j \in 1 .. d + 1 PROVE x[j] = 0 /\ y[j] = 0
      <4>1. j \in 1 .. D /\ j <= d + 1
        BY <2>0
      <4>2. s \notin O[j]
        BY <2>0, <2>5, <4>1 DEF Ascending
      <4> QED BY <1>0, <4>1, <4>2
    <3>2. Sum(x, d + 1) = 0 /\ Sum(y, d + 1) = 0
      BY <2>0, <3>1, SumZero
    <3>3. Pow2(d + 1) \in Nat
      BY <2>0, Pow2Type
    <3> QED BY <2>0, <3>2, <3>3
  <2> QED BY <2>4, <2>5
<1>3. A = Nat
  <2> HIDE DEF A
  <2>1. A \in SUBSET Nat
    BY DEF A
  <2> QED BY <1>1, <1>2, <2>1, NatSetInduction
<1>4. Good(D, Sum(x, D), Sum(y, D))
  <2>1. D \in A
    <3> HIDE DEF A
    <3> QED BY <1>3
  <2> HIDE DEF Good
  <2> QED BY <2>1
<1> QED BY <1>4 DEF x, y

IsLayered(O, l, S, D) ==
  /\ O \in [1 .. D -> SUBSET S] /\ Ascending(O, D)
  /\ \A s \in S : l[s] = Sum(Column(O, Ones(D), D, s), D)

LEMMA Layers ==
  ASSUME NEW n \in Nat, NEW S \in SUBSET (0 .. n - 1), NEW D \in Nat,
         NEW O, NEW l, IsLayered(O, l, S, D)
  PROVE  /\ \A s \in S : l[s] \in 0 .. D
         /\ Worth(O, D) + Space(l, S, D, n) = Cardinality(S) * Pow2(D)
<1> USE DEF IsLayered
<1> DEFINE one == [s \in S |-> 1]
           u(s) == Sum(Column(O, Doubling(D), D, s), D)
           p == [s \in S |-> u(s)]
           q == [s \in S |-> Pow2(D - l[s])]
           h == [s \in S |-> Pow2(D)]
<1>1. ASSUME NEW s \in S
      PROVE  l[s] \in 0 .. D /\ u(s) \in Nat /\ u(s) + Pow2(D - l[s]) = Pow2(D)
  BY Ladder
<1>2. ASSUME NEW j \in 1 .. D
      PROVE  Over(one, O[j], n) = Cardinality(O[j])
  <2>1. O[j] \in SUBSET (0 .. n - 1) /\ \A s \in O[j] : one[s] = 1
    OBVIOUS
  <2> HIDE DEF one
  <2> QED BY <2>1, OverCount
<1>3. Doubling(D) \in [1 .. D -> Nat]
  <2>1. \A j \in 1 .. D : j - 1 \in Nat
    OBVIOUS
  <2> QED BY <2>1, Pow2Type DEF Doubling
<1>4. Worth(O, D) = Over(p, S, n)
  <2>1. Sum(Rows(O, Doubling(D), D, one, n), D)
          = Over([s \in S |-> one[s] * Sum(Column(O, Doubling(D), D, s), D)], S, n)
    BY <1>3, DoubleSum
  <2>2. Worth(O, D) = Sum(Rows(O, Doubling(D), D, one, n), D)
    <3>1. \A j \in 1 .. D : Rows(O, Doubling(D), D, one, n)[j] = Pow2(j - 1) * Cardinality(O[j])
      BY <1>2 DEF Rows, Doubling
    <3> DEFINE a == [j \in 1 .. D |-> Pow2(j - 1) * Cardinality(O[j])]
               b == Rows(O, Doubling(D), D, one, n)
    <3>2. \A j \in 1 .. D : a[j] = b[j]
      BY <3>1
    <3> HIDE DEF a, b
    <3>3. Sum(a, D) = Sum(b, D)
      BY <3>2, SumSame
    <3> QED BY <3>3 DEF Worth, a, b
  <2>3. \A s \in S : p[s] = [t \in S |-> one[t] * Sum(Column(O, Doubling(D), D, t), D)][s]
    BY <1>1
  <2> HIDE DEF p, one
  <2> QED BY <2>1, <2>2, <2>3, OverSame
<1>5. Over(h, S, n) = Over(p, S, n) + Over(q, S, n)
  <2>1. ASSUME NEW s \in S PROVE p[s] \in Nat /\ q[s] \in Nat /\ h[s] = p[s] + q[s]
    <3>1. D - l[s] \in Nat
      BY <1>1
    <3>2. Pow2(D - l[s]) \in Nat
      BY <3>1, Pow2Type
    <3> QED BY <1>1, <3>2
  <2> HIDE DEF p, q, h
  <2> QED BY <2>1, OverPlus
<1>6. Over(h, S, n) = Pow2(D) * Cardinality(S)
  <2>1. \A s \in S : one[s] \in Nat /\ h[s] = Pow2(D) * one[s] /\ one[s] = 1
    BY Pow2Type
  <2> HIDE DEF one, h
  <2>2. Over(one, S, n) = Cardinality(S)
    BY <2>1, OverCount
  <2> DEFINE e == Pow2(D)
  <2>3. e \in Nat /\ \A s \in S : one[s] \in Nat /\ h[s] = e * one[s]
    BY <2>1, Pow2Type
  <2> HIDE DEF e
  <2>4. Over(h, S, n) = e * Over(one, S, n)
    BY <2>3, OverScale
  <2> QED BY <2>2, <2>4 DEF e
<1>7. Worth(O, D) + Space(l, S, D, n) = Cardinality(S) * Pow2(D)
  <2>1. Cardinality(S) \in Nat
    BY FiniteBelow
  <2>2. Space(l, S, D, n) = Over(q, S, n)
    BY DEF Space
  <2> HIDE DEF p, q, h
  <2> QED BY <1>4, <1>5, <1>6, <2>1, <2>2, Pow2Type
<1> QED BY <1>1, <1>7

LEMMA LayersWeigh ==
  ASSUME NEW n \in Nat, NEW S \in SUBSET (0 .. n - 1), NEW D \in Nat,
         NEW O, NEW l, IsLayered(O, l, S, D),
         NEW w, \A s \in S : w[s] \in Nat
  PROVE  Weight(O, w, D, n) = Over([s \in S |-> w[s] * l[s]], S, n)
<1> USE DEF IsLayered
<1>1. Ones(D) \in [1 .. D -> Nat]
  BY DEF Ones
<1>2. Sum(Rows(O, Ones(D), D, w, n), D)
        = Over([s \in S |-> w[s] * Sum(Column(O, Ones(D), D, s), D)], S, n)
  BY <1>1, DoubleSum
<1>3. Weight(O, w, D, n) = Sum(Rows(O, Ones(D), D, w, n), D)
  <2>1. ASSUME NEW j \in 1 .. D PROVE Rows(O, Ones(D), D, w, n)[j] = Over(w, O[j], n)
    <3>1. Over(w, O[j], n) \in Nat
      <4>1. O[j] \in SUBSET (0 .. n - 1) /\ \A s \in O[j] : w[s] \in Nat
        OBVIOUS
      <4> QED BY <4>1, OverNat
    <3> QED BY <3>1 DEF Rows, Ones
  <2> QED BY <2>1, SumSame DEF Weight
<1> QED BY <1>2, <1>3

(* Every table of lengths has its layers.                                    *)
LayersOf(l, S, D) == [j \in 1 .. D |-> {s \in S : l[s] > D - j}]

LEMMA LengthsAsLayers ==
  ASSUME NEW D \in Nat, NEW S, NEW l, \A s \in S : l[s] \in 0 .. D
  PROVE  IsLayered(LayersOf(l, S, D), l, S, D)
<1>1. LayersOf(l, S, D) \in [1 .. D -> SUBSET S]
  BY DEF LayersOf
<1>2. Ascending(LayersOf(l, S, D), D)
  <2> SUFFICES ASSUME NEW i \in 1 .. D, NEW j \in 1 .. D, i <= j, NEW s \in S, l[s] > D - i
               PROVE  l[s] > D - j
    BY DEF Ascending, LayersOf
  <2> QED OBVIOUS
<1>3. ASSUME NEW s \in S
      PROVE  l[s] = Sum(Column(LayersOf(l, S, D), Ones(D), D, s), D)
  <2> DEFINE x == Column(LayersOf(l, S, D), Ones(D), D, s)
             a == l[s]
             A == {d \in Nat : d <= D => Sum(x, d) = IF d + a > D THEN d + a - D ELSE 0}
  <2>0. a \in 0 .. D /\ \A j \in 1 .. D : x[j] = IF a > D - j THEN 1 ELSE 0
    BY DEF Column, Ones, LayersOf
  <2> HIDE DEF x, a
  <2>1. 0 \in A
    BY <2>0, SumEquations
  <2>2. ASSUME NEW d \in A PROVE d + 1 \in A
    <3> SUFFICES ASSUME d + 1 <= D
                 PROVE  Sum(x, d + 1) = IF (d + 1) + a > D THEN (d + 1) + a - D ELSE 0
      OBVIOUS
    <3>1. Sum(x, d + 1) = Sum(x, d) + x[d + 1] /\ d \in Nat /\ d + 1 \in 1 .. D
      BY SumEquations
    <3>2. x[d + 1] = (IF a > D - (d + 1) THEN 1 ELSE 0)
          /\ Sum(x, d) = (IF d + a > D THEN d + a - D ELSE 0)
      BY <2>0, <3>1
    <3> QED BY ONLY <2>0, <3>1, <3>2, D \in Nat
  <2>3. A = Nat
    <3> HIDE DEF A
    <3>1. A \in SUBSET Nat
      BY DEF A
    <3> QED BY <2>1, <2>2, <3>1, NatSetInduction
  <2>4. Sum(x, D) = a
    <3>1. D \in A
      <4> HIDE DEF A
      <4> QED BY <2>3
    <3> QED BY <2>0, <3>1
  <2> QED BY <2>4 DEF x, a
<1> QED BY <1>1, <1>2, <1>3 DEF IsLayered

(* The space counted in shorter or longer strings.                           *)
LEMMA SpaceScale ==
  ASSUME NEW n \in Nat, NEW S \in SUBSET (0 .. n - 1), NEW b \in Nat, NEW D \in Nat, b <= D,
         NEW l, \A s \in S : l[s] \in 0 .. b
  PROVE  /\ Space(l, S, b, n) \in Nat
         /\ Space(l, S, D, n) = Pow2(D - b) * Space(l, S, b, n)
         /\ Space(l, S, D, n) = Pow2(D) => Space(l, S, b, n) = Pow2(b)
<1> DEFINE f == [s \in S |-> Pow2(b - l[s])]
           h == [s \in S |-> Pow2(D - l[s])]
           c == Pow2(D - b)
<1>1. c \in Nat \ {0} /\ D - b \in Nat
  BY Pow2Type
<1>2. ASSUME NEW s \in S PROVE f[s] \in Nat /\ h[s] = c * f[s]
  <2>1. b - l[s] \in Nat /\ (D - b) + (b - l[s]) = D - l[s]
    OBVIOUS
  <2> QED BY <1>1, <2>1, Pow2Type, Pow2Product
<1> HIDE DEF f, h, c
<1>3. Over(h, S, n) = c * Over(f, S, n) /\ Over(f, S, n) \in Nat
  <2>1. c \in Nat /\ \A s \in S : f[s] \in Nat
    BY <1>1, <1>2
  <2>2. Over(h, S, n) = c * Over(f, S, n)
    BY <1>2, <2>1, OverScale
  <2> QED BY <2>1, <2>2, OverNat
<1>4. Pow2(D) = c * Pow2(b) /\ Pow2(b) \in Nat
  <2>1. (D - b) + b = D
    OBVIOUS
  <2> QED BY <1>1, <2>1, Pow2Type, Pow2Product DEF c
<1>5. \A x, y \in Nat : c * x = c * y => x = y
  BY <1>1
<1> QED BY <1>3, <1>4, <1>5 DEF Space, f, h, c

(* Two or more symbols that fill the space exactly all have a bit or more.   *)
LEMMA FullSpaceLengths ==
  ASSUME NEW n \in Nat, NEW S \in SUBSET (0 .. n - 1), Cardinality(S) >= 2, NEW D \in Nat,
         NEW l, \A s \in S : l[s] \in 0 .. D, Space(l, S, D, n) = Pow2(D), NEW s \in S
  PROVE  l[s] >= 1
<1> SUFFICES ASSUME l[s] = 0 PROVE FALSE
  OBVIOUS
<1> DEFINE f == [t \in S |-> Pow2(D - l[t])]
<1>1. \A t \in S : f[t] \in Nat \ {0}
  <2> SUFFICES ASSUME NEW t \in S PROVE Pow2(D - l[t]) \in Nat \ {0}
    OBVIOUS
  <2>1. D - l[t] \in Nat
    OBVIOUS
  <2> QED BY <2>1, Pow2Type
<1>2. f[s] = Pow2(D) /\ Pow2(D) \in Nat
  BY Pow2Type
<1>3. Over(f, S, n) = Pow2(D)
  BY DEF Space
<1>4. PICK t \in S \ {s} : TRUE
  <2>1. CASE S = {s}
    BY <2>1, FS_Singleton
  <2> QED BY <2>1
<1> HIDE DEF f
<1>5. Over(f, S, n) = Over(f, S \ {s}, n) + f[s]
  <2>1. \A r \in S : f[r] \in Nat
    BY <1>1
  <2> QED BY ONLY n \in Nat, S \in SUBSET (0 .. n - 1), s \in S, <2>1, OverRemove
<1>6. Over(f, S \ {s}, n) \in Nat /\ f[t] <= Over(f, S \ {s}, n)
  <2>1. S \ {s} \in SUBSET (0 .. n - 1) /\ \A r \in S \ {s} : f[r] \in Nat
    BY <1>1
  <2> QED BY <1>4, <2>1, OverNat
<1>7. f[t] \in Nat \ {0}
  BY <1>1, <1>4
<1> QED BY <1>2, <1>3, <1>5, <1>6, <1>7

------------------------------------------------------------------------------
(* The leaves in package-merge's order.                                      *)
IsHistogram(hist, n) == n \in Nat /\ hist \in [0 .. n - 1 -> Nat]

Leaves(hist) == Cardinality(Active(hist))

LEMMA ActiveFacts ==
  ASSUME NEW n, NEW hist, IsHistogram(hist, n)
  PROVE  /\ Active(hist) \in SUBSET (0 .. n - 1) /\ DOMAIN hist = 0 .. n - 1
         /\ IsFiniteSet(Active(hist)) /\ Leaves(hist) \in Nat
         /\ \A s \in Active(hist) : hist[s] \in Nat /\ hist[s] > 0 /\ s \in Nat /\ s < n
<1>1. Active(hist) \in SUBSET (0 .. n - 1) /\ n \in Nat /\ DOMAIN hist = 0 .. n - 1
  BY DEF IsHistogram, Active
<1>2. \A s \in Active(hist) : hist[s] \in Nat /\ hist[s] > 0 /\ s \in Nat /\ s < n
  BY DEF IsHistogram, Active
<1> QED BY <1>1, <1>2, FiniteBelow DEF Leaves

LEMMA RankOrders ==
  ASSUME NEW n, NEW hist, IsHistogram(hist, n), NEW s \in Active(hist)
  PROVE  /\ Rank(hist, s) \in 1 .. Leaves(hist)
         /\ \A t \in Active(hist) :
              hist[t] < hist[s] \/ (hist[t] = hist[s] /\ t < s) => Rank(hist, t) < Rank(hist, s)
<1> DEFINE Leq(t, r) == hist[t] < hist[r] \/ (hist[t] = hist[r] /\ t <= r)
           Below(r) == {t \in Active(hist) : Leq(t, r)}
<1>1. /\ IsFiniteSet(Active(hist))
      /\ \A t \in Active(hist) : hist[t] \in Nat /\ t \in Nat
  BY ActiveFacts
<1>2. ASSUME NEW r \in Active(hist)
      PROVE  /\ IsFiniteSet(Below(r)) /\ Cardinality(Below(r)) \in Nat
             /\ Cardinality(Below(r)) <= Leaves(hist)
             /\ Rank(hist, r) = Cardinality(Below(r))
  <2>1. Below(r) \in SUBSET Active(hist)
    OBVIOUS
  <2>2. Rank(hist, r) = Cardinality(Below(r))
    BY DEF Rank
  <2> HIDE DEF Below
  <2> QED BY <1>1, <2>1, <2>2, FS_Subset, FS_CardinalityType DEF Leaves
<1>3. s \in Below(s)
  BY <1>1
<1>4. Rank(hist, s) \in 1 .. Leaves(hist)
  <2> HIDE DEF Below
  <2>1. Cardinality(Below(s)) # 0
    BY <1>2, <1>3, FS_EmptySet
  <2>2. Leaves(hist) \in Nat
    BY <1>1, FS_CardinalityType DEF Leaves
  <2> QED BY <1>2, <2>1, <2>2
<1>5. ASSUME NEW t \in Active(hist), hist[t] < hist[s] \/ (hist[t] = hist[s] /\ t < s)
      PROVE  Rank(hist, t) < Rank(hist, s)
  <2>1. Below(t) \in SUBSET Below(s) /\ s \notin Below(t)
    <3>1. ASSUME NEW r \in Active(hist), Leq(r, t) PROVE Leq(r, s)
      <4>1. /\ hist[r] \in Nat /\ hist[t] \in Nat /\ hist[s] \in Nat
            /\ r \in Nat /\ t \in Nat /\ s \in Nat
        BY <1>1
      <4> QED BY <1>5, <3>1, <4>1
    <3>2. ~ Leq(s, t)
      BY <1>1, <1>5
    <3> QED BY <3>1, <3>2
  <2> HIDE DEF Below
  <2>2. Cardinality(Below(t)) <= Cardinality(Below(s))
        /\ Cardinality(Below(t)) # Cardinality(Below(s))
    BY <1>2, <1>3, <2>1, FS_Subset
  <2> QED BY <1>2, <2>2
<1> QED BY <1>4, <1>5

LEMMA OrderedFacts ==
  ASSUME NEW n, NEW hist, IsHistogram(hist, n)
  PROVE  /\ Ordered(hist) \in [1 .. Leaves(hist) -> Active(hist)]
         /\ \A i \in 1 .. Leaves(hist) : Rank(hist, Ordered(hist)[i]) = i
         /\ \A s \in Active(hist) : Rank(hist, s) \in 1 .. Leaves(hist)
                                    /\ Ordered(hist)[Rank(hist, s)] = s
         /\ \A s, t \in Active(hist) : Rank(hist, s) <= Rank(hist, t) => hist[s] <= hist[t]
<1> DEFINE S == Active(hist)
           m == Leaves(hist)
           r == [s \in S |-> Rank(hist, s)]
<1>1. /\ IsFiniteSet(S) /\ m \in Nat
      /\ \A s \in S : hist[s] \in Nat /\ s \in Nat
  BY ActiveFacts
<1>2. \A s \in S : Rank(hist, s) \in 1 .. m
  BY RankOrders
<1>3. ASSUME NEW s \in S, NEW t \in S, hist[t] < hist[s] \/ (hist[t] = hist[s] /\ t < s)
      PROVE  Rank(hist, t) < Rank(hist, s)
  BY <1>3, RankOrders
<1>4. ASSUME NEW s \in S, NEW t \in S
      PROVE  /\ Rank(hist, s) = Rank(hist, t) => s = t
             /\ Rank(hist, s) <= Rank(hist, t) => hist[s] <= hist[t]
  <2> HIDE DEF S, m
  <2>0. /\ hist[s] \in Nat /\ hist[t] \in Nat /\ s \in Nat /\ t \in Nat
        /\ Rank(hist, s) \in Nat /\ Rank(hist, t) \in Nat
    BY <1>1, <1>2
  <2>1. \/ s = t
        \/ hist[t] < hist[s] \/ (hist[t] = hist[s] /\ t < s)
        \/ hist[s] < hist[t] \/ (hist[s] = hist[t] /\ s < t)
    BY <2>0
  <2>2. hist[t] < hist[s] \/ (hist[t] = hist[s] /\ t < s) => Rank(hist, t) < Rank(hist, s)
    BY <1>3
  <2>3. hist[s] < hist[t] \/ (hist[s] = hist[t] /\ s < t) => Rank(hist, s) < Rank(hist, t)
    BY <1>3
  <2> QED BY <2>0, <2>1, <2>2, <2>3
<1>5. \A i \in 1 .. m : \E s \in S : Rank(hist, s) = i
  <2> HIDE DEF S, m
  <2>1. r \in Injection(S, 1 .. m)
    BY <1>2, <1>4 DEF Injection, IsInjective
  <2>2. IsFiniteSet(1 .. m) /\ Cardinality(1 .. m) = m
    BY <1>1, FS_Interval
  <2>3. Cardinality(S) = m
    BY DEF S, m, Leaves
  <2> HIDE DEF r
  <2>4. r \in Surjection(S, 1 .. m)
    BY <2>1, <2>2, <2>3, FS_Injection
  <2> QED BY <2>4 DEF Surjection, r
<1>6. DOMAIN Ordered(hist) = 1 .. m /\ Ordered(hist) = [i \in 1 .. m |-> Ordered(hist)[i]]
  BY DEF Ordered, Leaves
<1>7. \A i \in 1 .. m : Ordered(hist)[i] = CHOOSE s \in S : Rank(hist, s) = i
  BY DEF Ordered, Leaves
<1> HIDE DEF S, m
<1>8. ASSUME NEW i \in 1 .. m
      PROVE  Ordered(hist)[i] \in S /\ Rank(hist, Ordered(hist)[i]) = i
  BY <1>5, <1>7
<1>9. ASSUME NEW s \in S PROVE Ordered(hist)[Rank(hist, s)] = s
  BY <1>2, <1>4, <1>8
<1>10. Ordered(hist) \in [1 .. m -> S]
  BY <1>6, <1>8
<1> QED BY <1>2, <1>4, <1>8, <1>9, <1>10 DEF S, m

(* The a lightest leaves.                                                    *)
Lightest(hist, a) == {s \in Active(hist) : Rank(hist, s) <= a}

LEMMA LightestFacts ==
  ASSUME NEW n, NEW hist, IsHistogram(hist, n), NEW a \in 0 .. Leaves(hist)
  PROVE  /\ Lightest(hist, a) \in SUBSET Active(hist)
         /\ Cardinality(Lightest(hist, a)) = a
         /\ \A w, f : /\ \A s \in Active(hist) : w[s] \in Nat
                      /\ \A i \in 1 .. Leaves(hist) : f[i] = w[Ordered(hist)[i]]
                      => Sum(f, a) = Over(w, Lightest(hist, a), n)
<1> DEFINE m == Leaves(hist)
           L(k) == Lightest(hist, k)
           Good(k) == /\ Cardinality(L(k)) = k
                      /\ \A w, f : /\ \A s \in Active(hist) : w[s] \in Nat
                                   /\ \A i \in 1 .. m : f[i] = w[Ordered(hist)[i]]
                                   => Sum(f, k) = Over(w, L(k), n)
           A == {k \in Nat : k <= m => Good(k)}
<1>1. /\ n \in Nat /\ m \in Nat /\ Active(hist) \in SUBSET (0 .. n - 1)
  BY ActiveFacts DEF IsHistogram
<1>2. \A k : L(k) \in SUBSET Active(hist)
  BY DEF Lightest
<1>3. 0 \in A
  <2>1. L(0) = {}
    BY OrderedFacts DEF Lightest
  <2> HIDE DEF L
  <2> QED BY <1>1, <2>1, FS_EmptySet, OverEmpty, SumEquations
<1>4. ASSUME NEW k \in A PROVE k + 1 \in A
  <2> SUFFICES ASSUME k + 1 <= m PROVE Good(k + 1)
    OBVIOUS
  <2>0. k \in Nat /\ k + 1 \in 1 .. m /\ Good(k)
    BY <1>1
  <2> HIDE DEF A, Good
  <2> DEFINE x == Ordered(hist)[k + 1]
  <2>1. x \in Active(hist) /\ Rank(hist, x) = k + 1
    BY <2>0, OrderedFacts
  <2>2. L(k + 1) = L(k) \cup {x} /\ x \notin L(k)
    <3>1. ASSUME NEW s \in Active(hist)
          PROVE  Rank(hist, s) <= k + 1 <=> Rank(hist, s) <= k \/ s = x
      <4>1. Rank(hist, s) \in Nat /\ (s = x <=> Rank(hist, s) = k + 1)
        BY <1>1, <2>0, <2>1, OrderedFacts
      <4> HIDE DEF x
      <4> QED BY <2>0, <4>1
    <3> HIDE DEF x
    <3>2. x \notin L(k)
      BY <2>0, <2>1 DEF Lightest
    <3> QED BY <2>1, <3>1, <3>2 DEF Lightest
  <2> HIDE DEF x, L
  <2>3. IsFiniteSet(L(k)) /\ L(k) \in SUBSET (0 .. n - 1) /\ x \in (0 .. n - 1) \ L(k)
    BY <1>1, <1>2, <2>1, <2>2, FiniteBelow
  <2>4. Cardinality(L(k + 1)) = k + 1
    BY <2>0, <2>2, <2>3, FS_AddElement DEF Good
  <2>5. ASSUME NEW w, NEW f, \A s \in Active(hist) : w[s] \in Nat,
               \A i \in 1 .. m : f[i] = w[Ordered(hist)[i]]
        PROVE  Sum(f, k + 1) = Over(w, L(k + 1), n)
    <3>1. Sum(f, k) = Over(w, L(k), n)
      BY <2>0, <2>5 DEF Good
    <3>2. Sum(f, k + 1) = Sum(f, k) + f[k + 1] /\ f[k + 1] = w[x]
      BY <2>0, <2>5, SumEquations DEF x
    <3>3. w[x] \in Nat /\ \A t \in L(k) : w[t] \in Nat
      BY <1>2, <2>1, <2>5
    <3>4. Over(w, L(k + 1), n) = Over(w, L(k), n) + w[x]
      <4>1. Over(w, L(k) \cup {x}, n) = Over(w, L(k), n) + w[x]
        BY ONLY <1>1, <2>3, <3>3, OverAdd
      <4> QED BY <2>2, <4>1
    <3> QED BY <3>1, <3>2, <3>4
  <2> QED BY <2>4, <2>5 DEF Good
<1>5. A = Nat
  <2> HIDE DEF A
  <2>1. A \in SUBSET Nat
    BY DEF A
  <2> QED BY <1>3, <1>4, <2>1, NatSetInduction
<1>6. Good(a)
  <2>1. a \in A
    <3> HIDE DEF A
    <3> QED BY <1>1, <1>5
  <2> HIDE DEF Good
  <2> QED BY <1>1, <2>1
<1> QED BY <1>2, <1>6

LEMMA LightestLeast ==
  ASSUME NEW n, NEW hist, IsHistogram(hist, n), NEW T \in SUBSET Active(hist)
  PROVE  /\ Cardinality(T) \in 0 .. Leaves(hist)
         /\ Over(hist, Lightest(hist, Cardinality(T)), n) <= Over(hist, T, n)
<1> DEFINE m == Leaves(hist)
           O(U) == Over(hist, U, n)
           L(k) == Lightest(hist, k)
           A == {k \in Nat : \A U \in SUBSET Active(hist) :
                               Cardinality(U) = k => k <= m /\ O(L(k)) <= O(U)}
<1>1. /\ n \in Nat /\ m \in Nat /\ Active(hist) \in SUBSET (0 .. n - 1)
      /\ IsFiniteSet(Active(hist)) /\ \A s \in Active(hist) : hist[s] \in Nat
  BY ActiveFacts DEF IsHistogram
<1>2. ASSUME NEW U \in SUBSET Active(hist)
      PROVE  /\ O(U) \in Nat /\ IsFiniteSet(U) /\ Cardinality(U) \in Nat
             /\ Cardinality(U) <= m
             /\ \A s \in U : O(U) = O(U \ {s}) + hist[s]
  <2>1. U \in SUBSET (0 .. n - 1) /\ \A s \in U : hist[s] \in Nat
    BY <1>1
  <2>2. O(U) \in Nat /\ \A s \in U : O(U) = O(U \ {s}) + hist[s]
    BY <1>1, <2>1, OverNat, OverRemove
  <2>3. IsFiniteSet(U) /\ Cardinality(U) <= m
    BY <1>1, FS_Subset DEF Leaves
  <2> QED BY <2>2, <2>3, FS_CardinalityType
<1>3. 0 \in A
  <2>1. ASSUME NEW U \in SUBSET Active(hist), Cardinality(U) = 0 PROVE O(L(0)) <= O(U)
    <3>1. L(0) = {} /\ U = {}
      <4>1. L(0) = {}
        BY OrderedFacts DEF Lightest
      <4> QED BY <1>2, <2>1, <4>1, FS_EmptySet
    <3>2. O({}) = 0
      BY <1>1, OverEmpty
    <3> QED BY <3>1, <3>2
  <2> QED BY <1>1, <2>1
<1>4. ASSUME NEW k \in A PROVE k + 1 \in A
  <2> SUFFICES ASSUME NEW U \in SUBSET Active(hist), Cardinality(U) = k + 1
               PROVE  k + 1 <= m /\ O(L(k + 1)) <= O(U)
    OBVIOUS
  <2>0. k \in Nat /\ k + 1 \in 1 .. m
    BY <1>1, <1>2
  <2>1. \E s \in U : Rank(hist, s) >= k + 1
    <3> SUFFICES ASSUME \A s \in U : ~ (Rank(hist, s) >= k + 1) PROVE FALSE
      OBVIOUS
    <3>1. U \in SUBSET L(k)
      BY <2>0, OrderedFacts DEF Lightest
    <3>2. Cardinality(L(k)) = k /\ L(k) \in SUBSET Active(hist)
      <4>1. k \in 0 .. m
        BY <2>0, <1>1
      <4> QED BY <4>1, LightestFacts
    <3>3. Cardinality(U) <= Cardinality(L(k))
      <4> HIDE DEF A, L
      <4>1. IsFiniteSet(L(k))
        BY <1>2, <3>2
      <4> QED BY <3>1, <4>1, FS_Subset
    <3> QED BY <2>0, <3>2, <3>3
  <2>2. PICK s \in U : Rank(hist, s) >= k + 1
    BY <2>1
  <2> DEFINE x == Ordered(hist)[k + 1]
  <2>3. x \in Active(hist) /\ Rank(hist, x) = k + 1
    BY <2>0, OrderedFacts
  <2>4. hist[x] <= hist[s] /\ hist[x] \in Nat /\ hist[s] \in Nat
    <3> HIDE DEF x
    <3>1. Rank(hist, x) <= Rank(hist, s)
      BY <2>0, <2>2, <2>3, OrderedFacts
    <3> QED BY <1>1, <2>3, <3>1, OrderedFacts
  <2>5. O(L(k)) <= O(U \ {s})
    <3>1. U \ {s} \in SUBSET Active(hist) /\ Cardinality(U \ {s}) = k
      <4>1. Cardinality(U \ {s}) = Cardinality(U) - 1
        BY <1>2, FS_RemoveElement
      <4> QED BY <2>0, <4>1
    <3> QED BY <3>1
  <2>6. O(L(k + 1)) = O(L(k)) + hist[x]
    <3> DEFINE f == [i \in 1 .. m |-> hist[Ordered(hist)[i]]]
    <3>1. \A i \in 1 .. m : f[i] = hist[Ordered(hist)[i]]
      OBVIOUS
    <3>2. f[k + 1] = hist[x]
      BY <2>0
    <3> HIDE DEF f, O, L, A, x
    <3>3. Sum(f, k) = Over(hist, L(k), n) /\ Sum(f, k + 1) = Over(hist, L(k + 1), n)
      <4>1. k \in 0 .. m /\ k + 1 \in 0 .. m
        BY <1>1, <2>0
      <4> QED BY <1>1, <3>1, <4>1, LightestFacts DEF L
    <3>4. Sum(f, k + 1) = Sum(f, k) + f[k + 1]
      BY <2>0, SumEquations
    <3> QED BY <3>2, <3>3, <3>4 DEF O
  <2>7. /\ O(U) = O(U \ {s}) + hist[s] /\ O(U \ {s}) \in Nat
        /\ O(L(k)) \in Nat
    <3>1. U \ {s} \in SUBSET Active(hist) /\ L(k) \in SUBSET Active(hist)
      BY DEF Lightest
    <3> HIDE DEF O, L, A
    <3> QED BY <1>2, <3>1
  <2> HIDE DEF O, L, A, x
  <2> QED BY <2>0, <2>4, <2>5, <2>6, <2>7
<1>5. A = Nat
  <2> HIDE DEF A
  <2>1. A \in SUBSET Nat
    BY DEF A
  <2> QED BY <1>3, <1>4, <2>1, NatSetInduction
<1>6. Cardinality(T) \in 0 .. m /\ O(L(Cardinality(T))) <= O(T)
  <2>1. Cardinality(T) \in A
    <3> HIDE DEF A, O
    <3> QED BY <1>2, <1>5
  <2> HIDE DEF O, L
  <2> QED BY <1>1, <2>1
<1> QED BY <1>6

------------------------------------------------------------------------------
(* The merge of two lists.                                                   *)
IsList(X, A) ==
  /\ X \in Seq([weight : Nat \ {0}, leaves : [A -> Nat]])
  /\ \A i, j \in 1 .. Len(X) : i <= j => X[i].weight <= X[j].weight

LEMMA ListTyped ==
  ASSUME NEW X, NEW A, IsList(X, A)
  PROVE  /\ Len(X) \in Nat
         /\ \A i \in 1 .. Len(X) : X[i] \in [weight : Nat \ {0}, leaves : [A -> Nat]]
<1> DEFINE R == [weight : Nat \ {0}, leaves : [A -> Nat]]
<1>1. X \in Seq(R)
  BY DEF IsList
<1> HIDE DEF R
<1>2. Len(X) \in Nat /\ \A i \in 1 .. Len(X) : X[i] \in R
  BY <1>1, ElementOfSeq
<1> QED BY <1>2 DEF R

(* g counts the leaves of the first items, up to n of them.                  *)
Counts(X, Y, g, n) ==
  g = [p \in 0 .. n |->
         IF p = 0 THEN 0
         ELSE LET a == g[p - 1] IN IF LeafNext(X, Y, a, p - 1 - a) THEN a + 1 ELSE a]

LEMMA CountsExist ==
  ASSUME NEW X, NEW Y, NEW n \in Nat
  PROVE  \E g : Counts(X, Y, g, n)
<1> DEFINE S == {m \in Nat : \E g : Counts(X, Y, g, m)}
           After(a, p) == IF LeafNext(X, Y, a, p - 1 - a) THEN a + 1 ELSE a
<1>1. 0 \in S
  <2> DEFINE g == [p \in 0 .. 0 |-> 0]
  <2>1. g = [p \in 0 .. 0 |-> IF p = 0 THEN 0 ELSE After(g[p - 1], p)]
    <3> HIDE DEF g, After
    <3>1. \A p \in 0 .. 0 : p = 0
      OBVIOUS
    <3> QED BY <3>1 DEF g
  <2> HIDE DEF g
  <2>2. Counts(X, Y, g, 0)
    BY <2>1 DEF Counts
  <2> QED BY <2>2
<1>2. ASSUME NEW m \in S PROVE m + 1 \in S
  <2>1. PICK g : Counts(X, Y, g, m)
    OBVIOUS
  <2>2. g = [p \in 0 .. m |-> IF p = 0 THEN 0 ELSE After(g[p - 1], p)]
    BY <2>1 DEF Counts
  <2> DEFINE h == [p \in 0 .. m + 1 |-> IF p = m + 1 THEN After(g[m], m + 1) ELSE g[p]]
  <2> HIDE DEF After
  <2>3. ASSUME NEW p \in 0 .. m + 1
        PROVE  h[p] = IF p = 0 THEN 0 ELSE After(h[p - 1], p)
    <3>1. CASE p = m + 1
      <4>1. p # 0 /\ p - 1 = m /\ m \in 0 .. m + 1 /\ m # m + 1
        BY <3>1
      <4> QED BY <3>1, <4>1
    <3>2. CASE p # m + 1
      <4>1. p \in 0 .. m /\ h[p] = g[p]
        BY <3>2
      <4>2. g[p] = IF p = 0 THEN 0 ELSE After(g[p - 1], p)
        BY <2>2, <4>1
      <4>3. p # 0 => p - 1 \in 0 .. m + 1 /\ p - 1 # m + 1
        BY <4>1
      <4> QED BY <4>1, <4>2, <4>3
    <3> QED BY <3>1, <3>2
  <2>4. h = [p \in 0 .. m + 1 |-> h[p]]
    OBVIOUS
  <2> HIDE DEF h
  <2>5. Counts(X, Y, h, m + 1)
    BY <2>3, <2>4 DEF Counts, After
  <2> QED BY <2>5
<1>3. S = Nat
  <2> HIDE DEF S
  <2>1. S \in SUBSET Nat
    BY DEF S
  <2> QED BY <1>1, <1>2, <2>1, NatSetInduction
<1> QED BY <1>3

(* One round of the merge, with a leaves and b packages taken.               *)
TakesLeaf(X, Y, a, b) ==
  a < Len(X) /\ (b < Len(Y) => X[a + 1].weight <= Y[b + 1].weight)

TakesPackage(X, Y, a, b) ==
  b < Len(Y) /\ (a < Len(X) => Y[b + 1].weight < X[a + 1].weight)

LEMMA MergeSteps ==
  ASSUME NEW A, NEW X, IsList(X, A), NEW Y, IsList(Y, A), NEW g, g = LeavesAmong(X, Y)
  PROVE  /\ g[0] = 0
         /\ \A p \in 0 .. Len(X) + Len(Y) : g[p] \in 0 .. Len(X) /\ p - g[p] \in 0 .. Len(Y)
         /\ \A p \in 0 .. Len(X) + Len(Y) - 1 :
              \/ g[p + 1] = g[p] + 1 /\ TakesLeaf(X, Y, g[p], p - g[p])
              \/ g[p + 1] = g[p] /\ TakesPackage(X, Y, g[p], p - g[p])
<1> DEFINE x == Len(X)
           y == Len(Y)
           n == x + y
           S == {p \in Nat : p <= n => g[p] \in 0 .. x /\ p - g[p] \in 0 .. y}
<1>1. /\ x \in Nat /\ y \in Nat /\ n \in Nat
      /\ \A i \in 1 .. x : X[i].weight \in Nat
      /\ \A j \in 1 .. y : Y[j].weight \in Nat
  <2>1. /\ x \in Nat /\ y \in Nat
        /\ \A i \in 1 .. x : X[i] \in [weight : Nat \ {0}, leaves : [A -> Nat]]
        /\ \A j \in 1 .. y : Y[j] \in [weight : Nat \ {0}, leaves : [A -> Nat]]
    BY ListTyped
  <2> QED BY <2>1
<1>2. Counts(X, Y, g, n)
  <2>1. \E f : Counts(X, Y, f, n)
    BY <1>1, CountsExist
  <2>2. g = CHOOSE f : Counts(X, Y, f, n)
    BY DEF LeavesAmong, Counts
  <2> HIDE DEF n
  <2> QED BY <2>1, <2>2
<1>3. g[0] = 0
  BY <1>1, <1>2 DEF Counts
<1>4. ASSUME NEW p \in Nat, p < n
      PROVE  g[p + 1] = IF LeafNext(X, Y, g[p], p - g[p]) THEN g[p] + 1 ELSE g[p]
  <2>1. p + 1 \in 0 .. n /\ p + 1 # 0 /\ (p + 1) - 1 = p
    BY <1>1, <1>4
  <2> QED BY <1>2, <2>1 DEF Counts
<1>5. ASSUME NEW p \in Nat, p < n, g[p] \in 0 .. x, p - g[p] \in 0 .. y
      PROVE  \/ g[p + 1] = g[p] + 1 /\ TakesLeaf(X, Y, g[p], p - g[p])
             \/ g[p + 1] = g[p] /\ TakesPackage(X, Y, g[p], p - g[p])
  <2>1. CASE LeafNext(X, Y, g[p], p - g[p])
    BY <1>4, <1>5, <2>1 DEF LeafNext, TakesLeaf
  <2>2. CASE ~ LeafNext(X, Y, g[p], p - g[p])
    <3>1. PICK a \in 0 .. x, b \in 0 .. y : a = g[p] /\ b = p - g[p]
      BY <1>5
    <3>2. ~ (a < x /\ (b < y => X[a + 1].weight <= Y[b + 1].weight))
      BY <2>2, <3>1 DEF LeafNext
    <3>3. a + b < n
      BY <1>1, <1>5, <3>1
    <3>4. a < x => X[a + 1].weight \in Nat
      BY <1>1
    <3>5. b < y => Y[b + 1].weight \in Nat
      BY <1>1
    <3>6. b < y /\ (a < x => Y[b + 1].weight < X[a + 1].weight)
      BY <1>1, <3>2, <3>3, <3>4, <3>5
    <3> QED BY <1>4, <1>5, <2>2, <3>1, <3>6 DEF TakesPackage
  <2> QED BY <2>1, <2>2
<1> HIDE DEF x, y
<1>6. 0 \in S
  BY <1>1, <1>3
<1>7. ASSUME NEW p \in S PROVE p + 1 \in S
  <2> SUFFICES ASSUME p + 1 <= n PROVE g[p + 1] \in 0 .. x /\ (p + 1) - g[p + 1] \in 0 .. y
    OBVIOUS
  <2>1. p \in Nat /\ p < n /\ g[p] \in 0 .. x /\ p - g[p] \in 0 .. y
    BY <1>1
  <2>2. \/ g[p + 1] = g[p] + 1 /\ g[p] < x
        \/ g[p + 1] = g[p] /\ p - g[p] < y
    BY <1>5, <2>1 DEF TakesLeaf, TakesPackage, x, y
  <2> HIDE DEF S
  <2> QED BY <1>1, <2>1, <2>2
<1>8. S = Nat
  <2> HIDE DEF S
  <2>1. S \in SUBSET Nat
    BY DEF S
  <2> QED BY <1>6, <1>7, <2>1, NatSetInduction
<1>9. \A p \in 0 .. n : g[p] \in 0 .. x /\ p - g[p] \in 0 .. y
  BY <1>1, <1>8
<1>10. ASSUME NEW p \in 0 .. n - 1
       PROVE  \/ g[p + 1] = g[p] + 1 /\ TakesLeaf(X, Y, g[p], p - g[p])
              \/ g[p + 1] = g[p] /\ TakesPackage(X, Y, g[p], p - g[p])
  <2>1. p \in Nat /\ p < n /\ p \in 0 .. n
    BY <1>1
  <2> QED BY <1>5, <1>9, <2>1
<1> QED BY <1>3, <1>9, <1>10 DEF x, y

LEMMA StepwiseAscending ==
  ASSUME NEW n \in Nat, NEW f, \A p \in 1 .. n : f[p] \in Nat,
         \A p \in 1 .. n - 1 : f[p] <= f[p + 1]
  PROVE  \A i, j \in 1 .. n : i <= j => f[i] <= f[j]
<1> SUFFICES ASSUME NEW i \in 1 .. n PROVE \A j \in 1 .. n : i <= j => f[i] <= f[j]
  OBVIOUS
<1> DEFINE S == {d \in Nat : i + d <= n => f[i] <= f[i + d]}
<1>1. 0 \in S
  OBVIOUS
<1>2. ASSUME NEW d \in S PROVE d + 1 \in S
  <2> SUFFICES ASSUME i + (d + 1) <= n PROVE f[i] <= f[i + (d + 1)]
    OBVIOUS
  <2>1. /\ i + d \in 1 .. n - 1 /\ i + d \in 1 .. n /\ i + (d + 1) = (i + d) + 1
        /\ i + (d + 1) \in 1 .. n
    OBVIOUS
  <2>2. f[i] <= f[i + d] /\ f[i + d] <= f[i + (d + 1)]
    BY <2>1
  <2>3. f[i] \in Nat /\ f[i + d] \in Nat /\ f[i + (d + 1)] \in Nat
    BY <2>1
  <2> QED BY <2>2, <2>3
<1>3. S = Nat
  <2> HIDE DEF S
  <2>1. S \in SUBSET Nat
    BY DEF S
  <2> QED BY <1>1, <1>2, <2>1, NatSetInduction
<1> SUFFICES ASSUME NEW j \in 1 .. n, i <= j PROVE f[i] <= f[j]
  OBVIOUS
<1>4. j - i \in S /\ i + (j - i) = j
  <2> HIDE DEF S
  <2> QED BY <1>3
<1> QED BY <1>4

(* h is the merge of X and Y, and g counts the leaves of its prefixes.       *)
Merges(X, Y, g, h) ==
  /\ g[0] = 0
  /\ \A p \in 0 .. Len(X) + Len(Y) : g[p] \in 0 .. Len(X) /\ p - g[p] \in 0 .. Len(Y)
  /\ \A p \in 0 .. Len(X) + Len(Y) - 1 :
       \/ /\ g[p + 1] = g[p] + 1 /\ h[p + 1] = X[g[p] + 1]
          /\ TakesLeaf(X, Y, g[p], p - g[p])
       \/ /\ g[p + 1] = g[p] /\ h[p + 1] = Y[p - g[p] + 1]
          /\ TakesPackage(X, Y, g[p], p - g[p])

LEMMA MergedMerges ==
  ASSUME NEW A, NEW X, IsList(X, A), NEW Y, IsList(Y, A)
  PROVE  /\ Merges(X, Y, LeavesAmong(X, Y), Merged(X, Y))
         /\ IsList(Merged(X, Y), A) /\ Len(Merged(X, Y)) = Len(X) + Len(Y)
<1> DEFINE x == Len(X)
           y == Len(Y)
           n == x + y
           g == LeavesAmong(X, Y)
           h == Merged(X, Y)
           R == [weight : Nat \ {0}, leaves : [A -> Nat]]
<1>1. /\ x \in Nat /\ y \in Nat /\ n \in Nat
      /\ \A i \in 1 .. x : X[i] \in R /\ X[i].weight \in Nat \ {0}
      /\ \A j \in 1 .. y : Y[j] \in R /\ Y[j].weight \in Nat \ {0}
  <2>1. /\ x \in Nat /\ y \in Nat
        /\ \A i \in 1 .. x : X[i] \in R
        /\ \A j \in 1 .. y : Y[j] \in R
    BY ListTyped
  <2> QED BY <2>1
<1>2. h = [p \in 1 .. n |-> IF g[p] > g[p - 1] THEN X[g[p]] ELSE Y[p - g[p]]]
  BY DEF Merged
<1> HIDE DEF g, h
<1>3. /\ g[0] = 0
      /\ \A p \in 0 .. n : g[p] \in 0 .. x /\ p - g[p] \in 0 .. y
      /\ \A p \in 0 .. n - 1 :
              \/ g[p + 1] = g[p] + 1 /\ TakesLeaf(X, Y, g[p], p - g[p])
              \/ g[p + 1] = g[p] /\ TakesPackage(X, Y, g[p], p - g[p])
  BY MergeSteps DEF g
<1> HIDE DEF R
<1>4. ASSUME NEW p \in 0 .. n - 1
      PROVE  \/ /\ g[p + 1] = g[p] + 1 /\ h[p + 1] = X[g[p] + 1]
                /\ TakesLeaf(X, Y, g[p], p - g[p])
             \/ /\ g[p + 1] = g[p] /\ h[p + 1] = Y[p - g[p] + 1]
                /\ TakesPackage(X, Y, g[p], p - g[p])
  <2>1. p \in 0 .. n /\ p + 1 \in 1 .. n /\ (p + 1) - 1 = p /\ p \in Nat
    BY <1>1
  <2>2. PICK a \in 0 .. x : a = g[p] /\ p - a \in 0 .. y
    BY <1>3, <2>1
  <2>3. h[p + 1] = IF g[p + 1] > a THEN X[g[p + 1]] ELSE Y[(p + 1) - g[p + 1]]
    BY <1>2, <2>1, <2>2
  <2>4. CASE g[p + 1] = a + 1 /\ TakesLeaf(X, Y, a, p - a)
    <3>1. g[p + 1] > a
      BY <2>4, <1>1
    <3> QED BY <2>2, <2>3, <2>4, <3>1
  <2>5. CASE g[p + 1] = a /\ TakesPackage(X, Y, a, p - a)
    <3>1. ~ (g[p + 1] > a) /\ (p + 1) - a = p - a + 1
      BY <2>1, <2>5, <1>1
    <3> QED BY <2>2, <2>3, <2>5, <3>1
  <2> QED BY <1>3, <2>2, <2>4, <2>5
<1>5. Merges(X, Y, g, h)
  BY <1>3, <1>4 DEF Merges
<1>6. ASSUME NEW q \in 1 .. n PROVE h[q] \in R /\ h[q].weight \in Nat
  <2>1. PICK p \in 0 .. n - 1 : q = p + 1 /\ p \in 0 .. n
    <3>1. q - 1 \in 0 .. n - 1 /\ q - 1 \in 0 .. n /\ q = (q - 1) + 1
      BY <1>1
    <3> QED BY <3>1
  <2>2. PICK a \in 0 .. x, b \in 0 .. y : a = g[p] /\ b = p - g[p]
    BY <1>3, <2>1
  <2>3. CASE h[q] = X[a + 1] /\ a < x
    <3>1. a + 1 \in 1 .. x
      BY <1>1, <2>3
    <3> QED BY <1>1, <2>3, <3>1
  <2>4. CASE h[q] = Y[b + 1] /\ b < y
    <3>1. b + 1 \in 1 .. y
      BY <1>1, <2>4
    <3> QED BY <1>1, <2>4, <3>1
  <2> QED BY <1>4, <2>1, <2>2, <2>3, <2>4 DEF TakesLeaf, TakesPackage
<1>7. h \in Seq(R) /\ Len(h) = n
  <2>1. h \in [1 .. n -> R]
    BY <1>2, <1>6
  <2> QED BY <1>1, <2>1
<1>8. ASSUME NEW q \in 1 .. n - 1 PROVE h[q].weight <= h[q + 1].weight
  <2>0. PICK p \in 0 .. n - 1 : q = p + 1 /\ p + 1 \in 0 .. n - 1 /\ p \in 0 .. n /\ p + 1 \in 0 .. n
    <3>1. q - 1 \in 0 .. n - 1 /\ q - 1 \in 0 .. n /\ q = (q - 1) + 1
          /\ q \in 0 .. n - 1 /\ q \in 0 .. n
      BY <1>1
    <3> QED BY <3>1
  <2>1. PICK a \in 0 .. x, b \in 0 .. y : a = g[p] /\ b = p - g[p]
    BY <1>3, <2>0
  <2>2. PICK c \in 0 .. x, d \in 0 .. y : c = g[p + 1] /\ d = (p + 1) - g[p + 1]
    BY <1>3, <2>0
  <2>3. /\ \A i, j \in 1 .. x : i <= j => X[i].weight <= X[j].weight
        /\ \A i, j \in 1 .. y : i <= j => Y[i].weight <= Y[j].weight
    BY DEF IsList
  <2>4. \/ h[q + 1] = X[c + 1] /\ TakesLeaf(X, Y, c, d)
        \/ h[q + 1] = Y[d + 1] /\ TakesPackage(X, Y, c, d)
    BY <1>4, <2>0, <2>2
  <2>5. CASE c = a + 1 /\ h[q] = X[a + 1] /\ TakesLeaf(X, Y, a, b)
    <3>1. d = b
      BY <1>1, <2>0, <2>1, <2>2, <2>5
    <3>2. c < x => c \in 1 .. x /\ c + 1 \in 1 .. x /\ c <= c + 1
      BY <1>1, <2>5
    <3>3. c < x => X[c].weight <= X[c + 1].weight
      BY <2>3, <3>2
    <3> QED BY <2>4, <2>5, <3>1, <3>3 DEF TakesLeaf, TakesPackage
  <2>6. CASE c = a /\ h[q] = Y[b + 1] /\ TakesPackage(X, Y, a, b)
    <3>1. d = b + 1
      BY <1>1, <2>0, <2>1, <2>2, <2>6
    <3>2. d < y => d \in 1 .. y /\ d + 1 \in 1 .. y /\ d <= d + 1
      BY <1>1, <3>1
    <3>3. d < y => Y[d].weight <= Y[d + 1].weight
      BY <2>3, <3>2
    <3>4. b < y /\ (a < x => Y[b + 1].weight < X[a + 1].weight)
      BY <2>6 DEF TakesPackage
    <3>5. a < x => X[a + 1].weight \in Nat
      BY <1>1
    <3>6. b + 1 \in 1 .. y /\ Y[b + 1].weight \in Nat
      BY <1>1, <3>4
    <3>7. CASE h[q + 1] = X[c + 1] /\ c < x
      <4>1. h[q] = Y[b + 1] /\ h[q + 1] = X[a + 1] /\ a < x
        BY ONLY <2>6, <3>7
      <4> HIDE DEF h, x, y
      <4>2. /\ Y[b + 1].weight < X[a + 1].weight
            /\ X[a + 1].weight \in Nat /\ Y[b + 1].weight \in Nat
        BY ONLY <3>4, <3>5, <3>6, <4>1
      <4>3. Y[b + 1].weight <= X[a + 1].weight
        BY ONLY <4>2
      <4> QED BY ONLY <4>1, <4>3
    <3>8. CASE h[q + 1] = Y[d + 1] /\ d < y
      <4> HIDE DEF h, x, y
      <4>1. h[q] = Y[d] /\ h[q + 1] = Y[d + 1] /\ Y[d].weight <= Y[d + 1].weight
        BY ONLY <2>6, <3>1, <3>3, <3>8
      <4> QED BY ONLY <4>1
    <3> QED BY <2>4, <3>7, <3>8 DEF TakesLeaf, TakesPackage
  <2> QED BY <1>4, <2>0, <2>1, <2>2, <2>5, <2>6
<1>9. \A i, j \in 1 .. n : i <= j => h[i].weight <= h[j].weight
  <2> DEFINE f == [q \in 1 .. n |-> h[q].weight]
  <2>1. /\ \A q \in 1 .. n : f[q] \in Nat
        /\ \A q \in 1 .. n - 1 : f[q] <= f[q + 1]
    BY <1>1, <1>6, <1>8
  <2>2. \A i, j \in 1 .. n : i <= j => f[i] <= f[j]
    <3> HIDE DEF f
    <3> QED BY <1>1, <2>1, StepwiseAscending
  <2> QED BY <2>2
<1> QED BY <1>5, <1>7, <1>9 DEF IsList, R, x, y, g, h

(* u, v and w number the items of X, Y and h; an item has one number.        *)
Numbers(X, Y, h, u, v, w) ==
  /\ \A i \in 1 .. Len(X) : u[i] \in Nat
  /\ \A j \in 1 .. Len(Y) : v[j] \in Nat
  /\ \A p \in 1 .. Len(X) + Len(Y) :
       /\ \A i \in 1 .. Len(X) : h[p] = X[i] => w[p] = u[i]
       /\ \A j \in 1 .. Len(Y) : h[p] = Y[j] => w[p] = v[j]

(* A total over the first items of a merge is that of the leaves and that of *)
(* the packages among them.                                                  *)
LEMMA MergeTotals ==
  ASSUME NEW A, NEW X, IsList(X, A), NEW Y, IsList(Y, A), NEW g, NEW h, Merges(X, Y, g, h),
         NEW u, NEW v, NEW w, Numbers(X, Y, h, u, v, w)
  PROVE  \A t \in 0 .. Len(X) + Len(Y) : Sum(w, t) = Sum(u, g[t]) + Sum(v, t - g[t])
<1> DEFINE x == Len(X)
           y == Len(Y)
           n == x + y
           S == {t \in Nat : t <= n => Sum(w, t) = Sum(u, g[t]) + Sum(v, t - g[t])}
<1>1. x \in Nat /\ y \in Nat /\ n \in Nat
  BY ListTyped
<1>2. ASSUME NEW a \in 0 .. x PROVE Sum(u, a) \in Nat
  <2>1. a \in Nat /\ \A i \in 1 .. a : u[i] \in Nat
    BY <1>1 DEF Numbers
  <2> QED BY <2>1, SumNat
<1>3. ASSUME NEW b \in 0 .. y PROVE Sum(v, b) \in Nat
  <2>1. b \in Nat /\ \A i \in 1 .. b : v[i] \in Nat
    BY <1>1 DEF Numbers
  <2> QED BY <2>1, SumNat
<1>4. 0 \in S
  <2>1. g[0] = 0 /\ 0 - 0 = 0
    BY DEF Merges
  <2> QED BY <2>1, SumEquations
<1>5. ASSUME NEW t \in S PROVE t + 1 \in S
  <2> SUFFICES ASSUME t + 1 <= n
               PROVE  Sum(w, t + 1) = Sum(u, g[t + 1]) + Sum(v, (t + 1) - g[t + 1])
    OBVIOUS
  <2>1. t \in Nat /\ t \in 0 .. n - 1 /\ t \in 0 .. n /\ t + 1 \in 1 .. n
        /\ Sum(w, t) = Sum(u, g[t]) + Sum(v, t - g[t])
    BY <1>1
  <2> HIDE DEF S
  <2>2. PICK a \in 0 .. x, b \in 0 .. y : a = g[t] /\ b = t - g[t] /\ a \in Nat /\ b \in Nat
    BY <1>1, <2>1 DEF Merges
  <2>3. Sum(w, t + 1) = Sum(w, t) + w[t + 1]
    BY <2>1, SumEquations
  <2>4. CASE g[t + 1] = a + 1 /\ h[t + 1] = X[a + 1] /\ TakesLeaf(X, Y, a, b)
    <3>0. a < x
      BY <2>4 DEF TakesLeaf
    <3>1. a + 1 \in 1 .. x /\ (t + 1) - (a + 1) = b
      <4>1. b = t - a /\ a \in Nat /\ b \in Nat /\ t \in Nat
        BY <2>1, <2>2
      <4> HIDE DEF x
      <4> QED BY ONLY <1>1, <3>0, <4>1
    <3>2. w[t + 1] = u[a + 1] /\ u[a + 1] \in Nat
      BY <2>1, <2>4, <3>1 DEF Numbers
    <3>3. Sum(u, a + 1) = Sum(u, a) + u[a + 1]
      BY <2>2, SumEquations
    <3>4. Sum(w, t) = Sum(u, a) + Sum(v, b) /\ Sum(u, a) \in Nat /\ Sum(v, b) \in Nat
      BY <1>2, <1>3, <2>1, <2>2
    <3>5. Sum(w, t + 1) = Sum(u, a + 1) + Sum(v, b)
      BY ONLY <2>3, <3>2, <3>3, <3>4
    <3> QED BY <2>4, <3>1, <3>5
  <2>5. CASE g[t + 1] = a /\ h[t + 1] = Y[b + 1] /\ TakesPackage(X, Y, a, b)
    <3>0. b < y
      BY <2>5 DEF TakesPackage
    <3>1. b + 1 \in 1 .. y /\ (t + 1) - a = b + 1
      <4>1. b = t - a /\ a \in Nat /\ b \in Nat /\ t \in Nat
        BY <2>1, <2>2
      <4> HIDE DEF y
      <4> QED BY ONLY <1>1, <3>0, <4>1
    <3>2. w[t + 1] = v[b + 1] /\ v[b + 1] \in Nat
      BY <2>1, <2>5, <3>1 DEF Numbers
    <3>3. Sum(v, b + 1) = Sum(v, b) + v[b + 1]
      BY <2>2, SumEquations
    <3>4. Sum(w, t) = Sum(u, a) + Sum(v, b) /\ Sum(u, a) \in Nat /\ Sum(v, b) \in Nat
      BY <1>2, <1>3, <2>1, <2>2
    <3>5. Sum(w, t + 1) = Sum(u, a) + Sum(v, b + 1)
      BY ONLY <2>3, <3>2, <3>3, <3>4
    <3> QED BY <2>5, <3>1, <3>5
  <2> QED BY <2>1, <2>2, <2>4, <2>5 DEF Merges
<1>6. S = Nat
  <2> HIDE DEF S
  <2>1. S \in SUBSET Nat
    BY DEF S
  <2> QED BY <1>4, <1>5, <2>1, NatSetInduction
<1> QED BY <1>1, <1>6

(* No other choice of leaves and packages, the first of each, is lighter.    *)
LEMMA MergeLeast ==
  ASSUME NEW A, NEW X, IsList(X, A), NEW Y, IsList(Y, A), NEW g, NEW h, Merges(X, Y, g, h),
         NEW u, \A i \in 1 .. Len(X) : u[i] = X[i].weight,
         NEW v, \A j \in 1 .. Len(Y) : v[j] = Y[j].weight,
         NEW w, \A p \in 1 .. Len(X) + Len(Y) : w[p] = h[p].weight /\ w[p] \in Nat
  PROVE  \A a \in 0 .. Len(X) : \A b \in 0 .. Len(Y) : Sum(w, a + b) <= Sum(u, a) + Sum(v, b)
<1> DEFINE x == Len(X)
           y == Len(Y)
           n == x + y
           Good(t) == \A a \in 0 .. x : \A b \in 0 .. y :
                        a + b = t => Sum(w, t) <= Sum(u, a) + Sum(v, b)
           S == {t \in Nat : Good(t)}
<1> HIDE DEF S
<1>1. /\ x \in Nat /\ y \in Nat /\ n \in Nat
      /\ \A i \in 1 .. x : u[i] \in Nat
      /\ \A j \in 1 .. y : v[j] \in Nat
  <2>1. /\ x \in Nat /\ y \in Nat
        /\ \A i \in 1 .. x : X[i].weight \in Nat
        /\ \A j \in 1 .. y : Y[j].weight \in Nat
    BY ListTyped
  <2>2. ASSUME NEW i \in 1 .. x PROVE u[i] \in Nat
    BY <2>1
  <2>3. ASSUME NEW j \in 1 .. y PROVE v[j] \in Nat
    BY <2>1
  <2>4. n \in Nat
    BY <2>1
  <2> QED BY <2>1, <2>2, <2>3, <2>4
<1>2. /\ \A i, j \in 1 .. x : i <= j => u[i] <= u[j]
      /\ \A i, j \in 1 .. y : i <= j => v[i] <= v[j]
  BY DEF IsList
<1>3. ASSUME NEW a \in 0 .. x PROVE Sum(u, a) \in Nat
  <2>1. a \in Nat /\ \A i \in 1 .. a : u[i] \in Nat
    BY <1>1
  <2> QED BY <2>1, SumNat
<1>4. ASSUME NEW b \in 0 .. y PROVE Sum(v, b) \in Nat
  <2>1. b \in Nat /\ \A i \in 1 .. b : v[i] \in Nat
    BY <1>1
  <2> QED BY <2>1, SumNat
<1>5. 0 \in S
  <2> SUFFICES ASSUME NEW a \in 0 .. x, NEW b \in 0 .. y
               PROVE  Sum(w, 0) <= Sum(u, a) + Sum(v, b)
    BY DEF S
  <2> QED BY <1>3, <1>4, SumEquations
<1>6. ASSUME NEW t \in S PROVE t + 1 \in S
  <2>0. t \in Nat /\ Good(t)
    BY DEF S
  <2> SUFFICES ASSUME NEW a \in 0 .. x, NEW b \in 0 .. y, a + b = t + 1
               PROVE  Sum(w, t + 1) <= Sum(u, a) + Sum(v, b)
    BY <2>0 DEF S
  <2>1. t \in Nat /\ t \in 0 .. n - 1 /\ t \in 0 .. n /\ t + 1 \in 1 .. n
    BY <1>1, <2>0
  <2>2. PICK c \in 0 .. x, d \in 0 .. y : c = g[t] /\ d = t - g[t] /\ c \in Nat /\ d \in Nat
    BY <1>1, <2>1 DEF Merges
  <2>3. Sum(w, t + 1) = Sum(w, t) + w[t + 1]
    BY <2>1, SumEquations
  <2>4. ASSUME a >= 1, w[t + 1] <= u[a], w[t + 1] \in Nat
        PROVE  Sum(w, t + 1) <= Sum(u, a) + Sum(v, b)
    <3>1. a - 1 \in 0 .. x /\ (a - 1) + b = t /\ (a - 1) + 1 = a /\ a - 1 \in Nat /\ a \in 1 .. x
      BY ONLY <1>1, <2>1, <2>4, a \in 0 .. x, b \in 0 .. y, a + b = t + 1
    <3>2. Sum(w, t) <= Sum(u, a - 1) + Sum(v, b)
      BY <2>0, <3>1
    <3>3. Sum(u, a) = Sum(u, a - 1) + u[a] /\ u[a] \in Nat
      BY <1>1, <3>1, SumEquations
    <3>4. Sum(w, t) \in Int
      <4>1. \A p \in 1 .. t : w[p] \in Nat
        BY <1>1, <2>1
      <4> QED BY <2>1, <4>1, SumNat
    <3>5. Sum(u, a - 1) \in Nat /\ Sum(v, b) \in Nat
      BY <1>3, <1>4, <3>1
    <3> QED BY ONLY <2>3, <2>4, <3>2, <3>3, <3>4, <3>5
  <2>5. ASSUME b >= 1, w[t + 1] <= v[b], w[t + 1] \in Nat
        PROVE  Sum(w, t + 1) <= Sum(u, a) + Sum(v, b)
    <3>1. b - 1 \in 0 .. y /\ a + (b - 1) = t /\ (b - 1) + 1 = b /\ b - 1 \in Nat /\ b \in 1 .. y
      BY ONLY <1>1, <2>1, <2>5, a \in 0 .. x, b \in 0 .. y, a + b = t + 1
    <3>2. Sum(w, t) <= Sum(u, a) + Sum(v, b - 1)
      BY <2>0, <3>1
    <3>3. Sum(v, b) = Sum(v, b - 1) + v[b] /\ v[b] \in Nat
      BY <1>1, <3>1, SumEquations
    <3>4. Sum(w, t) \in Int
      <4>1. \A p \in 1 .. t : w[p] \in Nat
        BY <1>1, <2>1
      <4> QED BY <2>1, <4>1, SumNat
    <3>5. Sum(u, a) \in Nat /\ Sum(v, b - 1) \in Nat
      BY <1>3, <1>4, <3>1
    <3> QED BY ONLY <2>3, <2>5, <3>2, <3>3, <3>4, <3>5
  <2>6. CASE h[t + 1] = X[c + 1] /\ TakesLeaf(X, Y, c, d)
    <3>1. /\ c + 1 \in 1 .. x /\ w[t + 1] = u[c + 1] /\ w[t + 1] \in Nat
          /\ d < y => d + 1 \in 1 .. y /\ u[c + 1] <= v[d + 1]
      <4>1. c + 1 \in 1 .. x /\ (d < y => d + 1 \in 1 .. y)
        BY <1>1, <2>2, <2>6 DEF TakesLeaf
      <4> QED BY <1>1, <2>1, <2>6, <4>1 DEF TakesLeaf
    <3>2. CASE a >= c + 1
      <4>1. a \in 1 .. x /\ a >= 1
        BY <1>1, <2>2, <3>2
      <4> QED BY <1>2, <2>4, <3>1, <3>2, <4>1
    <3>3. CASE a <= c
      <4>1. b >= d + 1 /\ b \in 1 .. y /\ b >= 1 /\ d < y
        BY <1>1, <2>1, <2>2, <3>3
      <4>2. u[c + 1] <= v[d + 1] /\ v[d + 1] <= v[b]
        BY <1>2, <3>1, <4>1
      <4>3. w[t + 1] <= v[b]
        BY <1>1, <3>1, <4>1, <4>2
      <4> QED BY <2>5, <3>1, <4>1, <4>3
    <3> QED BY <1>1, <2>2, <3>2, <3>3
  <2>7. CASE h[t + 1] = Y[d + 1] /\ TakesPackage(X, Y, c, d)
    <3>1. /\ d + 1 \in 1 .. y /\ w[t + 1] = v[d + 1] /\ w[t + 1] \in Nat
          /\ c < x => c + 1 \in 1 .. x /\ v[d + 1] < u[c + 1]
      <4>1. d + 1 \in 1 .. y /\ (c < x => c + 1 \in 1 .. x)
        <5>1. d < y
          BY <2>7 DEF TakesPackage
        <5> QED BY ONLY <1>1, <2>2, <5>1, c \in 0 .. x, d \in 0 .. y
      <4> QED BY <1>1, <2>1, <2>7, <4>1 DEF TakesPackage
    <3>2. CASE b >= d + 1
      <4>1. b \in 1 .. y /\ b >= 1
        BY <1>1, <2>2, <3>2
      <4> QED BY <1>2, <2>5, <3>1, <3>2, <4>1
    <3>3. CASE b <= d
      <4>1. a >= c + 1 /\ a \in 1 .. x /\ a >= 1 /\ c < x
        BY <1>1, <2>1, <2>2, <3>3
      <4>2. v[d + 1] < u[c + 1] /\ u[c + 1] <= u[a]
        BY <1>2, <3>1, <4>1
      <4>3. w[t + 1] <= u[a]
        BY <1>1, <3>1, <4>1, <4>2
      <4> QED BY <2>4, <3>1, <4>1, <4>3
    <3> QED BY <1>1, <2>2, <3>2, <3>3
  <2> QED BY <2>1, <2>2, <2>6, <2>7 DEF Merges
<1>7. S = Nat
  <2>1. S \in SUBSET Nat
    BY DEF S
  <2> QED BY <1>5, <1>6, <2>1, NatSetInduction
<1> SUFFICES ASSUME NEW a \in 0 .. x, NEW b \in 0 .. y
             PROVE  Sum(w, a + b) <= Sum(u, a) + Sum(v, b)
  OBVIOUS
<1>8. a + b \in S
  BY <1>1, <1>7
<1> QED BY <1>8 DEF S

(* Where a prefix ends: its last leaf is no heavier than its last item, and  *)
(* the next leaf is heavier than its last package.                           *)
LEMMA MergeBounds ==
  ASSUME NEW A, NEW X, IsList(X, A), NEW Y, IsList(Y, A), NEW g, NEW h, Merges(X, Y, g, h),
         \A p, q \in 1 .. Len(X) + Len(Y) :
           h[p].weight \in Nat /\ (p <= q => h[p].weight <= h[q].weight)
  PROVE  \A t \in 0 .. Len(X) + Len(Y) :
           /\ g[t] >= 1 => X[g[t]].weight <= h[t].weight
           /\ g[t] < Len(X) /\ t - g[t] >= 1 => Y[t - g[t]].weight < X[g[t] + 1].weight
<1> DEFINE x == Len(X)
           y == Len(Y)
           n == x + y
           Good(t, a, b) == /\ a >= 1 => X[a].weight <= h[t].weight
                            /\ a < x /\ b >= 1 => Y[b].weight < X[a + 1].weight
           S == {t \in Nat : t <= n => Good(t, g[t], t - g[t])}
<1>1. /\ x \in Nat /\ y \in Nat /\ n \in Nat
      /\ \A i \in 1 .. x : X[i].weight \in Nat
      /\ \A j \in 1 .. y : Y[j].weight \in Nat
  BY ListTyped
<1>2. \A i, j \in 1 .. x : i <= j => X[i].weight <= X[j].weight
  BY DEF IsList
<1>3. 0 \in S
  <2>1. g[0] = 0 /\ 0 - 0 = 0
    BY DEF Merges
  <2> QED BY <2>1
<1>4. ASSUME NEW t \in S PROVE t + 1 \in S
  <2> SUFFICES ASSUME t + 1 <= n PROVE Good(t + 1, g[t + 1], (t + 1) - g[t + 1])
    OBVIOUS
  <2>1. t \in Nat /\ t \in 0 .. n - 1 /\ t \in 0 .. n /\ t + 1 \in 1 .. n
        /\ Good(t, g[t], t - g[t])
    BY <1>1
  <2> HIDE DEF S, Good
  <2>2. PICK a \in 0 .. x, b \in 0 .. y : a = g[t] /\ b = t - g[t] /\ a \in Nat /\ b \in Nat
    BY <1>1, <2>1 DEF Merges
  <2>3. Good(t, a, b)
    BY <2>1, <2>2
  <2>4. CASE g[t + 1] = a + 1 /\ h[t + 1] = X[a + 1] /\ TakesLeaf(X, Y, a, b)
    <3>1. a + 1 \in 1 .. x /\ (t + 1) - (a + 1) = b /\ a < x
      <4>1. a < x
        BY <2>4 DEF TakesLeaf
      <4>2. t \in Nat /\ b = t - a
        BY <2>1, <2>2
      <4> HIDE DEF x, y, n
      <4> QED BY ONLY <1>1, <2>2, <4>1, <4>2
    <3>2. a + 1 < x => (a + 1) + 1 \in 1 .. x /\ X[a + 1].weight <= X[(a + 1) + 1].weight
      <4>1. a + 1 < x => (a + 1) + 1 \in 1 .. x /\ a + 1 <= (a + 1) + 1
        BY ONLY <1>1, <2>2
      <4> QED BY <1>2, <3>1, <4>1
    <3>3. b >= 1 => b \in 1 .. y
      BY <1>1
    <3>4. Good(t + 1, a + 1, b)
      BY <1>1, <2>1, <2>3, <2>4, <3>1, <3>2, <3>3 DEF Good
    <3> QED BY <2>4, <3>1, <3>4
  <2>5. CASE g[t + 1] = a /\ h[t + 1] = Y[b + 1] /\ TakesPackage(X, Y, a, b)
    <3>1. b + 1 \in 1 .. y /\ (t + 1) - a = b + 1
      <4>1. b < y
        BY <2>5 DEF TakesPackage
      <4>2. t \in Nat /\ b = t - a
        BY <2>1, <2>2
      <4> HIDE DEF x, y, n
      <4> QED BY ONLY <1>1, <2>2, <4>1, <4>2
    <3>2. a >= 1 => /\ a \in 1 .. x /\ t \in 1 .. n /\ t + 1 \in 1 .. n /\ t <= t + 1
                    /\ h[t].weight <= h[t + 1].weight
      BY <1>1, <2>1, <2>2
    <3>3. Good(t + 1, a, b + 1)
      BY <1>1, <2>1, <2>3, <2>5, <3>1, <3>2 DEF Good, TakesPackage
    <3> QED BY <2>5, <3>1, <3>3
  <2> QED BY <2>1, <2>2, <2>4, <2>5 DEF Merges
<1>5. S = Nat
  <2> HIDE DEF S
  <2>1. S \in SUBSET Nat
    BY DEF S
  <2> QED BY <1>3, <1>4, <2>1, NatSetInduction
<1> SUFFICES ASSUME NEW t \in 0 .. n PROVE Good(t, g[t], t - g[t])
  OBVIOUS
<1>6. t \in S /\ t <= n
  <2> HIDE DEF S, Good
  <2> QED BY <1>1, <1>5
<1> HIDE DEF Good
<1> QED BY <1>6

------------------------------------------------------------------------------
(* Packages and levels.                                                      *)
LEMMA PairTotals ==
  ASSUME NEW b \in Nat, NEW u, \A i \in 1 .. 2 * b : u[i] \in Nat,
         NEW v, \A j \in 1 .. b : v[j] = u[2 * j - 1] + u[2 * j]
  PROVE  Sum(v, b) = Sum(u, 2 * b)
<1> DEFINE S == {c \in Nat : c <= b => Sum(u, 2 * c) \in Nat /\ Sum(v, c) = Sum(u, 2 * c)}
<1>1. 0 \in S
  <2>1. 2 * 0 = 0
    OBVIOUS
  <2> QED BY <2>1, SumEquations
<1>2. ASSUME NEW c \in S PROVE c + 1 \in S
  <2> SUFFICES ASSUME c + 1 <= b
               PROVE  /\ Sum(u, 2 * (c + 1)) \in Nat
                      /\ Sum(v, c + 1) = Sum(u, 2 * (c + 1))
    OBVIOUS
  <2>1. /\ c \in Nat /\ c + 1 \in 1 .. b /\ 2 * c \in Nat /\ 2 * c + 1 \in Nat
        /\ 2 * (c + 1) = (2 * c + 1) + 1 /\ 2 * (c + 1) - 1 = 2 * c + 1
        /\ 2 * c + 1 \in 1 .. 2 * b /\ (2 * c + 1) + 1 \in 1 .. 2 * b
    OBVIOUS
  <2>2. Sum(u, 2 * c) \in Nat /\ Sum(v, c) = Sum(u, 2 * c)
    OBVIOUS
  <2> HIDE DEF S
  <2>3. /\ Sum(v, c + 1) = Sum(v, c) + v[c + 1]
        /\ Sum(u, 2 * c + 1) = Sum(u, 2 * c) + u[2 * c + 1]
        /\ Sum(u, (2 * c + 1) + 1) = Sum(u, 2 * c + 1) + u[(2 * c + 1) + 1]
    BY <2>1, SumEquations
  <2>4. v[c + 1] = u[2 * c + 1] + u[(2 * c + 1) + 1]
    BY <2>1
  <2>5. u[2 * c + 1] \in Nat /\ u[(2 * c + 1) + 1] \in Nat
    BY <2>1
  <2>6. Sum(v, c + 1) = Sum(u, (2 * c + 1) + 1) /\ Sum(u, (2 * c + 1) + 1) \in Nat
    BY ONLY <2>2, <2>3, <2>4, <2>5
  <2> QED BY <2>1, <2>6
<1>3. S = Nat
  <2> HIDE DEF S
  <2>1. S \in SUBSET Nat
    BY DEF S
  <2> QED BY <1>1, <1>2, <2>1, NatSetInduction
<1> QED BY <1>3

(* The j-th item of P is the items 2j - 1 and 2j of I.                       *)
PairsOf(P, I, A) ==
  \A j \in 1 .. Len(P) : /\ P[j].weight = I[2 * j - 1].weight + I[2 * j].weight
                         /\ \A s \in A : P[j].leaves[s] = I[2 * j - 1].leaves[s] + I[2 * j].leaves[s]

LEMMA PackagedList ==
  ASSUME NEW A, NEW I, IsList(I, A)
  PROVE  /\ IsList(Packaged(I), A)
         /\ Len(Packaged(I)) = Len(I) \div 2
         /\ 2 * Len(Packaged(I)) <= Len(I)
         /\ PairsOf(Packaged(I), I, A)
<1> DEFINE n == Len(I)
           k == n \div 2
           R == [weight : Nat \ {0}, leaves : [A -> Nat]]
           P == Packaged(I)
<1>1. n \in Nat /\ \A i \in 1 .. n : I[i] \in R
  BY ListTyped
<1>2. k \in Nat /\ 2 * k <= n
  BY <1>1
<1>3. P = [j \in 1 .. k |-> Item(I[2 * j - 1].weight + I[2 * j].weight,
             [s \in DOMAIN I[2 * j - 1].leaves |-> I[2 * j - 1].leaves[s] + I[2 * j].leaves[s]])]
  BY DEF Packaged
<1> HIDE DEF P
<1>4. ASSUME NEW j \in 1 .. k
      PROVE  /\ 2 * j - 1 \in 1 .. n /\ 2 * j \in 1 .. n
             /\ P[j].weight = I[2 * j - 1].weight + I[2 * j].weight
             /\ \A s \in A : P[j].leaves[s] = I[2 * j - 1].leaves[s] + I[2 * j].leaves[s]
             /\ P[j] \in R
  <2>1. 2 * j - 1 \in 1 .. n /\ 2 * j \in 1 .. n
    <3> HIDE DEF n, k
    <3> QED BY <1>1, <1>2
  <2>2. PICK a \in R, b \in R : a = I[2 * j - 1] /\ b = I[2 * j]
    BY <1>1, <2>1
  <2>3. P[j] = Item(a.weight + b.weight, [s \in DOMAIN a.leaves |-> a.leaves[s] + b.leaves[s]])
    BY <1>3, <2>2
  <2>4. /\ a.weight \in Nat \ {0} /\ b.weight \in Nat \ {0}
        /\ a.leaves \in [A -> Nat] /\ b.leaves \in [A -> Nat] /\ DOMAIN a.leaves = A
    OBVIOUS
  <2> HIDE DEF R
  <2>5. a.weight + b.weight \in Nat \ {0}
        /\ [s \in A |-> a.leaves[s] + b.leaves[s]] \in [A -> Nat]
    BY <2>4
  <2>6. P[j] = [weight |-> a.weight + b.weight, leaves |-> [s \in A |-> a.leaves[s] + b.leaves[s]]]
    BY <2>3, <2>4 DEF Item
  <2>7. P[j] \in R
    BY <2>5, <2>6 DEF R
  <2> QED BY <2>1, <2>2, <2>6, <2>7
<1>5. P \in Seq(R) /\ Len(P) = k
  <2> HIDE DEF R
  <2>1. P \in [1 .. k -> R]
    BY <1>3, <1>4
  <2> QED BY <1>2, <2>1
<1>6. ASSUME NEW i \in 1 .. k, NEW j \in 1 .. k, i <= j PROVE P[i].weight <= P[j].weight
  <2>1. I[2 * i - 1].weight <= I[2 * j - 1].weight /\ I[2 * i].weight <= I[2 * j].weight
    <3>1. /\ 2 * i - 1 \in 1 .. n /\ 2 * i \in 1 .. n /\ 2 * j - 1 \in 1 .. n /\ 2 * j \in 1 .. n
      BY <1>4
    <3>2. 2 * i - 1 <= 2 * j - 1 /\ 2 * i <= 2 * j
      BY <1>6, <1>2
    <3> QED BY <3>1, <3>2 DEF IsList
  <2>2. /\ I[2 * i - 1].weight \in Nat /\ I[2 * j - 1].weight \in Nat
        /\ I[2 * i].weight \in Nat /\ I[2 * j].weight \in Nat
    <3>1. \A q \in 1 .. n : I[q].weight \in Nat
      BY <1>1
    <3> QED BY <1>4, <3>1
  <2>3. /\ P[i].weight = I[2 * i - 1].weight + I[2 * i].weight
        /\ P[j].weight = I[2 * j - 1].weight + I[2 * j].weight
    BY <1>4
  <2>4. \A a, b, c, d \in Nat : a <= c /\ b <= d => a + b <= c + d
    OBVIOUS
  <2> QED BY ONLY <2>1, <2>2, <2>3, <2>4
<1>7. IsList(P, A)
  BY <1>5, <1>6 DEF IsList, R
<1> HIDE DEF R
<1>8. Len(P) = k
  BY <1>2, <1>5
<1>9. PairsOf(P, I, A)
  <2> HIDE DEF k
  <2> QED BY <1>4, <1>8 DEF PairsOf
<1> QED BY <1>2, <1>7, <1>8, <1>9 DEF P

LEMMA LeafList ==
  ASSUME NEW n, NEW hist, IsHistogram(hist, n)
  PROVE  /\ IsList(LeafItems(hist), Active(hist))
         /\ Len(LeafItems(hist)) = Leaves(hist)
         /\ \A i \in 1 .. Leaves(hist) :
              /\ LeafItems(hist)[i].weight = hist[Ordered(hist)[i]]
              /\ \A s \in Active(hist) :
                   LeafItems(hist)[i].leaves[s] = IF Rank(hist, s) = i THEN 1 ELSE 0
<1> DEFINE m == Leaves(hist)
           S == Active(hist)
           O == Ordered(hist)
           R == [weight : Nat \ {0}, leaves : [S -> Nat]]
           X == LeafItems(hist)
<1>1. /\ m \in Nat /\ O \in [1 .. m -> S]
      /\ \A i \in 1 .. m : Rank(hist, O[i]) = i
      /\ \A s \in S : O[Rank(hist, s)] = s
      /\ \A s, t \in S : Rank(hist, s) <= Rank(hist, t) => hist[s] <= hist[t]
      /\ \A s \in S : hist[s] \in Nat \ {0}
  <2>1. \A s \in S : hist[s] \in Nat /\ hist[s] > 0
    BY ActiveFacts
  <2> QED BY <2>1, ActiveFacts, OrderedFacts
<1>2. X = [i \in 1 .. m |-> Item(hist[O[i]], [t \in S |-> IF t = O[i] THEN 1 ELSE 0])]
  <2>1. DOMAIN O = 1 .. m
    BY <1>1
  <2> QED BY <2>1 DEF LeafItems
<1> HIDE DEF X, m, S, O
<1>3. ASSUME NEW i \in 1 .. m
      PROVE  /\ X[i].weight = hist[O[i]] /\ X[i] \in R
             /\ \A s \in S : X[i].leaves[s] = IF Rank(hist, s) = i THEN 1 ELSE 0
  <2>1. X[i] = [weight |-> hist[O[i]], leaves |-> [t \in S |-> IF t = O[i] THEN 1 ELSE 0]]
    BY <1>2 DEF Item
  <2>2. O[i] \in S /\ hist[O[i]] \in Nat \ {0}
    BY <1>1
  <2>3. \A s \in S : s = O[i] <=> Rank(hist, s) = i
    BY <1>1
  <2> QED BY <2>1, <2>2, <2>3
<1>4. X \in Seq(R) /\ Len(X) = m
  <2> HIDE DEF R
  <2>1. X \in [1 .. m -> R]
    BY <1>2, <1>3
  <2> QED BY <1>1, <2>1
<1>5. ASSUME NEW i \in 1 .. m, NEW j \in 1 .. m, i <= j PROVE X[i].weight <= X[j].weight
  <2>1. O[i] \in S /\ O[j] \in S /\ Rank(hist, O[i]) = i /\ Rank(hist, O[j]) = j
    BY <1>1
  <2> QED BY <1>1, <1>3, <1>5, <2>1
<1>6. IsList(X, S)
  BY <1>4, <1>5 DEF IsList, R
<1> QED BY <1>3, <1>4, <1>6 DEF X, m, S, O

(* level is the beginning, up to n, of the lists of all levels.              *)
LevelsUpTo(hist, level, n) ==
  level = [k \in 1 .. n |->
             IF k = 1 THEN LeafItems(hist)
             ELSE Merged(LeafItems(hist), Packaged(level[k - 1]))]

LEMMA LevelsExist ==
  ASSUME NEW hist, NEW n \in Nat
  PROVE  \E level : LevelsUpTo(hist, level, n)
<1> DEFINE S == {m \in Nat : \E level : LevelsUpTo(hist, level, m)}
           L == LeafItems(hist)
           Up(items) == Merged(L, Packaged(items))
<1> HIDE DEF L, Up
<1>0. \A level, m : LevelsUpTo(hist, level, m) <=>
                    level = [k \in 1 .. m |-> IF k = 1 THEN L ELSE Up(level[k - 1])]
  BY DEF LevelsUpTo, L, Up
<1>1. 0 \in S
  <2> DEFINE f == [k \in 1 .. 0 |-> L]
  <2>1. f = [k \in 1 .. 0 |-> IF k = 1 THEN L ELSE Up(f[k - 1])]
    <3> HIDE DEF f
    <3>1. \A k : k \notin 1 .. 0
      OBVIOUS
    <3> QED BY <3>1 DEF f
  <2> HIDE DEF f
  <2>2. LevelsUpTo(hist, f, 0)
    BY <1>0, <2>1
  <2> QED BY <2>2
<1>2. ASSUME NEW m \in S PROVE m + 1 \in S
  <2>1. PICK g : LevelsUpTo(hist, g, m)
    OBVIOUS
  <2>2. g = [k \in 1 .. m |-> IF k = 1 THEN L ELSE Up(g[k - 1])]
    BY <1>0, <2>1
  <2> DEFINE h == [k \in 1 .. m + 1 |->
                     IF k = m + 1 THEN IF k = 1 THEN L ELSE Up(g[k - 1]) ELSE g[k]]
  <2>3. ASSUME NEW k \in 1 .. m + 1
        PROVE  h[k] = IF k = 1 THEN L ELSE Up(h[k - 1])
    <3>1. CASE k = m + 1
      <4>1. k # 1 => k - 1 \in 1 .. m + 1 /\ k - 1 # m + 1
        BY <3>1
      <4> QED BY <3>1, <4>1
    <3>2. CASE k # m + 1
      <4>1. k \in 1 .. m /\ h[k] = g[k]
        BY <3>2
      <4>2. g[k] = IF k = 1 THEN L ELSE Up(g[k - 1])
        BY <2>2, <4>1
      <4>3. k # 1 => k - 1 \in 1 .. m + 1 /\ k - 1 # m + 1
        BY <4>1
      <4> QED BY <4>1, <4>2, <4>3
    <3> QED BY <3>1, <3>2
  <2>4. h = [k \in 1 .. m + 1 |-> h[k]]
    OBVIOUS
  <2> HIDE DEF h
  <2>5. LevelsUpTo(hist, h, m + 1)
    <3> HIDE DEF S
    <3>1. h = [k \in 1 .. m + 1 |-> IF k = 1 THEN L ELSE Up(h[k - 1])]
      BY <2>3, <2>4
    <3> QED BY <3>1 DEF LevelsUpTo, L, Up
  <2> QED BY <2>5
<1>3. S = Nat
  <2> HIDE DEF S
  <2>1. S \in SUBSET Nat
    BY DEF S
  <2> QED BY <1>1, <1>2, <2>1, NatSetInduction
<1> QED BY <1>3

(* The items of a level; below the first there are none.                     *)
ItemsAt(hist, cap, k) == IF k = 0 THEN << >> ELSE Levels(hist, cap)[k]

(* A list merged with nothing is itself.                                     *)
LEMMA MergedAlone ==
  ASSUME NEW A, NEW X, IsList(X, A)
  PROVE  IsList(<< >>, A) /\ Merged(X, << >>) = X
<1> DEFINE x == Len(X)
           g == LeavesAmong(X, << >>)
           h == Merged(X, << >>)
           S == {p \in Nat : p <= x => g[p] = p /\ (p > 0 => h[p] = X[p])}
<1>1. IsList(<< >>, A) /\ Len(<< >>) = 0
  BY DEF IsList
<1>2. x \in Nat
  BY ListTyped
<1>3. Merges(X, << >>, g, h) /\ Len(h) = x /\ IsList(h, A)
  <2> HIDE DEF g, h
  <2>1. Merges(X, << >>, g, h) /\ Len(h) = Len(X) + Len(<< >>) /\ IsList(h, A)
    BY <1>1, MergedMerges DEF g, h
  <2> QED BY <1>1, <1>2, <2>1
<1> HIDE DEF g, h
<1>4. 0 \in S
  BY <1>3 DEF Merges
<1>5. ASSUME NEW p \in S PROVE p + 1 \in S
  <2> SUFFICES ASSUME p + 1 <= x PROVE g[p + 1] = p + 1 /\ h[p + 1] = X[p + 1]
    OBVIOUS
  <2>1. p \in Nat /\ p \in 0 .. x + 0 - 1 /\ g[p] = p
    BY <1>2
  <2>2. \/ g[p + 1] = g[p] + 1 /\ h[p + 1] = X[g[p] + 1]
        \/ TakesPackage(X, << >>, g[p], p - g[p])
    BY <1>1, <1>3, <2>1 DEF Merges
  <2>3. ~ TakesPackage(X, << >>, g[p], p - g[p])
    BY <1>1, <2>1 DEF TakesPackage
  <2> QED BY <2>1, <2>2, <2>3
<1>6. S = Nat
  <2> HIDE DEF S
  <2>1. S \in SUBSET Nat
    BY DEF S
  <2> QED BY <1>4, <1>5, <2>1, NatSetInduction
<1>7. \A p \in 1 .. x : h[p] = X[p]
  BY <1>2, <1>6
<1>8. h = X
  <2> DEFINE R == [weight : Nat \ {0}, leaves : [A -> Nat]]
  <2>1. h \in Seq(R) /\ X \in Seq(R)
    BY <1>3 DEF IsList
  <2> HIDE DEF R, S
  <2> QED BY <1>3, <1>7, <2>1
<1> QED BY <1>1, <1>8 DEF h

LEMMA LevelFacts ==
  ASSUME NEW n, NEW hist, IsHistogram(hist, n), NEW cap \in Nat
  PROVE  /\ \A k \in 0 .. cap : IsList(ItemsAt(hist, cap, k), Active(hist))
         /\ \A k \in 0 .. cap - 1 :
              LET X == LeafItems(hist)
                  Y == Packaged(ItemsAt(hist, cap, k))
                  h == ItemsAt(hist, cap, k + 1)
              IN  /\ IsList(Y, Active(hist))
                  /\ Len(h) = Leaves(hist) + Len(Y)
                  /\ Merges(X, Y, LeavesAmong(X, Y), h)
<1> DEFINE X == LeafItems(hist)
           h(k) == ItemsAt(hist, cap, k)
           Y(k) == Packaged(h(k))
           A == Active(hist)
           S == {k \in Nat : k <= cap => IsList(h(k), A)}
<1>1. IsList(X, A) /\ Len(X) = Leaves(hist)
  BY LeafList
<1>2. h(0) = << >> /\ Packaged(<< >>) = << >>
  BY DEF ItemsAt, Packaged
<1>3. ASSUME NEW k \in 0 .. cap - 1
      PROVE  h(k + 1) = Merged(X, Y(k))
  <2> DEFINE G == Levels(hist, cap)
  <2>1. \E level : LevelsUpTo(hist, level, cap)
    BY LevelsExist
  <2>2. G = CHOOSE level : LevelsUpTo(hist, level, cap)
    BY DEF Levels, LevelsUpTo
  <2> HIDE DEF G
  <2>3. LevelsUpTo(hist, G, cap)
    BY <2>1, <2>2
  <2>4. k + 1 \in 1 .. cap /\ k + 1 # 0 /\ (k + 1) - 1 = k /\ (k + 1 = 1 <=> k = 0)
    OBVIOUS
  <2>5. G[k + 1] = IF k = 0 THEN X ELSE Merged(X, Packaged(G[k]))
    BY <2>3, <2>4 DEF LevelsUpTo
  <2>6. h(k + 1) = G[k + 1] /\ (k # 0 => h(k) = G[k])
    BY <2>4 DEF ItemsAt, G
  <2> HIDE DEF h, X
  <2>7. CASE k = 0
    <3>1. Merged(X, << >>) = X
      BY <1>1, MergedAlone
    <3> QED BY <1>2, <2>5, <2>6, <2>7, <3>1
  <2> QED BY <2>5, <2>6, <2>7
<1> HIDE DEF X, h, A
<1>4. 0 \in S
  BY <1>1, <1>2, MergedAlone
<1>5. ASSUME NEW k \in S PROVE k + 1 \in S
  <2> SUFFICES ASSUME k + 1 <= cap PROVE IsList(h(k + 1), A)
    OBVIOUS
  <2>1. k \in 0 .. cap - 1 /\ IsList(h(k), A)
    OBVIOUS
  <2>2. IsList(Y(k), A)
    BY <2>1, PackagedList
  <2> QED BY <1>1, <1>3, <2>1, <2>2, MergedMerges
<1>6. S = Nat
  <2> HIDE DEF S
  <2>1. S \in SUBSET Nat
    BY DEF S
  <2> QED BY <1>4, <1>5, <2>1, NatSetInduction
<1>7. \A k \in 0 .. cap : IsList(h(k), A)
  <2> SUFFICES ASSUME NEW k \in 0 .. cap PROVE IsList(h(k), A)
    OBVIOUS
  <2>1. k \in S /\ k <= cap
    <3> HIDE DEF S
    <3> QED BY <1>6
  <2> QED BY <2>1
<1>8. ASSUME NEW k \in 0 .. cap - 1
      PROVE  /\ IsList(Y(k), A) /\ Len(h(k + 1)) = Leaves(hist) + Len(Y(k))
             /\ Merges(X, Y(k), LeavesAmong(X, Y(k)), h(k + 1))
  <2>1. IsList(Y(k), A)
    <3>1. k \in 0 .. cap
      OBVIOUS
    <3> QED BY <1>7, <3>1, PackagedList
  <2>2. /\ Len(Merged(X, Y(k))) = Len(X) + Len(Y(k))
        /\ Merges(X, Y(k), LeavesAmong(X, Y(k)), Merged(X, Y(k)))
    BY <1>1, <2>1, MergedMerges
  <2> QED BY <1>1, <1>3, <2>1, <2>2
<1> QED BY <1>7, <1>8 DEF X, h, A

(* What the first items of a list weigh.                                     *)
Weighs(items, t) == Sum([p \in 1 .. t |-> items[p].weight], t)

(* Pairs of items, as they are held and as they weigh.                       *)
LEMMA PackagesHold ==
  ASSUME NEW A, NEW I, IsList(I, A), NEW b \in 0 .. Len(Packaged(I))
  PROVE  /\ 2 * b \in 0 .. Len(I) /\ b \in Nat
         /\ \A v : (\A j \in 1 .. Len(Packaged(I)) : v[j] = Packaged(I)[j].weight)
                      => Sum(v, b) = Weighs(I, 2 * b)
         /\ \A s \in A : \A v :
              (\A j \in 1 .. Len(Packaged(I)) : v[j] = Packaged(I)[j].leaves[s])
                 => Sum(v, b) = Held(I, 2 * b, s)
<1> DEFINE n == Len(I)
           k == Len(Packaged(I))
           R == [weight : Nat \ {0}, leaves : [A -> Nat]]
<1>1. /\ n \in Nat /\ k \in Nat /\ 2 * k <= n
      /\ \A i \in 1 .. n : I[i] \in R
      /\ \A j \in 1 .. k : /\ Packaged(I)[j].weight = I[2 * j - 1].weight + I[2 * j].weight
                           /\ \A s \in A : Packaged(I)[j].leaves[s]
                                             = I[2 * j - 1].leaves[s] + I[2 * j].leaves[s]
  <2>1. n \in Nat /\ \A i \in 1 .. n : I[i] \in R
    BY ListTyped
  <2>2. 2 * Len(Packaged(I)) <= Len(I) /\ IsList(Packaged(I), A)
    BY ONLY IsList(I, A), PackagedList
  <2>3. ASSUME NEW j \in 1 .. k
        PROVE  /\ Packaged(I)[j].weight = I[2 * j - 1].weight + I[2 * j].weight
               /\ \A s \in A : Packaged(I)[j].leaves[s]
                                 = I[2 * j - 1].leaves[s] + I[2 * j].leaves[s]
    <3>1. j \in 1 .. Len(Packaged(I))
      OBVIOUS
    <3>2. PairsOf(Packaged(I), I, A)
      BY ONLY IsList(I, A), PackagedList
    <3> QED BY ONLY <3>1, <3>2 DEF PairsOf
  <2>4. k \in Nat
    BY <2>2, ListTyped
  <2> QED BY <2>1, <2>2, <2>3, <2>4
<1>2. 2 * b \in 0 .. n /\ b \in Nat /\ 2 * b \in Nat /\ \A j \in 1 .. b : j \in 1 .. k
  <2>1. b \in 0 .. k
    OBVIOUS
  <2> HIDE DEF n, k
  <2> QED BY ONLY <1>1, <2>1
<1>3. \A j \in 1 .. b : 2 * j - 1 \in 1 .. 2 * b /\ 2 * j \in 1 .. 2 * b
  BY <1>2
<1>4. \A i \in 1 .. 2 * b : i \in 1 .. n
  BY <1>1, <1>2
<1>5. \A i \in 1 .. n : I[i].weight \in Nat /\ \A s \in A : I[i].leaves[s] \in Nat
  BY <1>1
<1> HIDE DEF n, k
<1>6. ASSUME NEW v, \A j \in 1 .. k : v[j] = Packaged(I)[j].weight
      PROVE  Sum(v, b) = Weighs(I, 2 * b)
  <2> DEFINE u == [p \in 1 .. 2 * b |-> I[p].weight]
  <2>1. \A i \in 1 .. 2 * b : u[i] \in Nat
    BY <1>4, <1>5
  <2>2. \A j \in 1 .. b : v[j] = u[2 * j - 1] + u[2 * j]
    BY <1>1, <1>2, <1>3, <1>6
  <2> HIDE DEF u
  <2>3. Sum(v, b) = Sum(u, 2 * b)
    BY <1>2, <2>1, <2>2, PairTotals
  <2> QED BY <2>3 DEF Weighs, u
<1>7. ASSUME NEW s \in A, NEW v, \A j \in 1 .. k : v[j] = Packaged(I)[j].leaves[s]
      PROVE  Sum(v, b) = Held(I, 2 * b, s)
  <2> DEFINE u == [p \in 1 .. 2 * b |-> I[p].leaves[s]]
  <2>1. \A i \in 1 .. 2 * b : u[i] \in Nat
    BY <1>4, <1>5
  <2>2. \A j \in 1 .. b : v[j] = u[2 * j - 1] + u[2 * j]
    BY <1>1, <1>2, <1>3, <1>7
  <2> HIDE DEF u
  <2>3. Sum(v, b) = Sum(u, 2 * b)
    BY <1>2, <2>1, <2>2, PairTotals
  <2> QED BY <2>3 DEF Held, u
<1> QED BY <1>2, <1>6, <1>7 DEF n, k

(* The first t items of a level are some lightest leaves and the first items *)
(* of the level below, in pairs; and no other such choice is lighter.        *)
LEMMA LevelStep ==
  ASSUME NEW n, NEW hist, IsHistogram(hist, n), NEW cap \in Nat, NEW k \in 0 .. cap - 1,
         NEW I, I = ItemsAt(hist, cap, k), NEW J, J = ItemsAt(hist, cap, k + 1),
         NEW g, g = LeavesAmong(LeafItems(hist), Packaged(I))
  PROVE  /\ \A t \in 0 .. Len(J) :
              /\ g[t] \in 0 .. Leaves(hist) /\ t - g[t] \in 0 .. Len(Packaged(I))
              /\ 2 * (t - g[t]) \in 0 .. Len(I)
              /\ Weighs(J, t) = Over(hist, Lightest(hist, g[t]), n) + Weighs(I, 2 * (t - g[t]))
              /\ \A s \in Active(hist) :
                   Held(J, t, s) = (IF Rank(hist, s) <= g[t] THEN 1 ELSE 0)
                                   + Held(I, 2 * (t - g[t]), s)
         /\ \A a \in 0 .. Leaves(hist) : \A b \in 0 .. Len(Packaged(I)) :
              Weighs(J, a + b) <= Over(hist, Lightest(hist, a), n) + Weighs(I, 2 * b)
<1> DEFINE m == Leaves(hist)
           A == Active(hist)
           X == LeafItems(hist)
           Y == Packaged(I)
           y == Len(Y)
           ux == [i \in 1 .. m |-> X[i].weight]
           vy == [j \in 1 .. y |-> Y[j].weight]
           wj == [p \in 1 .. m + y |-> J[p].weight]
<1>1. /\ k \in 0 .. cap /\ k + 1 \in 0 .. cap
  OBVIOUS
<1>2. /\ IsList(I, A) /\ IsList(J, A) /\ IsList(Y, A) /\ IsList(X, A)
      /\ Len(X) = m /\ Len(J) = m + y /\ Merges(X, Y, g, J)
  BY <1>1, LevelFacts, LeafList
<1>3. /\ m \in Nat /\ y \in Nat /\ n \in Nat
      /\ \A i \in 1 .. m : X[i].weight \in Nat /\ \A s \in A : X[i].leaves[s] \in Nat
      /\ \A j \in 1 .. y : Y[j].weight \in Nat /\ \A s \in A : Y[j].leaves[s] \in Nat
      /\ \A p \in 1 .. m + y : J[p].weight \in Nat /\ \A s \in A : J[p].leaves[s] \in Nat
  <2> HIDE DEF A, X, Y, m
  <2>1. m \in Nat /\ y \in Nat /\ n \in Nat
    BY <1>2, ListTyped DEF IsHistogram
  <2>2. /\ \A i \in 1 .. m : X[i] \in [weight : Nat \ {0}, leaves : [A -> Nat]]
        /\ \A j \in 1 .. y : Y[j] \in [weight : Nat \ {0}, leaves : [A -> Nat]]
        /\ \A p \in 1 .. m + y : J[p] \in [weight : Nat \ {0}, leaves : [A -> Nat]]
    BY <1>2, ListTyped
  <2> HIDE DEF y
  <2> QED BY <2>1, <2>2
<1>4. ASSUME NEW t \in 0 .. m + y
      PROVE  /\ Weighs(J, t) = Sum(wj, t)
             /\ g[t] \in 0 .. m /\ t - g[t] \in 0 .. y /\ 2 * (t - g[t]) \in 0 .. Len(I)
  <2>1. g[t] \in 0 .. m /\ t - g[t] \in 0 .. y
    BY <1>2 DEF Merges
  <2>2. 2 * (t - g[t]) \in 0 .. Len(I)
    BY <1>2, <2>1, PackagesHold
  <2>3. t \in Nat /\ \A p \in 1 .. t : p \in 1 .. m + y
    BY <1>3
  <2>4. \A p \in 1 .. t : [q \in 1 .. t |-> J[q].weight][p] = wj[p]
    BY <2>3
  <2> HIDE DEF wj
  <2>5. Weighs(J, t) = Sum(wj, t)
    BY <2>3, <2>4, SumSame DEF Weighs
  <2> QED BY <2>1, <2>2, <2>5
<1>5. ASSUME NEW b \in 0 .. y PROVE Sum(vy, b) = Weighs(I, 2 * b)
  <2>1. \A j \in 1 .. y : vy[j] = Y[j].weight
    OBVIOUS
  <2> HIDE DEF vy
  <2> QED BY <1>2, <2>1, PackagesHold
<1>6. ASSUME NEW a \in 0 .. m PROVE Sum(ux, a) = Over(hist, Lightest(hist, a), n)
  <2>1. \A i \in 1 .. m : ux[i] = hist[Ordered(hist)[i]]
    BY LeafList
  <2>2. \A s \in A : hist[s] \in Nat
    BY ActiveFacts
  <2> HIDE DEF ux
  <2> QED BY <2>1, <2>2, LightestFacts
<1>7. ASSUME NEW t \in 0 .. m + y
      PROVE  Weighs(J, t) = Over(hist, Lightest(hist, g[t]), n) + Weighs(I, 2 * (t - g[t]))
  <2>1. Numbers(X, Y, J, ux, vy, wj)
    BY <1>2, <1>3 DEF Numbers
  <2> HIDE DEF ux, vy, wj, X, Y, A, m, y
  <2>2. \A q \in 0 .. Len(X) + Len(Y) : Sum(wj, q) = Sum(ux, g[q]) + Sum(vy, q - g[q])
    BY ONLY <1>2, <2>1, MergeTotals
  <2>3. t \in 0 .. Len(X) + Len(Y)
    BY <1>2 DEF y
  <2> QED BY <1>4, <1>5, <1>6, <2>2, <2>3
<1>8. ASSUME NEW t \in 0 .. m + y, NEW s \in A
      PROVE  Held(J, t, s) = (IF Rank(hist, s) <= g[t] THEN 1 ELSE 0)
                             + Held(I, 2 * (t - g[t]), s)
  <2> DEFINE u == [i \in 1 .. m |-> X[i].leaves[s]]
             v == [j \in 1 .. y |-> Y[j].leaves[s]]
             w == [p \in 1 .. m + y |-> J[p].leaves[s]]
  <2>1. Numbers(X, Y, J, u, v, w)
    BY <1>2, <1>3 DEF Numbers
  <2>2. \A i \in 1 .. m : u[i] = IF i = Rank(hist, s) THEN 1 ELSE 0
    BY LeafList
  <2>3. \A j \in 1 .. y : v[j] = Y[j].leaves[s]
    OBVIOUS
  <2>4. t \in Nat /\ \A p \in 1 .. t : [q \in 1 .. t |-> J[q].leaves[s]][p] = w[p]
    <3>1. t \in Nat /\ \A p \in 1 .. t : p \in 1 .. m + y
      BY <1>3
    <3> QED BY <3>1
  <2> HIDE DEF u, v, w, X, A, m
  <2>5. Held(J, t, s) = Sum(w, t)
    BY <2>4, SumSame DEF Held
  <2>6. Sum(v, t - g[t]) = Held(I, 2 * (t - g[t]), s)
    <3>1. PICK b \in 0 .. y : b = t - g[t]
      BY <1>4
    <3>2. b \in 0 .. Len(Packaged(I)) /\ IsList(I, A) /\ s \in A
          /\ \A j \in 1 .. Len(Packaged(I)) : v[j] = Packaged(I)[j].leaves[s]
      BY <1>2, <2>3
    <3>3. Sum(v, b) = Held(I, 2 * b, s)
      BY ONLY <3>2, PackagesHold
    <3> QED BY <3>1, <3>3
  <2> HIDE DEF Y, y
  <2>7. \A q \in 0 .. Len(X) + Len(Y) : Sum(w, q) = Sum(u, g[q]) + Sum(v, q - g[q])
    BY ONLY <1>2, <2>1, MergeTotals
  <2>8. t \in 0 .. Len(X) + Len(Y)
    BY <1>2 DEF y
  <2>9. Sum(u, g[t]) = IF Rank(hist, s) <= g[t] THEN 1 ELSE 0
    <3>1. PICK a \in 0 .. m : a = g[t] /\ a \in Nat
      <4>1. g[t] \in 0 .. m /\ m \in Nat
        BY <1>3, <1>4
      <4> QED BY ONLY <4>1
    <3>2. Rank(hist, s) \in 1 .. m
      BY OrderedFacts DEF A, m
    <3>3. \A i \in 1 .. a : u[i] = IF i = Rank(hist, s) THEN 1 ELSE 0
      BY <1>3, <2>2, <3>1
    <3>4. CASE Rank(hist, s) <= a
      <4>1. Rank(hist, s) \in 1 .. a
        BY <1>3, <3>1, <3>2, <3>4
      <4>2. Sum(u, a) = 1
        <5> DEFINE r == Rank(hist, s)
        <5>1. r \in 1 .. a /\ \A i \in 1 .. a : u[i] = IF i = r THEN 1 ELSE 0
          BY <3>3, <4>1
        <5> HIDE DEF r
        <5> QED BY ONLY <3>1, <5>1, SumSingle
      <4> QED BY <3>1, <3>4, <4>2
    <3>5. CASE ~ (Rank(hist, s) <= a)
      <4>1. \A i \in 1 .. a : u[i] = 0
        BY <1>3, <3>1, <3>2, <3>3, <3>5
      <4>2. Sum(u, a) = 0
        BY <3>1, <4>1, SumZero
      <4> QED BY <3>1, <3>5, <4>2
    <3> QED BY <3>4, <3>5
  <2> QED BY <2>5, <2>6, <2>7, <2>8, <2>9
<1>9. ASSUME NEW a \in 0 .. m, NEW b \in 0 .. y
      PROVE  Weighs(J, a + b) <= Over(hist, Lightest(hist, a), n) + Weighs(I, 2 * b)
  <2>1. /\ \A i \in 1 .. Len(X) : ux[i] = X[i].weight
        /\ \A j \in 1 .. Len(Y) : vy[j] = Y[j].weight
        /\ \A p \in 1 .. Len(X) + Len(Y) : wj[p] = J[p].weight /\ wj[p] \in Nat
    BY <1>2, <1>3
  <2> HIDE DEF ux, vy, wj, X, Y, A, m, y
  <2>2. \A c \in 0 .. Len(X) : \A d \in 0 .. Len(Y) : Sum(wj, c + d) <= Sum(ux, c) + Sum(vy, d)
    BY ONLY <1>2, <2>1, MergeLeast
  <2>3. a \in 0 .. Len(X) /\ b \in 0 .. Len(Y)
    BY <1>2 DEF y
  <2>4. a + b \in 0 .. m + y
    BY <1>3
  <2> QED BY <1>4, <1>5, <1>6, <2>2, <2>3, <2>4
<1>10. Len(J) = m + y
  BY <1>2
<1> HIDE DEF ux, vy, wj
<1> QED BY <1>4, <1>7, <1>8, <1>9, <1>10

------------------------------------------------------------------------------
(* P has the layers of O and one more, worth the most; what that one adds.   *)
Tops(P, O, D, S) ==
  /\ P \in [1 .. D + 1 -> SUBSET S] /\ O \in [1 .. D -> SUBSET S]
  /\ \A j \in 1 .. D : O[j] = P[j]

TopAdds(P, O, D, E) ==
  /\ Worth(P, E) = Worth(O, D) + Pow2(D) * Cardinality(P[E])
  /\ \A w, n : Weight(P, w, E, n) = Weight(O, w, D, n) + Over(w, P[E], n)
  /\ \A s : Sum(Column(P, Ones(E), E, s), E)
              = Sum(Column(O, Ones(D), D, s), D) + (IF s \in P[E] THEN 1 ELSE 0)

LEMMA TopLayer ==
  ASSUME NEW S, NEW D \in Nat, NEW E, E = D + 1, NEW P, NEW O, Tops(P, O, D, S)
  PROVE  TopAdds(P, O, D, E)
<1>1. E \in 1 .. E /\ E - 1 = D /\ \A j \in 1 .. D : j \in 1 .. E
  OBVIOUS
<1>2. \A f, g : (\A j \in 1 .. D : f[j] = g[j]) => Sum(f, E) = Sum(g, D) + f[E]
  <2> SUFFICES ASSUME NEW f, NEW g, \A j \in 1 .. D : f[j] = g[j]
               PROVE  Sum(f, E) = Sum(g, D) + f[E]
    OBVIOUS
  <2>1. Sum(f, D + 1) = Sum(f, D) + f[D + 1]
    BY SumEquations
  <2>2. Sum(f, D) = Sum(g, D)
    BY SumSame
  <2> QED BY <2>1, <2>2
<1>3. Worth(P, E) = Worth(O, D) + Pow2(D) * Cardinality(P[E])
  <2> DEFINE f == [j \in 1 .. E |-> Pow2(j - 1) * Cardinality(P[j])]
             g == [j \in 1 .. D |-> Pow2(j - 1) * Cardinality(O[j])]
  <2>1. f[E] = Pow2(D) * Cardinality(P[E]) /\ \A j \in 1 .. D : f[j] = g[j]
    BY <1>1 DEF Tops
  <2>2. Worth(P, E) = Sum(f, E) /\ Worth(O, D) = Sum(g, D)
    BY DEF Worth
  <2> HIDE DEF f, g
  <2>3. Sum(f, E) = Sum(g, D) + f[E]
    BY <1>2, <2>1
  <2> QED BY <2>1, <2>2, <2>3
<1>4. ASSUME NEW w, NEW n
      PROVE  Weight(P, w, E, n) = Weight(O, w, D, n) + Over(w, P[E], n)
  <2> DEFINE f == [j \in 1 .. E |-> Over(w, P[j], n)]
             g == [j \in 1 .. D |-> Over(w, O[j], n)]
  <2>1. f[E] = Over(w, P[E], n) /\ \A j \in 1 .. D : f[j] = g[j]
    BY <1>1 DEF Tops
  <2>2. Weight(P, w, E, n) = Sum(f, E) /\ Weight(O, w, D, n) = Sum(g, D)
    BY DEF Weight
  <2> HIDE DEF f, g
  <2>3. Sum(f, E) = Sum(g, D) + f[E]
    BY <1>2, <2>1
  <2> QED BY <2>1, <2>2, <2>3
<1>5. ASSUME NEW s
      PROVE  Sum(Column(P, Ones(E), E, s), E)
               = Sum(Column(O, Ones(D), D, s), D) + (IF s \in P[E] THEN 1 ELSE 0)
  <2> DEFINE f == Column(P, Ones(E), E, s)
             g == Column(O, Ones(D), D, s)
  <2>1. f[E] = (IF s \in P[E] THEN 1 ELSE 0) /\ \A j \in 1 .. D : f[j] = g[j]
    BY <1>1 DEF Column, Ones, Tops
  <2> HIDE DEF f, g
  <2>2. Sum(f, E) = Sum(g, D) + f[E]
    BY <1>2, <2>1
  <2>3. Sum(f, E) = Sum(g, D) + (IF s \in P[E] THEN 1 ELSE 0)
    BY ONLY <2>1, <2>2
  <2> QED BY <2>3 DEF f, g
<1> QED BY <1>3, <1>4, <1>5 DEF TopAdds

LEMMA OverSubset ==
  ASSUME NEW n \in Nat, NEW T \in SUBSET (0 .. n - 1), NEW S \in SUBSET T,
         NEW f, \A t \in T : f[t] \in Nat
  PROVE  Over(f, S, n) <= Over(f, T, n)
<1> DEFINE R == T \ S
<1>1. T = S \cup R /\ S \cap R = {} /\ S \in SUBSET (0 .. n - 1) /\ R \in SUBSET (0 .. n - 1)
  OBVIOUS
<1>2. Over(f, S, n) \in Nat /\ Over(f, R, n) \in Nat
  BY <1>1, OverNat
<1> HIDE DEF R
<1>3. Over(f, S \cup R, n) = Over(f, S, n) + Over(f, R, n)
  BY <1>1, OverUnion
<1> QED BY <1>1, <1>2, <1>3

(* The leaves a pair of items rests on are among the leaves before the pair. *)
LEMMA Nested ==
  ASSUME NEW n, NEW hist, IsHistogram(hist, n), NEW cap \in Nat, NEW k \in 0 .. cap - 2,
         NEW H, H = ItemsAt(hist, cap, k), NEW I, I = ItemsAt(hist, cap, k + 1),
         NEW J, J = ItemsAt(hist, cap, k + 2),
         NEW f, f = LeavesAmong(LeafItems(hist), Packaged(H)),
         NEW g, g = LeavesAmong(LeafItems(hist), Packaged(I)),
         NEW t \in 0 .. Len(J)
  PROVE  f[2 * (t - g[t])] <= g[t]
<1> DEFINE m == Leaves(hist)
           A == Active(hist)
           X == LeafItems(hist)
           Y == Packaged(I)
           Z == Packaged(H)
<1>1. k \in 0 .. cap - 1 /\ k + 1 \in 0 .. cap - 1 /\ k + 1 \in 0 .. cap /\ k + 2 \in 0 .. cap
      /\ (k + 1) + 1 = k + 2
  OBVIOUS
<1>2. /\ IsList(I, A) /\ IsList(J, A) /\ IsList(Y, A) /\ IsList(Z, A) /\ IsList(X, A)
      /\ Len(X) = m /\ Len(J) = m + Len(Y) /\ Merges(X, Y, g, J)
      /\ Len(I) = m + Len(Z) /\ Merges(X, Z, f, I)
  BY <1>1, LevelFacts, LeafList
<1> HIDE DEF A, X, Y, Z, m
<1>3. m \in Nat /\ Len(Y) \in Nat /\ Len(Z) \in Nat
  BY <1>2, ListTyped
<1>4. PICK a \in 0 .. m, b \in 0 .. Len(Y) :
         /\ a = g[t] /\ b = t - g[t] /\ a \in Nat /\ b \in Nat /\ t \in 0 .. m + Len(Y)
  <2>1. \A p \in 0 .. m + Len(Y) : g[p] \in 0 .. m /\ p - g[p] \in 0 .. Len(Y)
    BY <1>2 DEF Merges
  <2>2. t \in 0 .. m + Len(Y)
    BY <1>2
  <2>3. g[t] \in 0 .. m /\ t - g[t] \in 0 .. Len(Y)
    BY <2>1, <2>2
  <2>4. g[t] \in Nat /\ t - g[t] \in Nat
    BY <1>3, <2>3
  <2> QED BY <2>2, <2>3, <2>4, Zenon
<1>5. 2 * b \in 0 .. Len(I) /\ 2 * b \in 0 .. Len(X) + Len(Z)
  <2>1. b \in 0 .. Len(Packaged(I))
    BY <1>4 DEF Y
  <2>2. 2 * b \in 0 .. Len(I)
    BY ONLY <1>2, <2>1, PackagesHold
  <2> QED BY <1>2, <2>2
<1>6. PICK c \in 0 .. m : c = f[2 * b] /\ c \in Nat
  <2>1. \A p \in 0 .. Len(X) + Len(Z) : f[p] \in 0 .. m
    BY <1>2 DEF Merges
  <2>2. f[2 * b] \in 0 .. m
    BY <1>5, <2>1
  <2>3. f[2 * b] \in Nat
    BY <1>3, <2>2
  <2> QED BY <2>2, <2>3, Zenon
<1>7. c <= a
  <2>1. CASE b = 0
    <3>1. f[2 * b] = 0
      BY <1>2, <2>1 DEF Merges
    <3> QED BY <1>4, <1>6, <3>1
  <2>2. CASE a = m
    BY <1>3, <1>6, <2>2
  <2>3. CASE b # 0 /\ a # m
    <3> SUFFICES ASSUME ~ (c <= a) PROVE FALSE
      OBVIOUS
    <3>1. b >= 1 /\ a < m /\ c >= 1 /\ a + 1 <= c /\ a + 1 \in 1 .. m /\ c \in 1 .. m
      <4>1. /\ a \in 0 .. m /\ c \in 0 .. m /\ a \in Nat /\ b \in Nat /\ c \in Nat
            /\ ~ (c <= a) /\ b # 0 /\ a # m
        BY <1>4, <1>6, <2>3
      <4> QED BY ONLY <1>3, <4>1
    <3>2. Y[b].weight < X[a + 1].weight
      <4>1. \A p, q \in 1 .. Len(X) + Len(Y) :
              J[p].weight \in Nat /\ (p <= q => J[p].weight <= J[q].weight)
        BY <1>2, ListTyped DEF IsList
      <4>2. g[t] < Len(X) /\ t - g[t] >= 1 => Y[t - g[t]].weight < X[g[t] + 1].weight
        BY <1>2, <1>4, <4>1, MergeBounds
      <4> QED BY <1>2, <1>4, <3>1, <4>2
    <3>3. X[c].weight <= I[2 * b].weight
      <4>1. \A p, q \in 1 .. Len(X) + Len(Z) :
              I[p].weight \in Nat /\ (p <= q => I[p].weight <= I[q].weight)
        BY <1>2, ListTyped DEF IsList
      <4>2. f[2 * b] >= 1 => X[f[2 * b]].weight <= I[2 * b].weight
        BY <1>2, <1>5, <4>1, MergeBounds
      <4> QED BY <1>6, <3>1, <4>2
    <3>4. Y[b].weight = I[2 * b - 1].weight + I[2 * b].weight
      <4>1. PairsOf(Y, I, A)
        BY <1>2, PackagedList DEF Y
      <4>2. b \in 1 .. Len(Y)
        BY <1>4, <3>1
      <4> QED BY ONLY <4>1, <4>2 DEF PairsOf
    <3>5. I[2 * b - 1].weight \in Nat \ {0} /\ I[2 * b].weight \in Nat \ {0}
      <4>1. 2 * b - 1 \in 1 .. Len(I) /\ 2 * b \in 1 .. Len(I)
        <5>1. Len(I) \in Nat /\ b \in Nat
          BY <1>2, <1>4, ListTyped
        <5> QED BY ONLY <1>5, <3>1, <5>1
      <4>2. \A i \in 1 .. Len(I) : I[i].weight \in Nat \ {0}
        BY <1>2, ListTyped
      <4> QED BY <4>1, <4>2
    <3>6. X[a + 1].weight <= X[c].weight /\ X[a + 1].weight \in Nat /\ X[c].weight \in Nat
      BY <1>2, <3>1, ListTyped DEF IsList
    <3> DEFINE u == I[2 * b - 1].weight
               v == I[2 * b].weight
               x == X[a + 1].weight
               y == X[c].weight
               z == Y[b].weight
    <3>7. z < x /\ y <= v /\ z = u + v /\ u \in Nat \ {0} /\ v \in Nat \ {0}
          /\ x <= y /\ x \in Nat /\ y \in Nat
      BY ONLY <3>2, <3>3, <3>4, <3>5, <3>6
    <3> HIDE DEF u, v, x, y, z
    <3> QED BY ONLY <3>7
  <2> QED BY <2>1, <2>2, <2>3
<1> QED BY <1>4, <1>6, <1>7

(* Halving the levels leaves at most two items short of twice the leaves.    *)
LEMMA LevelLengths ==
  ASSUME NEW n, NEW hist, IsHistogram(hist, n), NEW cap \in Nat, Leaves(hist) <= Pow2(cap)
  PROVE  2 * Leaves(hist) - 2 <= Len(ItemsAt(hist, cap, cap))
<1> DEFINE m == Leaves(hist)
           L(k) == Len(ItemsAt(hist, cap, k))
           Good(k) == 2 * m <= L(k) + Pow2(cap + 1 - k)
           S == {k \in Nat : k <= cap => Good(k)}
<1>1. m \in Nat
  BY ActiveFacts
<1>2. 0 \in S
  <2>1. L(0) = 0
    BY DEF ItemsAt
  <2>2. cap + 1 - 0 = cap + 1 /\ Pow2(cap + 1) = 2 * Pow2(cap) /\ Pow2(cap) \in Nat
    BY Pow2Equations, Pow2Type
  <2> HIDE DEF m, L
  <2> QED BY <1>1, <2>1, <2>2 DEF m
<1>3. ASSUME NEW k \in S PROVE k + 1 \in S
  <2> SUFFICES ASSUME k + 1 <= cap PROVE Good(k + 1)
    OBVIOUS
  <2>1. k \in Nat /\ k \in 0 .. cap - 1 /\ k \in 0 .. cap /\ Good(k)
    OBVIOUS
  <2> DEFINE I == ItemsAt(hist, cap, k)
             p == Pow2(cap - k)
  <2>2. L(k + 1) = m + Len(Packaged(I)) /\ IsList(I, Active(hist))
    BY <2>1, LevelFacts
  <2>3. Len(Packaged(I)) = Len(I) \div 2 /\ Len(I) \in Nat
    BY <2>2, PackagedList, ListTyped
  <2>4. cap - k \in Nat /\ cap + 1 - k = (cap - k) + 1 /\ cap + 1 - (k + 1) = cap - k
    BY <2>1
  <2>5. p \in Nat /\ Pow2(cap + 1 - k) = 2 * p /\ Pow2(cap + 1 - (k + 1)) = p
    BY <2>4, Pow2Equations, Pow2Type
  <2>6. 2 * m <= Len(I) + 2 * p
    BY <2>1, <2>5
  <2> HIDE DEF m, L, p, I
  <2>7. 2 * m <= L(k + 1) + p
    BY ONLY <1>1, <2>2, <2>3, <2>5, <2>6
  <2> QED BY <2>5, <2>7
<1>4. S = Nat
  <2> HIDE DEF S
  <2>1. S \in SUBSET Nat
    BY DEF S
  <2> QED BY <1>2, <1>3, <2>1, NatSetInduction
<1>5. Good(cap)
  BY <1>4
<1>6. cap + 1 - cap = 1 /\ Pow2(1) = 2 /\ L(cap) \in Nat
  <2>1. Pow2(0) = 1 /\ Pow2(0 + 1) = 2 * Pow2(0) /\ 0 + 1 = 1
    BY Pow2Equations
  <2>2. L(cap) \in Nat
    <3>1. cap \in 0 .. cap
      OBVIOUS
    <3> QED BY <3>1, LevelFacts, ListTyped
  <2> QED BY <2>1, <2>2
<1> QED BY <1>1, <1>5, <1>6

(* O is the layers the first t items of level k are made of.                 *)
Picks(hist, cap, n, k, t, O) ==
  /\ O \in [1 .. k -> SUBSET Active(hist)] /\ Ascending(O, k)
  /\ k >= 1 => LET g == LeavesAmong(LeafItems(hist), Packaged(ItemsAt(hist, cap, k - 1)))
               IN  O[k] = Lightest(hist, g[t])
  /\ 2 * Worth(O, k) = t * Pow2(k)
  /\ \A s \in Active(hist) :
       Held(ItemsAt(hist, cap, k), t, s) = Sum(Column(O, Ones(k), k, s), k)
  /\ Weighs(ItemsAt(hist, cap, k), t) = Weight(O, hist, k, n)

LEMMA PicksExist ==
  ASSUME NEW n, NEW hist, IsHistogram(hist, n), NEW cap \in Nat
  PROVE  \A k \in 0 .. cap : \A t \in 0 .. Len(ItemsAt(hist, cap, k)) :
            \E O : Picks(hist, cap, n, k, t, O)
<1> DEFINE m == Leaves(hist)
           A == Active(hist)
           h(k) == ItemsAt(hist, cap, k)
           Good(k) == \A t \in 0 .. Len(h(k)) : \E O : Picks(hist, cap, n, k, t, O)
           S == {k \in Nat : k <= cap => Good(k)}
<1>1. n \in Nat /\ A \in SUBSET (0 .. n - 1) /\ m \in Nat
  BY ActiveFacts DEF IsHistogram
<1>2. Good(0)
  <2> SUFFICES ASSUME NEW t \in 0 .. Len(h(0)) PROVE \E O : Picks(hist, cap, n, 0, t, O)
    OBVIOUS
  <2>1. h(0) = << >> /\ t = 0
    BY DEF ItemsAt
  <2> DEFINE O == [j \in 1 .. 0 |-> {}]
  <2>2. O \in [1 .. 0 -> SUBSET A] /\ Ascending(O, 0)
    BY DEF Ascending
  <2> HIDE DEF O
  <2>3. Worth(O, 0) = 0 /\ Weight(O, hist, 0, n) = 0 /\ Weighs(h(0), 0) = 0
    BY SumEquations DEF Worth, Weight, Weighs
  <2>4. \A s \in A : Held(h(0), 0, s) = 0 /\ Sum(Column(O, Ones(0), 0, s), 0) = 0
    BY SumEquations DEF Held
  <2>5. 2 * Worth(O, 0) = 0 * Pow2(0)
    BY <2>3, Pow2Equations
  <2>6. Picks(hist, cap, n, 0, 0, O)
    BY <2>2, <2>3, <2>4, <2>5 DEF Picks
  <2> QED BY <2>1, <2>6
<1>3. ASSUME NEW k \in Nat, k + 1 <= cap, Good(k) PROVE Good(k + 1)
  <2> DEFINE I == h(k)
             J == h(k + 1)
             g == LeavesAmong(LeafItems(hist), Packaged(I))
  <2> SUFFICES ASSUME NEW t \in 0 .. Len(J)
               PROVE  \E P : Picks(hist, cap, n, k + 1, t, P)
    OBVIOUS
  <2>1. k \in 0 .. cap - 1 /\ k + 1 >= 1 /\ (k + 1) - 1 = k /\ k + 1 \in 0 .. cap
    BY <1>3
  <2>2. /\ g[t] \in 0 .. m /\ t - g[t] \in 0 .. Len(Packaged(I))
        /\ 2 * (t - g[t]) \in 0 .. Len(I)
        /\ Weighs(J, t) = Over(hist, Lightest(hist, g[t]), n) + Weighs(I, 2 * (t - g[t]))
        /\ \A s \in A : Held(J, t, s) = (IF Rank(hist, s) <= g[t] THEN 1 ELSE 0)
                                        + Held(I, 2 * (t - g[t]), s)
    BY <2>1, LevelStep
  <2>3. Len(J) \in Nat /\ Len(Packaged(I)) \in Nat
    BY <2>1, LevelFacts, ListTyped
  <2>4. PICK a \in 0 .. m, b \in 0 .. Len(Packaged(I)) :
           /\ a = g[t] /\ b = t - a /\ a \in Nat /\ b \in Nat /\ t \in Nat /\ t = a + b
           /\ 2 * b \in 0 .. Len(I)
    <3> HIDE DEF g, I, J, m
    <3>1. t \in Nat
      BY <2>3
    <3> QED BY <1>1, <2>2, <2>3, <3>1
  <2>5. PICK O : Picks(hist, cap, n, k, 2 * b, O)
    BY <1>3, <2>4
  <2> DEFINE T == Lightest(hist, a)
             P == [j \in 1 .. k + 1 |-> IF j = k + 1 THEN T ELSE O[j]]
  <2>6. T \in SUBSET A /\ Cardinality(T) = a
    BY <2>4, LightestFacts
  <2>7. O \in [1 .. k -> SUBSET A] /\ Ascending(O, k)
    BY <2>5 DEF Picks
  <2>8. /\ P \in [1 .. k + 1 -> SUBSET A]
        /\ P[k + 1] = T /\ \A j \in 1 .. k : O[j] = P[j]
    <3> HIDE DEF T, A
    <3> QED BY <2>6, <2>7
  <2>9. \A j \in 1 .. k : O[j] \subseteq T
    <3> SUFFICES ASSUME NEW j \in 1 .. k PROVE O[j] \subseteq T
      OBVIOUS
    <3> DEFINE f == LeavesAmong(LeafItems(hist), Packaged(h(k - 1)))
    <3>1. O[j] \subseteq O[k]
      <4>1. k \in 1 .. k /\ j <= k
        OBVIOUS
      <4> QED BY <2>7, <4>1 DEF Ascending
    <3>2. O[k] = Lightest(hist, f[2 * b])
      <4>1. k >= 1
        OBVIOUS
      <4> QED BY <2>5, <4>1 DEF Picks
    <3>3. f[2 * b] <= a
      <4>1. k - 1 \in 0 .. cap - 2 /\ (k - 1) + 1 = k /\ (k - 1) + 2 = k + 1
        BY <2>1
      <4> DEFINE H == h(k - 1)
      <4>2. f[2 * (t - g[t])] <= g[t]
        BY <4>1, Nested
      <4> QED BY <2>4, <4>2
    <3>4. f[2 * b] \in Nat
      <4>1. k - 1 \in 0 .. cap - 1 /\ (k - 1) + 1 = k
        BY <2>1
      <4>2. \A u \in 0 .. Len(ItemsAt(hist, cap, (k - 1) + 1)) : f[u] \in 0 .. m
        BY ONLY IsHistogram(hist, n), cap \in Nat, <4>1, LevelStep
      <4>3. f[2 * b] \in 0 .. m
        BY <2>4, <4>1, <4>2
      <4> QED BY <1>1, <4>3
    <3>5. Lightest(hist, f[2 * b]) \subseteq T
      <4>1. \A s \in A : Rank(hist, s) \in 1 .. m
        BY OrderedFacts
      <4> DEFINE c == f[2 * b]
      <4>2. c \in Nat /\ c <= a
        BY <3>3, <3>4
      <4> HIDE DEF c, m
      <4>3. \A r \in 1 .. m : r <= c => r <= a
        <5>1. m \in Nat /\ a \in Nat
          BY <1>1, <2>4
        <5> QED BY ONLY <4>2, <5>1
      <4>4. Lightest(hist, c) \subseteq T
        BY <4>1, <4>3 DEF Lightest
      <4> QED BY <4>4 DEF c
    <3> QED BY <3>1, <3>2, <3>5
  <2>10. Ascending(P, k + 1)
    <3> SUFFICES ASSUME NEW i \in 1 .. k + 1, NEW j \in 1 .. k + 1, i <= j
                 PROVE  P[i] \subseteq P[j]
      BY DEF Ascending
    <3> HIDE DEF P, T
    <3>1. CASE j = k + 1
      BY <2>8, <2>9, <3>1
    <3>2. CASE j # k + 1
      <4>1. i \in 1 .. k /\ j \in 1 .. k
        BY <3>2
      <4> QED BY <2>7, <2>8, <4>1 DEF Ascending
    <3> QED BY <3>1, <3>2
  <2> HIDE DEF P, T, A, m
  <2>11. /\ Worth(P, k + 1) = Worth(O, k) + Pow2(k) * a
         /\ Weight(P, hist, k + 1, n) = Weight(O, hist, k, n) + Over(hist, T, n)
         /\ \A s : Sum(Column(P, Ones(k + 1), k + 1, s), k + 1)
                     = Sum(Column(O, Ones(k), k, s), k) + (IF s \in T THEN 1 ELSE 0)
    <3> DEFINE V == P[k + 1]
    <3>1. V = T
      BY <2>8
    <3>2. /\ Worth(P, k + 1) = Worth(O, k) + Pow2(k) * Cardinality(V)
          /\ Weight(P, hist, k + 1, n) = Weight(O, hist, k, n) + Over(hist, V, n)
          /\ \A s : Sum(Column(P, Ones(k + 1), k + 1, s), k + 1)
                      = Sum(Column(O, Ones(k), k, s), k) + (IF s \in V THEN 1 ELSE 0)
      <4>1. Tops(P, O, k, A)
        BY <2>7, <2>8 DEF Tops
      <4>2. PICK e : e = k + 1
        OBVIOUS
      <4>3. /\ Worth(P, e) = Worth(O, k) + Pow2(k) * Cardinality(P[e])
            /\ Weight(P, hist, e, n) = Weight(O, hist, k, n) + Over(hist, P[e], n)
            /\ \A s : Sum(Column(P, Ones(e), e, s), e)
                        = Sum(Column(O, Ones(k), k, s), k) + (IF s \in P[e] THEN 1 ELSE 0)
        <5>1. TopAdds(P, O, k, e)
          BY ONLY k \in Nat, <4>1, <4>2, TopLayer
        <5> QED BY ONLY <5>1 DEF TopAdds
      <4> QED BY ONLY <4>2, <4>3
    <3> HIDE DEF V
    <3> QED BY ONLY <2>6, <3>1, <3>2
  <2>12. 2 * Worth(P, k + 1) = t * Pow2(k + 1)
    <3>1. 2 * Worth(O, k) = (2 * b) * Pow2(k) /\ Pow2(k) \in Nat /\ Pow2(k + 1) = 2 * Pow2(k)
      BY <2>5, Pow2Equations, Pow2Type DEF Picks
    <3>2. Worth(O, k) \in Nat
      <4> DEFINE u == [j \in 1 .. k |-> Pow2(j - 1) * Cardinality(O[j])]
      <4>1. \A j \in 1 .. k : u[j] \in Nat
        <5> SUFFICES ASSUME NEW j \in 1 .. k PROVE u[j] \in Nat
          OBVIOUS
        <5>1. O[j] \in SUBSET (0 .. n - 1)
          BY <1>1, <2>7
        <5>2. Cardinality(O[j]) \in Nat
          BY <1>1, <5>1, FiniteBelow
        <5>3. j - 1 \in Nat
          BY ONLY j \in 1 .. k
        <5>4. Pow2(j - 1) \in Nat
          BY ONLY <5>3, Pow2Type
        <5> QED BY <5>2, <5>4
      <4> HIDE DEF u
      <4>2. Sum(u, k) \in Nat
        BY <4>1, SumNat
      <4> QED BY <4>2 DEF Worth, u
    <3> DEFINE p == Pow2(k)
    <3>3. p \in Nat /\ 2 * Worth(O, k) = (2 * b) * p
      BY <3>1
    <3>4. Worth(P, k + 1) = Worth(O, k) + p * a
      BY <2>11
    <3> HIDE DEF p
    <3>5. \A x, y, z \in Nat : (2 * y) * z = 2 * (y * z) /\ z * x \in Nat /\ y * z \in Nat
                               /\ (x + y) * (2 * z) = 2 * (y * z) + 2 * (z * x)
      OBVIOUS
    <3>6. /\ p * a \in Nat /\ b * p \in Nat /\ (2 * b) * p = 2 * (b * p)
          /\ (a + b) * (2 * p) = 2 * (b * p) + 2 * (p * a)
      <4>1. a \in Nat /\ b \in Nat /\ p \in Nat
        BY <2>4, <3>3
      <4> HIDE DEF p
      <4> QED BY ONLY <4>1
    <3> DEFINE c == p * a
               d == b * p
    <3>7. c \in Nat /\ d \in Nat /\ 2 * Worth(O, k) = 2 * d /\ Worth(P, k + 1) = Worth(O, k) + c
          /\ t * (2 * p) = 2 * d + 2 * c
      BY ONLY <2>4, <3>3, <3>4, <3>6
    <3> HIDE DEF c, d
    <3>8. 2 * Worth(P, k + 1) = t * (2 * p)
      BY ONLY <3>2, <3>7
    <3> QED BY <3>1, <3>8 DEF p
  <2>13. Weighs(J, t) = Weight(P, hist, k + 1, n)
    <3>1. Weighs(I, 2 * b) = Weight(O, hist, k, n)
      BY <2>5 DEF Picks
    <3>2. Weighs(J, t) = Over(hist, T, n) + Weighs(I, 2 * b)
      BY <2>2, <2>4 DEF T
    <3>3. Weight(O, hist, k, n) \in Nat /\ Over(hist, T, n) \in Nat
      <4>1. \A s \in A : hist[s] \in Nat
        BY ActiveFacts DEF A
      <4>2. Over(hist, T, n) \in Nat
        BY <1>1, <2>6, <4>1, OverNat
      <4> DEFINE u == [j \in 1 .. k |-> Over(hist, O[j], n)]
      <4>3. \A j \in 1 .. k : u[j] \in Nat
        <5> SUFFICES ASSUME NEW j \in 1 .. k PROVE u[j] \in Nat
          OBVIOUS
        <5>1. O[j] \in SUBSET A /\ O[j] \in SUBSET (0 .. n - 1)
          BY <1>1, <2>7
        <5> QED BY <1>1, <4>1, <5>1, OverNat
      <4> HIDE DEF u
      <4>4. Sum(u, k) \in Nat
        BY <4>3, SumNat
      <4> QED BY <4>2, <4>4 DEF Weight, u
    <3> QED BY ONLY <2>11, <3>1, <3>2, <3>3
  <2>14. \A s \in A : Held(J, t, s) = Sum(Column(P, Ones(k + 1), k + 1, s), k + 1)
    <3> SUFFICES ASSUME NEW s \in A
                 PROVE  Held(J, t, s) = Sum(Column(P, Ones(k + 1), k + 1, s), k + 1)
      OBVIOUS
    <3>1. Held(I, 2 * b, s) = Sum(Column(O, Ones(k), k, s), k)
      BY <2>5 DEF Picks, A
    <3>2. Held(J, t, s) = (IF Rank(hist, s) <= a THEN 1 ELSE 0) + Held(I, 2 * b, s)
      BY <2>2, <2>4
    <3>3. s \in T <=> Rank(hist, s) <= a
      BY DEF T, A, Lightest
    <3>4. Sum(Column(O, Ones(k), k, s), k) \in Nat
      BY <2>7, Ladder
    <3> HIDE DEF I, J
    <3> QED BY ONLY <2>11, <3>1, <3>2, <3>3, <3>4
  <2>15. P[k + 1] = Lightest(hist, g[t])
    BY <2>4, <2>8 DEF T
  <2>16. Picks(hist, cap, n, k + 1, t, P)
    <3> HIDE DEF g, I, J
    <3>1. g = LeavesAmong(LeafItems(hist), Packaged(ItemsAt(hist, cap, (k + 1) - 1)))
          /\ J = ItemsAt(hist, cap, k + 1)
      BY <2>1 DEF g, I, J
    <3>2. P \in [1 .. k + 1 -> SUBSET Active(hist)]
      BY <2>8 DEF A
    <3>3. \A s \in Active(hist) :
            Held(ItemsAt(hist, cap, k + 1), t, s) = Sum(Column(P, Ones(k + 1), k + 1, s), k + 1)
      BY <2>14, <3>1 DEF A
    <3> QED BY <2>10, <2>12, <2>13, <2>15, <3>1, <3>2, <3>3 DEF Picks
  <2> QED BY <2>16
<1> HIDE DEF Good
<1>4. \A k \in S : k + 1 \in S
  BY <1>3
<1>5. S = Nat
  <2>1. 0 \in S
    BY <1>2
  <2>2. S \in SUBSET Nat
    OBVIOUS
  <2> HIDE DEF S
  <2> QED BY <1>4, <2>1, <2>2, NatSetInduction
<1> QED BY <1>5 DEF Good

LEMMA LayersNat ==
  ASSUME NEW n \in Nat, NEW S \in SUBSET (0 .. n - 1), NEW D \in Nat,
         NEW O \in [1 .. D -> SUBSET S]
  PROVE  /\ Worth(O, D) \in Nat
         /\ \A w : (\A s \in S : w[s] \in Nat) => Weight(O, w, D, n) \in Nat
<1>1. \A j \in 1 .. D : O[j] \in SUBSET S /\ O[j] \in SUBSET (0 .. n - 1) /\ j - 1 \in Nat
  <2>1. \A j \in 1 .. D : O[j] \in SUBSET S
    OBVIOUS
  <2>2. \A j \in 1 .. D : j - 1 \in Nat
    BY ONLY D \in Nat
  <2> QED BY <2>1, <2>2
<1>2. Worth(O, D) \in Nat
  <2> DEFINE u == [j \in 1 .. D |-> Pow2(j - 1) * Cardinality(O[j])]
  <2>1. ASSUME NEW j \in 1 .. D PROVE u[j] \in Nat
    <3>1. Cardinality(O[j]) \in Nat
      BY <1>1, FiniteBelow
    <3>2. Pow2(j - 1) \in Nat
      BY <1>1, Pow2Type
    <3> QED BY <3>1, <3>2
  <2> HIDE DEF u
  <2>2. Sum(u, D) \in Nat
    BY <2>1, SumNat
  <2> QED BY <2>2 DEF Worth, u
<1>3. ASSUME NEW w, \A s \in S : w[s] \in Nat PROVE Weight(O, w, D, n) \in Nat
  <2> DEFINE u == [j \in 1 .. D |-> Over(w, O[j], n)]
  <2>1. \A j \in 1 .. D : u[j] \in Nat
    BY <1>1, <1>3, OverNat
  <2> HIDE DEF u
  <2>2. Sum(u, D) \in Nat
    BY <2>1, SumNat
  <2> QED BY <2>2 DEF Weight, u
<1> QED BY <1>2, <1>3

LEMMA WeighsNat ==
  ASSUME NEW A, NEW I, IsList(I, A), NEW t \in 0 .. Len(I)
  PROVE  t \in Nat /\ Weighs(I, t) \in Nat
<1> DEFINE u == [p \in 1 .. t |-> I[p].weight]
<1>1. /\ t \in Nat /\ \A p \in 1 .. t : p \in 1 .. Len(I)
      /\ \A p \in 1 .. Len(I) : I[p].weight \in Nat
  BY ListTyped
<1>2. \A p \in 1 .. t : u[p] \in Nat
  BY <1>1
<1> HIDE DEF u
<1>3. Sum(u, t) \in Nat
  BY <1>1, <1>2, SumNat
<1> QED BY <1>1, <1>3 DEF Weighs, u

(* Layers worth t items of level k weigh at least as much as the first t.    *)
LEMMA PicksLeast ==
  ASSUME NEW n, NEW hist, IsHistogram(hist, n), NEW cap \in Nat
  PROVE  \A k \in 0 .. cap : \A P \in [1 .. k -> SUBSET Active(hist)] : \A t \in Nat :
            t * Pow2(k) <= 2 * Worth(P, k) =>
              /\ t <= Len(ItemsAt(hist, cap, k))
              /\ Weighs(ItemsAt(hist, cap, k), t) <= Weight(P, hist, k, n)
<1> DEFINE m == Leaves(hist)
           A == Active(hist)
           h(k) == ItemsAt(hist, cap, k)
           Good(k) == \A P \in [1 .. k -> SUBSET A] : \A t \in Nat :
                        t * Pow2(k) <= 2 * Worth(P, k) =>
                          t <= Len(h(k)) /\ Weighs(h(k), t) <= Weight(P, hist, k, n)
           S == {k \in Nat : k <= cap => Good(k)}
<1>1. /\ n \in Nat /\ A \in SUBSET (0 .. n - 1) /\ m \in Nat
      /\ \A s \in A : hist[s] \in Nat
  BY ActiveFacts DEF IsHistogram
<1>2. Good(0)
  <2> SUFFICES ASSUME NEW P \in [1 .. 0 -> SUBSET A], NEW t \in Nat,
                      t * Pow2(0) <= 2 * Worth(P, 0)
               PROVE  t <= Len(h(0)) /\ Weighs(h(0), t) <= Weight(P, hist, 0, n)
    OBVIOUS
  <2>1. Worth(P, 0) = 0 /\ Weight(P, hist, 0, n) = 0 /\ Weighs(h(0), 0) = 0 /\ Pow2(0) = 1
    BY SumEquations, Pow2Equations DEF Worth, Weight, Weighs
  <2>2. t = 0
    BY <2>1
  <2>3. Len(h(0)) = 0
    BY DEF ItemsAt
  <2> QED BY <2>1, <2>2, <2>3
<1>3. ASSUME NEW k \in Nat, k + 1 <= cap, Good(k) PROVE Good(k + 1)
  <2> DEFINE I == h(k)
             J == h(k + 1)
             q == Pow2(k)
  <2> SUFFICES ASSUME NEW P \in [1 .. k + 1 -> SUBSET A], NEW t \in Nat,
                      t * Pow2(k + 1) <= 2 * Worth(P, k + 1)
               PROVE  t <= Len(J) /\ Weighs(J, t) <= Weight(P, hist, k + 1, n)
    OBVIOUS
  <2>1. k \in 0 .. cap - 1 /\ k \in 0 .. cap /\ k + 1 \in 0 .. cap
    BY <1>3
  <2> DEFINE T == P[k + 1]
             O == [j \in 1 .. k |-> P[j]]
  <2>2. /\ Tops(P, O, k, A) /\ O \in [1 .. k -> SUBSET A] /\ T \in SUBSET A
        /\ T \in SUBSET (0 .. n - 1)
    <3>1. k + 1 \in 1 .. k + 1 /\ \A j \in 1 .. k : j \in 1 .. k + 1
      OBVIOUS
    <3> HIDE DEF A
    <3> QED BY <1>1, <3>1 DEF Tops
  <2> HIDE DEF O
  <2>3. PICK o \in 0 .. m : o = Cardinality(T) /\ Over(hist, Lightest(hist, o), n) <= Over(hist, T, n)
    BY <2>2, LightestLeast
  <2>4. PICK e : e = k + 1
    OBVIOUS
  <2>5. TopAdds(P, O, k, e)
    BY <2>2, <2>4, TopLayer
  <2> HIDE DEF A, m
  <2>6. /\ Worth(P, e) = Worth(O, k) + q * o
        /\ Weight(P, hist, e, n) = Weight(O, hist, k, n) + Over(hist, T, n)
    <3>1. /\ Worth(P, e) = Worth(O, k) + Pow2(k) * Cardinality(P[e])
          /\ Weight(P, hist, e, n) = Weight(O, hist, k, n) + Over(hist, P[e], n)
      BY ONLY <2>5 DEF TopAdds
    <3> HIDE DEF T
    <3>2. P[e] = T
      BY <2>4 DEF T
    <3> QED BY ONLY <2>3, <3>1, <3>2
  <2>7. /\ q \in Nat \ {0} /\ Pow2(e) = 2 * q
        /\ Worth(O, k) \in Nat /\ Weight(O, hist, k, n) \in Nat /\ Over(hist, T, n) \in Nat
    <3>1. q \in Nat \ {0} /\ Pow2(e) = 2 * q
      BY <2>4, Pow2Equations, Pow2Type
    <3>2. Worth(O, k) \in Nat /\ Weight(O, hist, k, n) \in Nat
      BY <1>1, <2>2, LayersNat
    <3>3. Over(hist, T, n) \in Nat
      <4>1. \A s \in T : hist[s] \in Nat
        BY <1>1, <2>2
      <4> HIDE DEF T
      <4> QED BY <1>1, <2>2, <4>1, OverNat
    <3> QED BY <3>1, <3>2, <3>3
  <2>8. /\ IsList(I, A) /\ IsList(J, A) /\ Len(J) = m + Len(Packaged(I))
        /\ IsList(Packaged(I), A)
    BY <2>1, LevelFacts DEF A, m
  <2>9. /\ Len(I) \in Nat /\ Len(J) \in Nat /\ Len(Packaged(I)) \in Nat
        /\ Len(Packaged(I)) = Len(I) \div 2
    BY <2>8, ListTyped, PackagedList
  <2>10. \A a \in 0 .. m : \A b \in 0 .. Len(Packaged(I)) :
           Weighs(J, a + b) <= Over(hist, Lightest(hist, a), n) + Weighs(I, 2 * b)
    BY <2>1, LevelStep DEF m
  <2>11. ASSUME NEW a \in 0 .. m
         PROVE  /\ Over(hist, Lightest(hist, a), n) \in Nat
                /\ a <= o => Over(hist, Lightest(hist, a), n) <= Over(hist, Lightest(hist, o), n)
    <3>1. Lightest(hist, a) \in SUBSET A /\ Lightest(hist, o) \in SUBSET A
      BY DEF Lightest, A
    <3>2. a <= o => Lightest(hist, a) \in SUBSET Lightest(hist, o)
      <4>1. \A s \in Active(hist) : Rank(hist, s) \in 1 .. m
        BY OrderedFacts DEF m
      <4> QED BY <1>1, <2>3, <4>1 DEF Lightest
    <3> DEFINE L == Lightest(hist, a)
               M == Lightest(hist, o)
    <3>3. /\ L \in SUBSET (0 .. n - 1) /\ M \in SUBSET (0 .. n - 1) /\ (a <= o => L \in SUBSET M)
          /\ \A s \in L : hist[s] \in Nat
          /\ \A s \in M : hist[s] \in Nat
      BY <1>1, <3>1, <3>2
    <3> HIDE DEF L, M
    <3>4. Over(hist, L, n) \in Nat /\ (a <= o => Over(hist, L, n) <= Over(hist, M, n))
      <4>0. n \in Nat
        BY <1>1
      <4>1. Over(hist, L, n) \in Nat
        BY ONLY <3>3, <4>0, OverNat
      <4>2. ASSUME a <= o PROVE Over(hist, L, n) <= Over(hist, M, n)
        <5>1. L \in SUBSET M /\ M \in SUBSET (0 .. n - 1) /\ \A s \in M : hist[s] \in Nat
          BY <3>3, <4>2
        <5> QED BY ONLY <4>0, <5>1, OverSubset
      <4> QED BY <4>1, <4>2
    <3> QED BY <3>4 DEF L, M
  <2>12. t * (2 * q) <= 2 * (Worth(O, k) + q * o)
    BY <2>4, <2>6, <2>7
  <2> HIDE DEF I, J, T
  <2>13. CASE t <= o
    <3>1. t \in 0 .. m /\ 0 \in 0 .. Len(Packaged(I)) /\ t <= Len(J) /\ t + 0 = t /\ 2 * 0 = 0
      BY <1>1, <2>3, <2>8, <2>9, <2>13
    <3>2. Weighs(J, t) <= Over(hist, Lightest(hist, t), n) + Weighs(I, 0)
      BY ONLY <2>10, <3>1
    <3>3. Weighs(I, 0) = 0
      BY SumEquations DEF Weighs
    <3>4. Weighs(J, t) \in Nat
      <4>1. t \in 0 .. Len(J)
        BY <3>1
      <4> QED BY <2>8, <4>1, WeighsNat
    <3>5. Over(hist, Lightest(hist, t), n) \in Nat /\ Over(hist, Lightest(hist, o), n) \in Nat
          /\ Over(hist, Lightest(hist, t), n) <= Over(hist, Lightest(hist, o), n)
      BY <2>11, <2>13, <3>1
    <3>6. Weighs(J, t) <= Weight(P, hist, e, n)
      BY ONLY <2>3, <2>6, <2>7, <3>2, <3>3, <3>4, <3>5
    <3> QED BY <2>4, <3>1, <3>6
  <2>14. CASE ~ (t <= o)
    <3>1. PICK b \in Nat : t = o + b
      <4>1. o \in Nat
        BY <1>1
      <4>2. t - o \in Nat /\ t = o + (t - o)
        BY ONLY <2>14, <4>1, t \in Nat
      <4> QED BY <4>2
    <3>2. (2 * b) * q <= 2 * Worth(O, k)
      <4>1. o \in Nat
        BY <1>1
      <4> DEFINE c == o * q
                 d == b * q
      <4>2. /\ c \in Nat /\ d \in Nat /\ q * o = c /\ (2 * b) * q = 2 * d
            /\ (o + b) * (2 * q) = 2 * c + 2 * d
        <5>1. q \in Nat /\ b \in Nat
          BY <2>7
        <5> HIDE DEF q
        <5> QED BY ONLY <4>1, <5>1
      <4> HIDE DEF c, d, q
      <4>3. 2 * c + 2 * d <= 2 * (Worth(O, k) + c)
        BY ONLY <2>12, <3>1, <4>2
      <4> QED BY ONLY <2>7, <4>2, <4>3
    <3>3. 2 * b \in Nat /\ 2 * b <= Len(I) /\ Weighs(I, 2 * b) <= Weight(O, hist, k, n)
      <4>1. 2 * b \in Nat
        OBVIOUS
      <4> QED BY <1>3, <2>2, <3>2, <4>1 DEF I
    <3>4. b \in 0 .. Len(Packaged(I)) /\ t <= Len(J) /\ 2 * b \in 0 .. Len(I) /\ t \in 0 .. Len(J)
      <4>1. b <= Len(Packaged(I))
        BY ONLY <2>9, <3>1, <3>3
      <4>2. o \in Nat /\ o <= m
        BY <1>1
      <4>3. t <= Len(J)
        BY ONLY <1>1, <2>8, <2>9, <3>1, <4>1, <4>2
      <4> QED BY ONLY <2>9, <3>1, <3>3, <4>1, <4>3, t \in Nat
    <3>5. Weighs(J, t) <= Over(hist, Lightest(hist, o), n) + Weighs(I, 2 * b)
      BY ONLY <2>10, <3>1, <3>4, o \in 0 .. m
    <3>6. Weighs(J, t) \in Nat /\ Weighs(I, 2 * b) \in Nat
      BY <2>8, <3>4, WeighsNat
    <3>7. Over(hist, Lightest(hist, o), n) \in Nat
      BY <2>11
    <3>8. Weighs(J, t) <= Weight(P, hist, e, n)
      <4> DEFINE x == Weighs(J, t)
                 y == Over(hist, Lightest(hist, o), n)
                 z == Weighs(I, 2 * b)
                 u == Weight(O, hist, k, n)
                 v == Over(hist, T, n)
      <4>1. y <= v /\ v \in Nat
        BY ONLY <2>3, <2>7
      <4>2. z <= u /\ u \in Nat
        BY ONLY <2>7, <3>3
      <4>3. x <= y + z /\ x \in Nat /\ y \in Nat /\ z \in Nat
        BY ONLY <3>5, <3>6, <3>7
      <4>4. Weight(P, hist, e, n) = u + v
        BY ONLY <2>6
      <4> HIDE DEF x, y, z, u, v
      <4>5. x <= u + v
        BY ONLY <4>1, <4>2, <4>3
      <4> QED BY ONLY <4>4, <4>5 DEF x
    <3> QED BY <2>4, <3>4, <3>8
  <2> QED BY <2>13, <2>14 DEF J
<1> HIDE DEF Good
<1>4. \A k \in S : k + 1 \in S
  BY <1>3
<1>5. S = Nat
  <2>1. 0 \in S
    BY <1>2
  <2>2. S \in SUBSET Nat
    OBVIOUS
  <2> HIDE DEF S
  <2> QED BY <1>4, <2>1, <2>2, NatSetInduction
<1> QED BY <1>5 DEF Good

(* What a histogram's residuals take with codes of these lengths.            *)
Cost(hist, l, n) == Over([s \in Active(hist) |-> hist[s] * l[s]], Active(hist), n)

(* package_merge_lengths: complete, no longer than the cap, and no lengths   *)
(* of a prefix code under the cap cost less.                                 *)
THEOREM PackageMergeBest ==
  ASSUME NEW n, NEW hist, IsHistogram(hist, n), NEW cap \in Nat \ {0},
         2 <= Leaves(hist), Leaves(hist) <= Pow2(cap),
         NEW l, l = PackageMergeLengths(hist, cap)
  PROVE  /\ \A s \in DOMAIN hist : s \notin Active(hist) => l[s] = 0
         /\ \A s \in Active(hist) : l[s] \in 1 .. cap
         /\ Space(l, Active(hist), cap, n) = Pow2(cap)
         /\ \A other : /\ \A s \in Active(hist) : other[s] \in 1 .. cap
                       /\ Space(other, Active(hist), cap, n) <= Pow2(cap)
                       => Cost(hist, l, n) <= Cost(hist, other, n)
<1> DEFINE m == Leaves(hist)
           A == Active(hist)
           I == ItemsAt(hist, cap, cap)
           need == 2 * m - 2
           d == [s \in A |-> Held(I, need, s)]
           q == Pow2(cap)
<1>1. /\ n \in Nat /\ A \in SUBSET (0 .. n - 1) /\ m \in Nat /\ DOMAIN hist = 0 .. n - 1
      /\ \A s \in A : hist[s] \in Nat
  BY ActiveFacts DEF IsHistogram
<1>2. cap \in Nat /\ cap \in 0 .. cap /\ I = Levels(hist, cap)[cap]
  BY DEF ItemsAt
<1>3. need <= Len(I) /\ Len(I) \in Nat /\ need \in Nat /\ need \in 0 .. Len(I)
  <2>1. need <= Len(I)
    BY <1>2, LevelLengths
  <2>2. Len(I) \in Nat
    BY <1>2, LevelFacts, ListTyped
  <2>3. need \in Nat
    BY <1>1
  <2> HIDE DEF need, I
  <2> QED BY <2>1, <2>2, <2>3
<1>4. Need(hist, I) = need
  BY <1>3 DEF Need, Leaves
<1>5. PICK O : Picks(hist, cap, n, cap, need, O)
  BY <1>2, <1>3, PicksExist
<1>6. /\ O \in [1 .. cap -> SUBSET A] /\ Ascending(O, cap)
      /\ \A s \in A : d[s] = Sum(Column(O, Ones(cap), cap, s), cap)
  BY <1>5 DEF Picks
<1> HIDE DEF d, I
<1>7. /\ \A s \in A : d[s] \in 0 .. cap
      /\ Worth(O, cap) + Space(d, A, cap, n) = m * q
      /\ Weight(O, hist, cap, n) = Cost(hist, d, n)
  <2>1. /\ \A s \in A : d[s] \in 0 .. cap
        /\ Worth(O, cap) + Space(d, A, cap, n) = Cardinality(A) * q
        /\ \A w : (\A s \in A : w[s] \in Nat) =>
             Weight(O, w, cap, n) = Over([s \in A |-> w[s] * d[s]], A, n)
    <3> HIDE DEF A, q
    <3>1. n \in Nat /\ A \in SUBSET (0 .. n - 1) /\ cap \in Nat /\ IsLayered(O, d, A, cap)
      BY <1>1, <1>2, <1>6 DEF IsLayered
    <3>2. /\ \A s \in A : d[s] \in 0 .. cap
          /\ Worth(O, cap) + Space(d, A, cap, n) = Cardinality(A) * Pow2(cap)
      BY ONLY <3>1, Layers
    <3>3. ASSUME NEW w, \A s \in A : w[s] \in Nat
          PROVE  Weight(O, w, cap, n) = Over([s \in A |-> w[s] * d[s]], A, n)
      BY ONLY <3>1, <3>3, LayersWeigh
    <3> QED BY <3>2, <3>3 DEF q
  <2> QED BY <1>1, <2>1 DEF Cost, Leaves
<1>8. 2 * Worth(O, cap) = need * q /\ Worth(O, cap) \in Nat /\ q \in Nat \ {0}
      /\ Weighs(I, need) = Weight(O, hist, cap, n)
  <2>1. Worth(O, cap) \in Nat
    BY <1>1, <1>2, <1>6, LayersNat
  <2>2. q \in Nat \ {0}
    BY <1>2, Pow2Type
  <2>3. 2 * Worth(O, cap) = need * q /\ Weighs(I, need) = Weight(O, hist, cap, n)
    BY <1>5 DEF Picks, I
  <2> QED BY <2>1, <2>2, <2>3
<1>9. need * q + 2 * q = 2 * (m * q) /\ need * q \in Nat /\ m * q \in Nat
  <2>1. q \in Nat
    BY <1>8
  <2> HIDE DEF q, m
  <2>2. \A x, y \in Nat : (2 * x - 2) * y + 2 * y = 2 * (x * y) /\ x * y \in Nat
    OBVIOUS
  <2>3. need * q \in Nat
    BY <1>3, <2>1
  <2> QED BY <1>1, <2>1, <2>2, <2>3
<1>10. \A s \in A : \A e \in 0 .. cap : cap - e \in Nat
  BY <1>2
<1>11. ASSUME NEW e, \A s \in A : e[s] \in 0 .. cap PROVE Space(e, A, cap, n) \in Nat
  <2>1. n \in Nat /\ A \in SUBSET (0 .. n - 1) /\ cap \in Nat /\ cap <= cap
    BY <1>1, <1>2
  <2> HIDE DEF A
  <2> QED BY ONLY <1>11, <2>1, SpaceScale
<1>12. Space(d, A, cap, n) = q
  <2> DEFINE z == Space(d, A, cap, n)
             w == Worth(O, cap)
             x == need * q
             y == m * q
  <2>1. z \in Nat /\ w \in Nat /\ x \in Nat /\ y \in Nat /\ q \in Nat
        /\ w + z = y /\ 2 * w = x /\ x + 2 * q = 2 * y
    BY <1>7, <1>8, <1>9, <1>11
  <2> HIDE DEF z, w, x, y, q
  <2>2. z = q
    BY ONLY <2>1
  <2> QED BY <2>2 DEF z
<1>13. \A s \in A : d[s] >= 1
  <2>1. Cardinality(A) >= 2
    BY <1>1 DEF Leaves
  <2> HIDE DEF A
  <2> QED BY <1>1, <1>2, <1>7, <1>12, <2>1, FullSpaceLengths DEF q
<1>14. ASSUME NEW s \in DOMAIN hist
       PROVE  l[s] = IF s \in A THEN d[s] ELSE 0
  <2>1. Cardinality(A) # 1
    BY <1>1 DEF Leaves
  <2>2. l[s] = IF s \notin A THEN 0 ELSE AtLeast1(Held(I, need, s))
    BY <1>2, <1>4, <2>1 DEF PackageMergeLengths
  <2>3. s \in A => d[s] = Held(I, need, s) /\ d[s] \in 0 .. cap /\ d[s] >= 1
    BY <1>7, <1>13 DEF d
  <2> HIDE DEF A
  <2>4. s \in A => AtLeast1(d[s]) = d[s]
    BY <1>2, <2>3 DEF AtLeast1
  <2> QED BY <2>2, <2>3, <2>4
<1>15. \A s \in A : l[s] = d[s]
  BY <1>1, <1>14
<1>16. Space(l, A, cap, n) = q /\ Cost(hist, l, n) = Cost(hist, d, n)
  <2> HIDE DEF A
  <2>1. [s \in A |-> Pow2(cap - l[s])] = [s \in A |-> Pow2(cap - d[s])]
        /\ [s \in A |-> hist[s] * l[s]] = [s \in A |-> hist[s] * d[s]]
    BY <1>15
  <2>2. Space(l, A, cap, n) = Space(d, A, cap, n)
    BY <2>1 DEF Space
  <2>3. Cost(hist, l, n) = Cost(hist, d, n)
    BY <2>1 DEF Cost, A
  <2> QED BY <1>12, <2>2, <2>3
<1>17. ASSUME NEW other, \A s \in A : other[s] \in 1 .. cap, Space(other, A, cap, n) <= q
       PROVE  Cost(hist, l, n) <= Cost(hist, other, n)
  <2> DEFINE P == LayersOf(other, A, cap)
             z == Space(other, A, cap, n)
             w == Worth(P, cap)
             x == need * q
             y == m * q
  <2>1. \A s \in A : other[s] \in 0 .. cap
    BY <1>17
  <2>2. IsLayered(P, other, A, cap) /\ P \in [1 .. cap -> SUBSET A]
    <3> HIDE DEF A
    <3>1. IsLayered(P, other, A, cap)
      BY <1>2, <2>1, LengthsAsLayers
    <3> QED BY <3>1 DEF IsLayered
  <2> HIDE DEF P, A
  <2>3. /\ w + z = y
        /\ Weight(P, hist, cap, n) = Cost(hist, other, n)
    <3>1. /\ Worth(P, cap) + Space(other, A, cap, n) = Cardinality(A) * q
          /\ \A v : (\A s \in A : v[s] \in Nat) =>
               Weight(P, v, cap, n) = Over([s \in A |-> v[s] * other[s]], A, n)
      <4>1. n \in Nat /\ A \in SUBSET (0 .. n - 1) /\ cap \in Nat
        BY <1>1, <1>2
      <4>2. Worth(P, cap) + Space(other, A, cap, n) = Cardinality(A) * Pow2(cap)
        BY ONLY <2>2, <4>1, Layers
      <4>3. ASSUME NEW v, \A s \in A : v[s] \in Nat
            PROVE  Weight(P, v, cap, n) = Over([s \in A |-> v[s] * other[s]], A, n)
        BY ONLY <2>2, <4>1, <4>3, LayersWeigh
      <4> QED BY <4>2, <4>3
    <3> QED BY <1>1, <3>1 DEF Cost, Leaves, A
  <2>4. w \in Nat
    BY <1>1, <1>2, <2>2, LayersNat
  <2>5. need * Pow2(cap) <= 2 * Worth(P, cap)
    <3>1. z \in Nat /\ z <= q /\ w \in Nat /\ x \in Nat /\ y \in Nat /\ q \in Nat
          /\ w + z = y /\ x + 2 * q = 2 * y
      BY <1>8, <1>9, <1>11, <1>17, <2>1, <2>3, <2>4
    <3> HIDE DEF z, w, x, y, q
    <3>2. x <= 2 * w
      BY ONLY <3>1
    <3> QED BY <3>2 DEF x, w, q
  <2>6. Weighs(I, need) <= Weight(P, hist, cap, n)
    <3>1. \A t \in Nat : t * Pow2(cap) <= 2 * Worth(P, cap) =>
             t <= Len(I) /\ Weighs(I, t) <= Weight(P, hist, cap, n)
      BY <1>2, <2>2, PicksLeast DEF I, A
    <3> HIDE DEF need
    <3> QED BY ONLY <1>3, <2>5, <3>1
  <2> QED BY <1>7, <1>8, <1>16, <2>3, <2>6
<1>18. \A s \in A : l[s] \in 1 .. cap
  <2> HIDE DEF A
  <2> QED BY <1>2, <1>7, <1>13, <1>15
<1> QED BY <1>14, <1>16, <1>17, <1>18

------------------------------------------------------------------------------
(* The heap of the tree.                                                     *)
LEMMA LeastExists ==
  ASSUME NEW T \in SUBSET Nat, T # {}
  PROVE  \E a \in T : \A b \in T : a <= b
<1> SUFFICES ASSUME \A a \in T : \E b \in T : ~ (a <= b) PROVE FALSE
  OBVIOUS
<1> DEFINE S == {c \in Nat : \A b \in T : c <= b}
<1>1. 0 \in S
  OBVIOUS
<1>2. ASSUME NEW c \in S PROVE c + 1 \in S
  <2>1. c \in Nat /\ c \notin T /\ \A b \in T : c <= b
    OBVIOUS
  <2> QED BY <2>1
<1>3. S = Nat
  <2> HIDE DEF S
  <2>1. S \in SUBSET Nat
    BY DEF S
  <2> QED BY <1>1, <1>2, <2>1, NatSetInduction
<1>4. PICK b \in T : TRUE
  OBVIOUS
<1>5. b \in Nat /\ b + 1 \in Nat
  OBVIOUS
<1>6. b + 1 \in S
  <2> HIDE DEF S
  <2> QED BY <1>3, <1>5
<1> QED BY <1>4, <1>5, <1>6

(* Weights are counts and no two nodes have a tag.                           *)
Ranked(nodes) ==
  /\ \A x \in nodes : x.freq \in Nat /\ x.tag \in Nat
  /\ \A x, y \in nodes : x.tag = y.tag => x = y

LEMMA FirstFacts ==
  ASSUME NEW nodes, Ranked(nodes), nodes # {}
  PROVE  /\ First(nodes) \in nodes
         /\ \A b \in nodes : First(nodes).freq <= b.freq
<1> DEFINE F == {x.freq : x \in nodes}
<1>1. PICK f \in F : \A g \in F : f <= g
  <2>1. F \in SUBSET Nat /\ F # {}
    BY DEF Ranked
  <2> HIDE DEF F
  <2> QED BY <2>1, LeastExists
<1>2. \A x \in nodes : f <= x.freq
  BY <1>1
<1> DEFINE T == {x.tag : x \in {y \in nodes : y.freq = f}}
<1>3. PICK t \in T : \A u \in T : t <= u
  <2>1. T \in SUBSET Nat /\ T # {}
    BY <1>1 DEF Ranked
  <2> HIDE DEF T
  <2> QED BY <2>1, LeastExists
<1>4. PICK a \in nodes : a.freq = f /\ a.tag = t
  BY <1>3
<1>5. ASSUME NEW b \in nodes \ {a} PROVE Before(a, b)
  <2>1. f <= b.freq /\ b.freq \in Nat /\ f \in Nat /\ b.tag \in Nat /\ t \in Nat
    BY <1>2, <1>4 DEF Ranked
  <2>2. b.tag # t
    BY <1>4 DEF Ranked
  <2>3. b.freq = f => t <= b.tag
    BY <1>3
  <2> HIDE DEF F, T
  <2> QED BY <1>4, <2>1, <2>2, <2>3 DEF Before
<1>6. First(nodes) \in nodes /\ \A b \in nodes \ {First(nodes)} : Before(First(nodes), b)
  <2>1. \E c \in nodes : \A b \in nodes \ {c} : Before(c, b)
    BY <1>5
  <2> QED BY <2>1 DEF First
<1>7. ASSUME NEW b \in nodes PROVE First(nodes).freq <= b.freq
  <2>1. CASE b = First(nodes)
    BY <2>1 DEF Ranked
  <2>2. CASE b # First(nodes)
    <3>1. Before(First(nodes), b)
      BY <1>6, <2>2
    <3>2. b.freq \in Nat /\ First(nodes).freq \in Nat
      BY <1>6 DEF Ranked
    <3> QED BY <3>1, <3>2 DEF Before
  <2> QED BY <2>1, <2>2
<1> QED BY <1>6, <1>7

HeapsUpTo(hist, heap, n) ==
  heap = [k \in 0 .. n |->
            IF k = 0 THEN {Leaf(hist, s) : s \in Active(hist)}
            ELSE Round(heap[k - 1], FirstTag + k - 1)]

LEMMA HeapsExist ==
  ASSUME NEW hist, NEW n \in Nat
  PROVE  \E heap : HeapsUpTo(hist, heap, n)
<1> DEFINE L == {Leaf(hist, s) : s \in Active(hist)}
           Up(H, k) == Round(H, FirstTag + k - 1)
           S == {m \in Nat : \E heap : HeapsUpTo(hist, heap, m)}
<1>0. \A heap, m : HeapsUpTo(hist, heap, m)
         <=> heap = [k \in 0 .. m |-> IF k = 0 THEN L ELSE Up(heap[k - 1], k)]
  BY DEF HeapsUpTo
<1> HIDE DEF L, Up
<1>1. 0 \in S
  <2> DEFINE f == [k \in 0 .. 0 |-> L]
  <2>1. f = [k \in 0 .. 0 |-> IF k = 0 THEN L ELSE Up(f[k - 1], k)]
    <3> HIDE DEF f
    <3>1. \A k \in 0 .. 0 : k = 0
      OBVIOUS
    <3> QED BY <3>1 DEF f
  <2> HIDE DEF f
  <2>2. HeapsUpTo(hist, f, 0)
    BY <1>0, <2>1
  <2> QED BY <2>2
<1>2. ASSUME NEW m \in S PROVE m + 1 \in S
  <2>1. PICK g : HeapsUpTo(hist, g, m)
    OBVIOUS
  <2>2. g = [k \in 0 .. m |-> IF k = 0 THEN L ELSE Up(g[k - 1], k)]
    BY <1>0, <2>1
  <2> DEFINE h == [k \in 0 .. m + 1 |-> IF k = m + 1 THEN Up(g[k - 1], k) ELSE g[k]]
  <2>3. ASSUME NEW k \in 0 .. m + 1
        PROVE  h[k] = IF k = 0 THEN L ELSE Up(h[k - 1], k)
    <3>1. CASE k = m + 1
      <4>1. k # 0 /\ k - 1 \in 0 .. m + 1 /\ k - 1 # m + 1
        BY <3>1
      <4> QED BY <3>1, <4>1
    <3>2. CASE k # m + 1
      <4>1. k \in 0 .. m /\ h[k] = g[k]
        BY <3>2
      <4>2. g[k] = IF k = 0 THEN L ELSE Up(g[k - 1], k)
        BY <2>2, <4>1
      <4>3. k # 0 => k - 1 \in 0 .. m + 1 /\ k - 1 # m + 1
        BY <4>1
      <4> QED BY <4>1, <4>2, <4>3
    <3> QED BY <3>1, <3>2
  <2>4. h = [k \in 0 .. m + 1 |-> h[k]]
    OBVIOUS
  <2> HIDE DEF h
  <2>5. h = [k \in 0 .. m + 1 |-> IF k = 0 THEN L ELSE Up(h[k - 1], k)]
    BY <2>3, <2>4
  <2>6. HeapsUpTo(hist, h, m + 1)
    BY <1>0, <2>5
  <2> QED BY <2>6
<1>3. S = Nat
  <2> HIDE DEF S
  <2>1. S \in SUBSET Nat
    BY DEF S
  <2> QED BY <1>1, <1>2, <2>1, NatSetInduction
<1> QED BY <1>3

LEMMA HeapEquations ==
  ASSUME FirstTag \in Nat, NEW hist, Leaves(hist) \in Nat \ {0}
  PROVE  /\ Heaps(hist)[0] = {Leaf(hist, s) : s \in Active(hist)}
         /\ \A k \in 0 .. Leaves(hist) - 2 :
              Heaps(hist)[k + 1] = Round(Heaps(hist)[k], FirstTag + k)
<1> DEFINE G == Heaps(hist)
           p == Leaves(hist) - 1
<1>1. p \in Nat /\ p = Cardinality(Active(hist)) - 1
  BY DEF Leaves
<1>2. \E heap : HeapsUpTo(hist, heap, p)
  BY <1>1, HeapsExist
<1>3. G = CHOOSE heap : HeapsUpTo(hist, heap, p)
  BY DEF Heaps, HeapsUpTo, Leaves
<1> HIDE DEF G
<1>4. HeapsUpTo(hist, G, p)
  BY <1>2, <1>3
<1> HIDE DEF p
<1>5. G[0] = {Leaf(hist, s) : s \in Active(hist)}
  BY <1>1, <1>4 DEF HeapsUpTo
<1>6. ASSUME NEW k \in 0 .. p - 1 PROVE G[k + 1] = Round(G[k], FirstTag + k)
  <2> DEFINE R(i) == Round(G[i], FirstTag + k)
  <2>1. k + 1 \in 0 .. p /\ k + 1 # 0 /\ (k + 1) - 1 = k
    BY <1>1
  <2>2. G[k + 1] = Round(G[(k + 1) - 1], FirstTag + (k + 1) - 1)
    BY <1>4, <2>1 DEF HeapsUpTo
  <2>3. FirstTag + (k + 1) - 1 = FirstTag + k
    OBVIOUS
  <2> QED BY <2>1, <2>2, <2>3
<1>7. p - 1 = Leaves(hist) - 2
  BY DEF p
<1> QED BY <1>5, <1>6, <1>7 DEF G

LEMMA OverIf ==
  ASSUME NEW n \in Nat, NEW A, NEW T \in SUBSET A, NEW f
  PROVE  Over([s \in A |-> IF s \in T THEN f[s] ELSE 0], A, n) = Over(f, T, n)
<1> DEFINE e == [s \in A |-> IF s \in T THEN f[s] ELSE 0]
           x == Picked(e, A, n)
           y == Picked(f, T, n)
<1>1. \A i \in 1 .. n : x[i] = y[i]
  BY DEF Picked
<1> HIDE DEF x, y
<1>2. Sum(x, n) = Sum(y, n)
  BY <1>1, SumSame
<1> QED BY <1>2 DEF Over, x, y

(* A node weighs what its symbols do and its depths fill the space below it. *)
IsNode(x, hist, n, k) ==
  /\ x.tag \in Nat /\ x.tag < FirstTag + k
  /\ DOMAIN x.depth \in SUBSET Active(hist)
  /\ \A s \in DOMAIN x.depth : x.depth[s] \in 0 .. k
  /\ x.freq = Over(hist, DOMAIN x.depth, n)
  /\ Space(x.depth, DOMAIN x.depth, Leaves(hist), n) = Pow2(Leaves(hist))

LEMMA LeafNode ==
  ASSUME FirstTag \in Nat, NEW n, NEW hist, IsHistogram(hist, n), n <= FirstTag,
         NEW s \in Active(hist)
  PROVE  /\ IsNode(Leaf(hist, s), hist, n, 0)
         /\ Leaf(hist, s).freq = hist[s] /\ Leaf(hist, s).tag = s
         /\ DOMAIN Leaf(hist, s).depth = {s}
<1> DEFINE m == Leaves(hist)
           d == [x \in {s} |-> 0]
           u == [x \in {s} |-> Pow2(m - d[x])]
<1>1. /\ n \in Nat /\ s \in 0 .. n - 1 /\ s < n /\ s \in Nat /\ hist[s] \in Nat /\ m \in Nat
      /\ m - 0 = m
  <2>1. n \in Nat
    BY DEF IsHistogram
  <2>2. s \in Nat /\ s < n /\ hist[s] \in Nat /\ m \in Nat
    BY ActiveFacts
  <2> HIDE DEF m
  <2> QED BY ONLY <2>1, <2>2
<1>2. Leaf(hist, s) = [freq |-> hist[s], tag |-> s, depth |-> d] /\ DOMAIN d = {s} /\ d[s] = 0
  BY DEF Leaf
<1>3. Over(hist, {s}, n) = hist[s]
  BY <1>1, OverSingle
<1>4. Space(d, {s}, m, n) = Pow2(m)
  <2>1. u[s] = Pow2(m) /\ Pow2(m) \in Nat
    BY <1>1, <1>2, Pow2Type
  <2>2. Space(d, {s}, m, n) = Over(u, {s}, n)
    BY DEF Space
  <2> HIDE DEF u, d
  <2>3. Over(u, {s}, n) = u[s]
    BY <1>1, <2>1, OverSingle
  <2> QED BY <2>1, <2>2, <2>3
<1> HIDE DEF d
<1>5. s < FirstTag + 0
  BY <1>1
<1> QED BY <1>1, <1>2, <1>3, <1>4, <1>5 DEF IsNode

LEMMA JoinedNode ==
  ASSUME FirstTag \in Nat, NEW n, NEW hist, IsHistogram(hist, n),
         NEW k \in Nat, k + 1 <= Leaves(hist),
         NEW a, IsNode(a, hist, n, k), NEW b, IsNode(b, hist, n, k),
         DOMAIN a.depth \cap DOMAIN b.depth = {},
         NEW z, z = Joined(a, b, FirstTag + k)
  PROVE  /\ IsNode(z, hist, n, k + 1) /\ z.tag = FirstTag + k /\ z.freq = a.freq + b.freq
         /\ DOMAIN z.depth = DOMAIN a.depth \cup DOMAIN b.depth
         /\ \A s \in DOMAIN a.depth : z.depth[s] = 1 + a.depth[s]
         /\ \A s \in DOMAIN b.depth : z.depth[s] = 1 + b.depth[s]
<1> DEFINE m == Leaves(hist)
           S == DOMAIN a.depth
           T == DOMAIN b.depth
           d == z.depth
           A == Active(hist)
<1>1. /\ n \in Nat /\ A \in SUBSET (0 .. n - 1) /\ m \in Nat
      /\ \A s \in A : hist[s] \in Nat
  BY ActiveFacts DEF IsHistogram
<1>2. /\ z.tag = FirstTag + k /\ z.freq = a.freq + b.freq
      /\ d = [s \in S \cup T |-> 1 + (IF s \in S THEN a.depth[s] ELSE b.depth[s])]
  BY DEF Joined
<1>3. /\ S \in SUBSET A /\ T \in SUBSET A
      /\ S \in SUBSET (0 .. n - 1) /\ T \in SUBSET (0 .. n - 1) /\ S \cap T = {}
      /\ \A s \in S : a.depth[s] \in 0 .. k
      /\ \A s \in T : b.depth[s] \in 0 .. k
  BY <1>1 DEF IsNode
<1> HIDE DEF d, S, T, A
<1>4. /\ DOMAIN d = S \cup T /\ S \cup T \in SUBSET A /\ S \cup T \in SUBSET (0 .. n - 1)
      /\ \A s \in S : d[s] = 1 + a.depth[s]
      /\ \A s \in T : d[s] = 1 + b.depth[s]
  BY <1>2, <1>3
<1>5. \A s \in S \cup T : d[s] \in 0 .. k + 1
  BY <1>3, <1>4
<1>6. ASSUME NEW R \in SUBSET (0 .. n - 1), NEW l,
             \A s \in R : l[s] \in 0 .. k /\ d[s] = 1 + l[s],
             Space(l, R, m, n) = Pow2(m)
      PROVE  Space(d, R, m, n) \in Nat /\ 2 * Space(d, R, m, n) = Pow2(m)
  <2> DEFINE u == [s \in R |-> Pow2(m - d[s])]
             v == [s \in R |-> Pow2(m - l[s])]
  <2>1. ASSUME NEW s \in R PROVE u[s] \in Nat /\ v[s] = 2 * u[s]
    <3>1. m - d[s] \in Nat /\ m - l[s] = (m - d[s]) + 1
      BY <1>1, <1>6
    <3>2. Pow2(m - d[s]) \in Nat /\ Pow2(m - l[s]) = 2 * Pow2(m - d[s])
      BY <3>1, Pow2Type, Pow2Equations
    <3> QED BY <3>2
  <2> HIDE DEF u, v
  <2>2. Over(v, R, n) = 2 * Over(u, R, n)
    BY <1>1, <2>1, OverScale
  <2>3. Over(u, R, n) \in Nat
    BY <1>1, <2>1, OverNat
  <2>4. Space(d, R, m, n) = Over(u, R, n) /\ Space(l, R, m, n) = Over(v, R, n)
    BY DEF Space, u, v
  <2> QED BY <1>6, <2>2, <2>3, <2>4
<1>7. Space(d, S, m, n) \in Nat /\ 2 * Space(d, S, m, n) = Pow2(m)
  <2>1. Space(a.depth, S, m, n) = Pow2(m)
    BY DEF IsNode, S
  <2> QED BY <1>3, <1>4, <1>6, <2>1
<1>8. Space(d, T, m, n) \in Nat /\ 2 * Space(d, T, m, n) = Pow2(m)
  <2>1. Space(b.depth, T, m, n) = Pow2(m)
    BY DEF IsNode, T
  <2> QED BY <1>3, <1>4, <1>6, <2>1
<1>9. Space(d, S \cup T, m, n) = Space(d, S, m, n) + Space(d, T, m, n)
  <2> DEFINE u == [s \in S \cup T |-> Pow2(m - d[s])]
             v == [s \in S |-> Pow2(m - d[s])]
             w == [s \in T |-> Pow2(m - d[s])]
  <2>1. ASSUME NEW s \in S \cup T PROVE u[s] \in Nat
    <3>1. m - d[s] \in Nat
      BY <1>1, <1>5
    <3> QED BY <3>1, Pow2Type
  <2>2. (\A s \in S : u[s] = v[s]) /\ (\A s \in T : u[s] = w[s])
    OBVIOUS
  <2>3. /\ Space(d, S \cup T, m, n) = Over(u, S \cup T, n)
        /\ Space(d, S, m, n) = Over(v, S, n) /\ Space(d, T, m, n) = Over(w, T, n)
    BY DEF Space
  <2> HIDE DEF u, v, w
  <2>4. Over(u, S \cup T, n) = Over(u, S, n) + Over(u, T, n)
    BY <1>1, <1>3, <2>1, OverUnion
  <2>5. Over(u, S, n) = Over(v, S, n) /\ Over(u, T, n) = Over(w, T, n)
    BY <1>1, <2>2, OverSame
  <2> QED BY <2>3, <2>4, <2>5
<1>10. Space(d, S \cup T, m, n) = Pow2(m)
  BY <1>7, <1>8, <1>9, <1>1, Pow2Type
<1>11. z.freq = Over(hist, S \cup T, n)
  <2>1. a.freq = Over(hist, S, n) /\ b.freq = Over(hist, T, n)
    BY DEF IsNode, S, T
  <2>2. \A s \in S \cup T : hist[s] \in Nat
    BY <1>1, <1>3
  <2>3. Over(hist, S \cup T, n) = Over(hist, S, n) + Over(hist, T, n)
    BY <1>1, <1>3, <2>2, OverUnion
  <2> QED BY <1>2, <2>1, <2>3
<1>12. z.tag \in Nat /\ z.tag < FirstTag + (k + 1)
  BY <1>2
<1>13. IsNode(z, hist, n, k + 1)
  BY <1>4, <1>5, <1>10, <1>11, <1>12 DEF IsNode, d, A
<1> QED BY <1>2, <1>4, <1>13 DEF d, S, T

(* The heap after k rounds: its nodes share out the symbols that occur.      *)
HeapInv(hist, n, H, k) ==
  /\ Ranked(H) /\ IsFiniteSet(H) /\ Cardinality(H) = Leaves(hist) - k
  /\ \A x \in H : IsNode(x, hist, n, k)
  /\ \A x, y \in H : x # y => DOMAIN x.depth \cap DOMAIN y.depth = {}
  /\ \A s \in Active(hist) : \E x \in H : s \in DOMAIN x.depth

(* Two nodes, the lightest, become one.                                      *)
Joins(H, a, b, z, G) ==
  /\ a \in H /\ b \in H /\ a # b
  /\ \A x \in H : a.freq <= x.freq
  /\ \A x \in H \ {a} : b.freq <= x.freq
  /\ G = (H \ {a, b}) \cup {z}

LEMMA RoundJoins ==
  ASSUME NEW H, Ranked(H), IsFiniteSet(H), Cardinality(H) >= 2, NEW tag
  PROVE  \E a, b : Joins(H, a, b, Joined(a, b, tag), Round(H, tag))
<1> DEFINE a == First(H)
           b == First(H \ {a})
<1>1. H # {}
  BY FS_EmptySet
<1>2. a \in H /\ \A x \in H : a.freq <= x.freq
  BY <1>1, FirstFacts
<1>3. H \ {a} # {}
  <2>1. Cardinality(H \ {a}) = Cardinality(H) - 1 /\ Cardinality(H) \in Nat
    BY <1>2, FS_RemoveElement, FS_CardinalityType
  <2> HIDE DEF a
  <2>2. Cardinality(H \ {a}) # 0
    BY ONLY <2>1, Cardinality(H) >= 2
  <2> QED BY <2>2, FS_EmptySet
<1>4. b \in H \ {a} /\ \A x \in H \ {a} : b.freq <= x.freq
  <2>1. Ranked(H \ {a})
    BY DEF Ranked
  <2> HIDE DEF a
  <2> QED BY <1>3, <2>1, FirstFacts
<1>5. Round(H, tag) = (H \ {a, b}) \cup {Joined(a, b, tag)}
  BY DEF Round
<1> HIDE DEF a, b
<1>6. Joins(H, a, b, Joined(a, b, tag), Round(H, tag))
  BY <1>2, <1>4, <1>5 DEF Joins
<1> QED BY <1>6

LEMMA FirstHeap ==
  ASSUME FirstTag \in Nat, NEW n, NEW hist, IsHistogram(hist, n), n <= FirstTag,
         Leaves(hist) >= 1
  PROVE  HeapInv(hist, n, Heaps(hist)[0], 0)
<1> DEFINE A == Active(hist)
           H == {Leaf(hist, s) : s \in A}
<1>1. /\ Leaves(hist) \in Nat \ {0} /\ IsFiniteSet(A)
      /\ \A s \in A : hist[s] \in Nat /\ s \in Nat
  BY ActiveFacts
<1>2. Heaps(hist)[0] = H
  BY <1>1, HeapEquations
<1>3. \A s \in A : /\ IsNode(Leaf(hist, s), hist, n, 0)
                   /\ Leaf(hist, s).freq = hist[s] /\ Leaf(hist, s).tag = s
                   /\ DOMAIN Leaf(hist, s).depth = {s}
  BY LeafNode
<1> HIDE DEF A
<1>4. Ranked(H)
  BY <1>1, <1>3 DEF Ranked
<1>5. IsFiniteSet(H) /\ Cardinality(H) = Leaves(hist) - 0
  <2> DEFINE f == [s \in A |-> Leaf(hist, s)]
  <2>1. \A s \in A : f[s].tag = s
    BY <1>3
  <2>2. H = {f[s] : s \in A} /\ f \in [A -> H]
    OBVIOUS
  <2> HIDE DEF f, H
  <2>3. f \in Bijection(A, H)
    BY <2>1, <2>2 DEF Bijection, Injection, Surjection, IsInjective
  <2>4. IsFiniteSet(H) /\ Cardinality(H) = Cardinality(A)
    BY <1>1, <2>3, FS_Bijection DEF ExistsBijection
  <2> QED BY <1>1, <2>4 DEF Leaves, A
<1>6. \A x \in H : IsNode(x, hist, n, 0)
  BY <1>3
<1>7. \A x, y \in H : x # y => DOMAIN x.depth \cap DOMAIN y.depth = {}
  BY <1>3
<1>8. \A s \in A : \E x \in H : s \in DOMAIN x.depth
  BY <1>3
<1> QED BY <1>2, <1>4, <1>5, <1>6, <1>7, <1>8 DEF HeapInv, A

(* One round, from a heap of two nodes or more.                              *)
LEMMA NextHeap ==
  ASSUME FirstTag \in Nat, NEW n, NEW hist, IsHistogram(hist, n),
         NEW k \in 0 .. Leaves(hist) - 2, NEW H, HeapInv(hist, n, H, k),
         NEW G, G = Round(H, FirstTag + k)
  PROVE  /\ HeapInv(hist, n, G, k + 1)
         /\ \E a, b, z :
              /\ Joins(H, a, b, z, G) /\ z.tag = FirstTag + k /\ z.freq = a.freq + b.freq
              /\ DOMAIN z.depth = DOMAIN a.depth \cup DOMAIN b.depth
              /\ \A s \in DOMAIN a.depth : z.depth[s] = 1 + a.depth[s]
              /\ \A s \in DOMAIN b.depth : z.depth[s] = 1 + b.depth[s]
<1> DEFINE m == Leaves(hist)
           A == Active(hist)
<1>1. /\ n \in Nat /\ A \in SUBSET (0 .. n - 1) /\ m \in Nat
      /\ \A s \in A : hist[s] \in Nat
  BY ActiveFacts DEF IsHistogram
<1>2. k \in Nat /\ k + 1 <= m /\ m - k >= 2 /\ m - k \in Nat
  BY <1>1
<1>3. /\ Ranked(H) /\ IsFiniteSet(H) /\ Cardinality(H) = m - k
      /\ \A x \in H : IsNode(x, hist, n, k)
      /\ \A x, y \in H : x # y => DOMAIN x.depth \cap DOMAIN y.depth = {}
      /\ \A s \in A : \E x \in H : s \in DOMAIN x.depth
  BY DEF HeapInv
<1> HIDE DEF m, A
<1>4. \E p, q : Joins(H, p, q, Joined(p, q, FirstTag + k), Round(H, FirstTag + k))
  <2>1. Cardinality(H) >= 2
    BY <1>2, <1>3
  <2> QED BY <1>3, <2>1, RoundJoins
<1>5. PICK a, b : Joins(H, a, b, Joined(a, b, FirstTag + k), G)
  BY <1>4
<1> DEFINE z == Joined(a, b, FirstTag + k)
<1>6. /\ a \in H /\ b \in H /\ a # b /\ G = (H \ {a, b}) \cup {z} /\ Joins(H, a, b, z, G)
  BY <1>5 DEF Joins
<1>7. /\ IsNode(z, hist, n, k + 1) /\ z.tag = FirstTag + k /\ z.freq = a.freq + b.freq
      /\ DOMAIN z.depth = DOMAIN a.depth \cup DOMAIN b.depth
      /\ \A s \in DOMAIN a.depth : z.depth[s] = 1 + a.depth[s]
      /\ \A s \in DOMAIN b.depth : z.depth[s] = 1 + b.depth[s]
  <2>1. /\ IsNode(a, hist, n, k) /\ IsNode(b, hist, n, k)
        /\ DOMAIN a.depth \cap DOMAIN b.depth = {} /\ k + 1 <= Leaves(hist)
    BY <1>2, <1>3, <1>6 DEF m
  <2> HIDE DEF z
  <2>2. z = Joined(a, b, FirstTag + k)
    BY DEF z
  <2> QED BY ONLY FirstTag \in Nat, IsHistogram(hist, n), <1>2, <2>1, <2>2, JoinedNode
<1> HIDE DEF z
<1>8. /\ \A x \in H : x.freq \in Nat /\ x.tag \in Nat /\ x.tag < FirstTag + k
      /\ \A x, y \in H : x.tag = y.tag => x = y
  BY <1>3 DEF Ranked, IsNode
<1>9. z \notin H
  BY <1>2, <1>7, <1>8
<1>10. Ranked(G)
  <2>1. z.freq \in Nat /\ z.tag \in Nat
    BY <1>2, <1>6, <1>7, <1>8
  <2>2. \A x \in H : x.tag # z.tag
    BY <1>2, <1>7, <1>8
  <2> QED BY <1>6, <1>8, <2>1, <2>2 DEF Ranked
<1>11. IsFiniteSet(G) /\ Cardinality(G) = m - (k + 1)
  <2> DEFINE P == H \ {a}
             Q == P \ {b}
  <2>1. IsFiniteSet(P) /\ Cardinality(P) = Cardinality(H) - 1
    BY <1>3, <1>6, FS_RemoveElement
  <2>2. b \in P
    BY <1>6
  <2> HIDE DEF P
  <2>3. IsFiniteSet(Q) /\ Cardinality(Q) = Cardinality(P) - 1
    BY <2>1, <2>2, FS_RemoveElement
  <2>4. G = Q \cup {z} /\ z \notin Q
    BY <1>6, <1>9 DEF P
  <2> HIDE DEF Q
  <2>5. IsFiniteSet(G) /\ Cardinality(G) = Cardinality(Q) + 1
    BY <2>3, <2>4, FS_AddElement
  <2> QED BY ONLY <1>1, <1>2, <1>3, <2>1, <2>3, <2>5
<1>12. \A x \in G : IsNode(x, hist, n, k + 1)
  <2>1. ASSUME NEW x \in H PROVE IsNode(x, hist, n, k + 1)
    <3>1. IsNode(x, hist, n, k)
      BY <1>3
    <3>2. \A e \in 0 .. k : e \in 0 .. k + 1
      BY <1>2
    <3>3. x.tag \in Nat /\ x.tag < FirstTag + k => x.tag < FirstTag + (k + 1)
      BY <1>2
    <3> QED BY <3>1, <3>2, <3>3 DEF IsNode
  <2> QED BY <1>6, <1>7, <2>1
<1>13. \A x, y \in G : x # y => DOMAIN x.depth \cap DOMAIN y.depth = {}
  <2>1. ASSUME NEW x \in H, x # a, x # b PROVE DOMAIN x.depth \cap DOMAIN z.depth = {}
    <3>1. DOMAIN x.depth \cap DOMAIN a.depth = {} /\ DOMAIN x.depth \cap DOMAIN b.depth = {}
      BY <1>3, <1>6, <2>1
    <3> QED BY <1>7, <3>1
  <2> QED BY <1>3, <1>6, <2>1
<1>14. \A s \in A : \E x \in G : s \in DOMAIN x.depth
  <2> SUFFICES ASSUME NEW s \in A PROVE \E x \in G : s \in DOMAIN x.depth
    OBVIOUS
  <2>1. PICK x \in H : s \in DOMAIN x.depth
    BY <1>3
  <2>2. CASE x = a \/ x = b
    BY <1>6, <1>7, <2>1, <2>2
  <2>3. CASE ~ (x = a \/ x = b)
    BY <1>6, <2>1, <2>3
  <2> QED BY <2>2, <2>3
<1>15. HeapInv(hist, n, G, k + 1)
  BY <1>10, <1>11, <1>12, <1>13, <1>14 DEF HeapInv, m, A
<1> QED BY <1>6, <1>7, <1>15

(* The depth of each symbol in the forest of a heap.                         *)
Depths(hist, H) ==
  [s \in Active(hist) |-> (CHOOSE x \in H : s \in DOMAIN x.depth).depth[s]]

LEMMA DepthsAgree ==
  ASSUME NEW n, NEW hist, NEW k, NEW H, HeapInv(hist, n, H, k),
         NEW x \in H, NEW s \in DOMAIN x.depth
  PROVE  s \in Active(hist) /\ Depths(hist, H)[s] = x.depth[s]
<1>1. s \in Active(hist)
  BY DEF HeapInv, IsNode
<1> DEFINE c == CHOOSE y \in H : s \in DOMAIN y.depth
<1>2. c \in H /\ s \in DOMAIN c.depth
  OBVIOUS
<1> HIDE DEF c
<1>3. c = x
  BY <1>2 DEF HeapInv
<1>4. Depths(hist, H)[s] = c.depth[s]
  BY <1>1 DEF Depths, c
<1> QED BY <1>1, <1>3, <1>4

(* A round lengthens the codes below its two nodes by a bit.                 *)
LEMMA RoundCost ==
  ASSUME NEW n, NEW hist, IsHistogram(hist, n), NEW k \in Nat,
         NEW H, HeapInv(hist, n, H, k), NEW G, HeapInv(hist, n, G, k + 1),
         NEW a, NEW b, NEW z, Joins(H, a, b, z, G),
         DOMAIN z.depth = DOMAIN a.depth \cup DOMAIN b.depth,
         \A s \in DOMAIN a.depth : z.depth[s] = 1 + a.depth[s],
         \A s \in DOMAIN b.depth : z.depth[s] = 1 + b.depth[s]
  PROVE  Cost(hist, Depths(hist, G), n) = Cost(hist, Depths(hist, H), n) + a.freq + b.freq
<1> DEFINE A == Active(hist)
           S == DOMAIN a.depth
           T == DOMAIN b.depth
           d == Depths(hist, H)
           e == Depths(hist, G)
<1>1. /\ n \in Nat /\ A \in SUBSET (0 .. n - 1)
      /\ \A s \in A : hist[s] \in Nat
  BY ActiveFacts DEF IsHistogram
<1>2. /\ a \in H /\ b \in H /\ a # b /\ G = (H \ {a, b}) \cup {z}
  BY DEF Joins
<1>3. /\ S \in SUBSET A /\ T \in SUBSET A /\ S \cap T = {}
      /\ a.freq = Over(hist, S, n) /\ b.freq = Over(hist, T, n)
  BY <1>2 DEF HeapInv, IsNode
<1>4. ASSUME NEW s \in A
      PROVE  d[s] \in Nat /\ e[s] = d[s] + (IF s \in S \cup T THEN 1 ELSE 0)
  <2>1. PICK x \in H : s \in DOMAIN x.depth
    BY DEF HeapInv
  <2>2. d[s] = x.depth[s] /\ x.depth[s] \in 0 .. k
    <3>1. d[s] = x.depth[s]
      BY <2>1, DepthsAgree
    <3>2. x.depth[s] \in 0 .. k
      BY <2>1 DEF HeapInv, IsNode
    <3> QED BY <3>1, <3>2
  <2>3. \A y \in G : s \in DOMAIN y.depth => e[s] = y.depth[s]
    BY DepthsAgree
  <2> HIDE DEF d, e
  <2>4. CASE x = a
    BY <1>2, <2>1, <2>2, <2>3, <2>4
  <2>5. CASE x = b
    BY <1>2, <2>1, <2>2, <2>3, <2>5
  <2>6. CASE x # a /\ x # b
    <3>1. s \notin S \cup T
      BY <1>2, <2>1, <2>6 DEF HeapInv
    <3> QED BY <1>2, <2>1, <2>2, <2>3, <2>6, <3>1
  <2> QED BY <2>4, <2>5, <2>6
<1> DEFINE f == [s \in A |-> hist[s] * d[s]]
           g == [s \in A |-> IF s \in S \cup T THEN hist[s] ELSE 0]
           h == [s \in A |-> hist[s] * e[s]]
<1> HIDE DEF d, e, S, T
<1>5. ASSUME NEW s \in A PROVE f[s] \in Nat /\ g[s] \in Nat /\ h[s] = f[s] + g[s]
  <2>1. \A p, q \in Nat : p * q \in Nat /\ p * (q + 1) = p * q + p /\ p * (q + 0) = p * q
    OBVIOUS
  <2> QED BY <1>1, <1>4, <2>1
<1>6. Cost(hist, d, n) = Over(f, A, n) /\ Cost(hist, e, n) = Over(h, A, n)
  BY DEF Cost
<1>7. Over(g, A, n) = Over(hist, S \cup T, n)
  <2> DEFINE R == S \cup T
  <2>1. R \in SUBSET A /\ n \in Nat
    BY <1>1, <1>3
  <2>2. g = [s \in A |-> IF s \in R THEN hist[s] ELSE 0]
    OBVIOUS
  <2> HIDE DEF R, A, g
  <2>3. Over([s \in A |-> IF s \in R THEN hist[s] ELSE 0], A, n) = Over(hist, R, n)
    BY ONLY <2>1, OverIf
  <2> QED BY <2>2, <2>3 DEF R
<1> HIDE DEF f, g, h, A
<1>8. Over(h, A, n) = Over(f, A, n) + Over(g, A, n)
  BY <1>1, <1>5, OverPlus
<1>9. Over(hist, S \cup T, n) = Over(hist, S, n) + Over(hist, T, n)
  <2>1. /\ S \in SUBSET (0 .. n - 1) /\ T \in SUBSET (0 .. n - 1)
        /\ \A s \in S \cup T : hist[s] \in Nat
    BY <1>1, <1>3
  <2> QED BY <1>1, <1>3, <2>1, OverUnion
<1>10. Over(f, A, n) \in Nat /\ Over(hist, S, n) \in Nat /\ Over(hist, T, n) \in Nat
  <2>1. /\ S \in SUBSET (0 .. n - 1) /\ T \in SUBSET (0 .. n - 1)
        /\ (\A s \in S : hist[s] \in Nat) /\ (\A s \in T : hist[s] \in Nat)
    BY <1>1, <1>3
  <2> QED BY <1>1, <1>5, <2>1, OverNat
<1> QED BY <1>3, <1>6, <1>7, <1>8, <1>9, <1>10 DEF d, e

------------------------------------------------------------------------------
(* Code lengths for weighted symbols: they leave room in the code space, and *)
(* what they cost.                                                           *)
Fits(l, S, D, n) == (\A s \in S : l[s] \in 0 .. D) /\ Space(l, S, D, n) <= Pow2(D)
Paid(w, l, S, n) == Over([s \in S |-> w[s] * l[s]], S, n)

LessTwo(S, p, q, R) == p \in S /\ q \in S /\ p # q /\ R = S \ {p, q}
NatOn(f, S) == \A s \in S : f[s] \in Nat
AddsTwo(f, S, p, q, R, n) ==
  Over(f, R, n) \in Nat /\ Over(f, S, n) = Over(f, R, n) + f[p] + f[q]

LEMMA OverTwo ==
  ASSUME NEW n \in Nat, NEW S \in SUBSET (0 .. n - 1),
         NEW p, NEW q, NEW R, LessTwo(S, p, q, R), NEW f, NatOn(f, S)
  PROVE  AddsTwo(f, S, p, q, R, n)
<1> USE DEF LessTwo, NatOn
<1> DEFINE P == S \ {p}
           Q == P \ {q}
<1>1. /\ P \in SUBSET (0 .. n - 1) /\ Q \in SUBSET (0 .. n - 1) /\ q \in P /\ Q = S \ {p, q}
      /\ (\A s \in P : f[s] \in Nat) /\ (\A s \in Q : f[s] \in Nat)
  OBVIOUS
<1>2. Over(f, S, n) = Over(f, P, n) + f[p]
  BY OverRemove
<1> HIDE DEF P
<1>3. Over(f, P, n) = Over(f, Q, n) + f[q]
  BY <1>1, OverRemove
<1> HIDE DEF Q
<1>4. Over(f, Q, n) \in Nat
  BY <1>1, OverNat
<1>5. f[p] \in Nat /\ f[q] \in Nat
  OBVIOUS
<1>6. Over(f, S, n) = Over(f, Q, n) + f[p] + f[q]
  BY ONLY <1>2, <1>3, <1>4, <1>5
<1> QED BY <1>1, <1>4, <1>6 DEF AddsTwo

LEMMA TermsNat ==
  ASSUME NEW S, NEW D \in Nat, NEW l, \A s \in S : l[s] \in 0 .. D,
         NEW w, \A s \in S : w[s] \in Nat
  PROVE  /\ \A s \in S : l[s] \in Nat /\ w[s] * l[s] \in Nat
         /\ \A s \in S : Pow2(D - l[s]) \in Nat \ {0}
<1>1. ASSUME NEW s \in S PROVE l[s] \in Nat /\ w[s] * l[s] \in Nat
  <2>1. \A p, q \in Nat : p * q \in Nat
    OBVIOUS
  <2>2. l[s] \in Nat
    OBVIOUS
  <2> QED BY <2>1, <2>2
<1>2. ASSUME NEW s \in S PROVE Pow2(D - l[s]) \in Nat \ {0}
  <2>1. D - l[s] \in Nat
    OBVIOUS
  <2> QED BY <2>1, Pow2Type
<1> QED BY <1>1, <1>2

(* The lighter symbol may have the longer code.                              *)
LEMMA Swap ==
  ASSUME NEW n \in Nat, NEW S \in SUBSET (0 .. n - 1), NEW D \in Nat,
         NEW w, \A s \in S : w[s] \in Nat, NEW l, Fits(l, S, D, n),
         NEW p \in S, NEW q \in S, p # q, w[p] <= w[q], l[p] <= l[q]
  PROVE  \E k : /\ Fits(k, S, D, n) /\ Paid(w, k, S, n) <= Paid(w, l, S, n)
                /\ k[p] = l[q] /\ k[q] = l[p] /\ \A s \in S \ {p, q} : k[s] = l[s]
<1> DEFINE k == [s \in S |-> IF s = p THEN l[q] ELSE IF s = q THEN l[p] ELSE l[s]]
           R == S \ {p, q}
<1>1. /\ k[p] = l[q] /\ k[q] = l[p] /\ \A s \in R : k[s] = l[s]
  OBVIOUS
<1>2. \A s \in S : l[s] \in 0 .. D /\ k[s] \in 0 .. D
  BY DEF Fits
<1> HIDE DEF k
<1>3. /\ \A s \in S : l[s] \in Nat /\ w[s] * l[s] \in Nat /\ Pow2(D - l[s]) \in Nat
      /\ \A s \in S : k[s] \in Nat /\ w[s] * k[s] \in Nat /\ Pow2(D - k[s]) \in Nat
  <2>1. \A s \in S : l[s] \in Nat /\ w[s] * l[s] \in Nat /\ Pow2(D - l[s]) \in Nat \ {0}
    BY <1>2, TermsNat
  <2>2. \A s \in S : k[s] \in Nat /\ w[s] * k[s] \in Nat /\ Pow2(D - k[s]) \in Nat \ {0}
    BY <1>2, TermsNat
  <2> QED BY <2>1, <2>2
<1>4. R \in SUBSET S
  OBVIOUS
<1>5. Space(k, S, D, n) = Space(l, S, D, n)
  <2> DEFINE f == [s \in S |-> Pow2(D - l[s])]
             g == [s \in S |-> Pow2(D - k[s])]
  <2>1. /\ \A s \in S : f[s] \in Nat /\ g[s] \in Nat
        /\ f[p] = g[q] /\ f[q] = g[p] /\ \A s \in R : f[s] = g[s]
    BY <1>1, <1>3, <1>4
  <2>2. Space(l, S, D, n) = Over(f, S, n) /\ Space(k, S, D, n) = Over(g, S, n)
    BY DEF Space
  <2> HIDE DEF f, g
  <2>0. NatOn(f, S) /\ NatOn(g, S) /\ LessTwo(S, p, q, R)
    BY <2>1 DEF LessTwo, NatOn
  <2> HIDE DEF R
  <2>3. AddsTwo(f, S, p, q, R, n)
    BY ONLY n \in Nat, S \in SUBSET (0 .. n - 1), <2>0, OverTwo
  <2>4. AddsTwo(g, S, p, q, R, n)
    BY ONLY n \in Nat, S \in SUBSET (0 .. n - 1), <2>0, OverTwo
  <2>5. Over(f, R, n) = Over(g, R, n)
    BY <2>1, OverSame
  <2>6. f[p] \in Nat /\ f[q] \in Nat
    BY <2>1
  <2>7. Over(f, S, n) = Over(g, S, n)
    BY ONLY <2>1, <2>3, <2>4, <2>5, <2>6 DEF AddsTwo
  <2> QED BY <2>2, <2>7
<1>6. Paid(w, k, S, n) <= Paid(w, l, S, n)
  <2> DEFINE f == [s \in S |-> w[s] * l[s]]
             g == [s \in S |-> w[s] * k[s]]
  <2>1. /\ \A s \in S : f[s] \in Nat /\ g[s] \in Nat
        /\ \A s \in R : f[s] = g[s]
    BY <1>1, <1>3, <1>4
  <2>2. Paid(w, l, S, n) = Over(f, S, n) /\ Paid(w, k, S, n) = Over(g, S, n)
    BY DEF Paid
  <2>3. f[p] = w[p] * l[p] /\ f[q] = w[q] * l[q] /\ g[p] = w[p] * l[q] /\ g[q] = w[q] * l[p]
    BY <1>1
  <2> HIDE DEF f, g
  <2>0. NatOn(f, S) /\ NatOn(g, S) /\ LessTwo(S, p, q, R)
    BY <2>1 DEF LessTwo, NatOn
  <2> HIDE DEF R
  <2>4. AddsTwo(f, S, p, q, R, n)
    BY ONLY n \in Nat, S \in SUBSET (0 .. n - 1), <2>0, OverTwo
  <2>5. AddsTwo(g, S, p, q, R, n)
    BY ONLY n \in Nat, S \in SUBSET (0 .. n - 1), <2>0, OverTwo
  <2>6. Over(f, R, n) = Over(g, R, n)
    BY <2>1, OverSame
  <2>7. g[p] + g[q] <= f[p] + f[q]
    <3>1. \A x, y, d, e \in Nat :
            /\ x * y \in Nat /\ x * e \in Nat /\ d * y \in Nat /\ d * e \in Nat
            /\ x * (y + e) = x * y + x * e /\ (x + d) * y = x * y + d * y
            /\ (x + d) * (y + e) = x * y + x * e + d * y + d * e
      OBVIOUS
    <3>2. PICK x \in Nat, d \in Nat, y \in Nat, e \in Nat :
             x = w[p] /\ w[q] = x + d /\ y = l[p] /\ l[q] = y + e
      <4>1. w[p] \in Nat /\ w[q] \in Nat /\ l[p] \in Nat /\ l[q] \in Nat
        BY <1>3
      <4>2. \A i, j \in Nat : i <= j => j - i \in Nat /\ j = i + (j - i)
        OBVIOUS
      <4>3. /\ w[q] - w[p] \in Nat /\ w[q] = w[p] + (w[q] - w[p])
            /\ l[q] - l[p] \in Nat /\ l[q] = l[p] + (l[q] - l[p])
        BY <4>1, <4>2
      <4> QED BY <4>1, <4>3
    <3> DEFINE A == x * y
               B == x * e
               C == d * y
               E == d * e
    <3>3. /\ A \in Nat /\ B \in Nat /\ C \in Nat /\ E \in Nat
          /\ x * (y + e) = A + B /\ (x + d) * y = A + C /\ (x + d) * (y + e) = A + B + C + E
      BY ONLY <3>1, x \in Nat, y \in Nat, d \in Nat, e \in Nat
    <3>4. g[p] = x * (y + e) /\ g[q] = (x + d) * y /\ f[p] = A /\ f[q] = (x + d) * (y + e)
      BY <2>3, <3>2
    <3> HIDE DEF A, B, C, E
    <3> QED BY ONLY <3>3, <3>4
  <2>8. /\ f[p] \in Nat /\ f[q] \in Nat /\ g[p] \in Nat /\ g[q] \in Nat
    BY <2>1
  <2>9. Over(g, S, n) <= Over(f, S, n)
    BY ONLY <2>4, <2>5, <2>6, <2>7, <2>8 DEF AddsTwo
  <2> QED BY <2>2, <2>9
<1>7. Fits(k, S, D, n)
  BY <1>2, <1>5 DEF Fits
<1> QED BY <1>1, <1>6, <1>7

(* Two lightest symbols may have the longest codes, if two symbols have.     *)
Lighter(w, S, a, b) ==
  /\ a \in S /\ b \in S /\ a # b
  /\ \A s \in S : w[s] \in Nat /\ w[a] <= w[s]
  /\ \A s \in S \ {a} : w[b] <= w[s]

LEMMA Deepest ==
  ASSUME NEW n \in Nat, NEW S \in SUBSET (0 .. n - 1), NEW D \in Nat,
         NEW w, NEW a, NEW b, Lighter(w, S, a, b), NEW l, Fits(l, S, D, n),
         NEW x \in S, NEW y \in S, x # y, l[x] = D, l[y] = D
  PROVE  \E k : /\ Fits(k, S, D, n) /\ Paid(w, k, S, n) <= Paid(w, l, S, n)
                /\ k[a] = D /\ k[b] = D
<1>1. /\ a \in S /\ b \in S /\ a # b /\ \A s \in S : w[s] \in Nat /\ w[a] <= w[s]
      /\ \A s \in S \ {a} : w[b] <= w[s]
  BY DEF Lighter
<1>2. \E k : /\ Fits(k, S, D, n) /\ Paid(w, k, S, n) <= Paid(w, l, S, n)
             /\ k[a] = D /\ \E u \in S \ {a} : k[u] = D
  <2>1. CASE l[a] = D
    <3>1. \E u \in S \ {a} : l[u] = D
      OBVIOUS
    <3>2. Paid(w, l, S, n) <= Paid(w, l, S, n)
      <4>1. \A s \in S : l[s] \in 0 .. D
        BY DEF Fits
      <4> DEFINE f == [s \in S |-> w[s] * l[s]]
      <4>2. \A s \in S : f[s] \in Nat
        BY <1>1, <4>1, TermsNat
      <4>3. Paid(w, l, S, n) = Over(f, S, n)
        BY DEF Paid
      <4> HIDE DEF f
      <4>4. Over(f, S, n) \in Nat
        BY <4>2, OverNat
      <4> QED BY <4>3, <4>4
    <3> QED BY <2>1, <3>1, <3>2
  <2>2. CASE l[a] # D
    <3>1. a # x /\ l[a] <= l[x] /\ w[a] <= w[x]
      BY <1>1, <2>2 DEF Fits
    <3>2. \A s \in S : w[s] \in Nat
      BY <1>1
    <3>3. PICK k : /\ Fits(k, S, D, n) /\ Paid(w, k, S, n) <= Paid(w, l, S, n)
                   /\ k[a] = l[x] /\ k[x] = l[a] /\ \A s \in S \ {a, x} : k[s] = l[s]
      BY ONLY n \in Nat, S \in SUBSET (0 .. n - 1), D \in Nat, Fits(l, S, D, n), x \in S,
              <1>1, <3>1, <3>2, Swap
    <3>4. y \in S \ {a} /\ k[y] = D
      BY <2>2, <3>3
    <3> QED BY <3>3, <3>4
  <2> QED BY <2>1, <2>2
<1>3. PICK k : /\ Fits(k, S, D, n) /\ Paid(w, k, S, n) <= Paid(w, l, S, n)
               /\ k[a] = D /\ \E u \in S \ {a} : k[u] = D
  BY <1>2
<1>4. CASE k[b] = D
  BY <1>3, <1>4
<1>5. CASE k[b] # D
  <2>1. PICK u \in S \ {a} : k[u] = D
    BY <1>3
  <2>2. b # u /\ k[b] <= k[u] /\ w[b] <= w[u] /\ u # a
    BY <1>1, <1>3, <1>5, <2>1 DEF Fits
  <2>3. \A s \in S : w[s] \in Nat
    BY <1>1
  <2>4. PICK j : /\ Fits(j, S, D, n) /\ Paid(w, j, S, n) <= Paid(w, k, S, n)
                 /\ j[b] = k[u] /\ j[u] = k[b] /\ \A s \in S \ {b, u} : j[s] = k[s]
    BY <1>1, <1>3, <2>2, <2>3, Swap
  <2>5. j[b] = D /\ j[a] = D
    BY <1>1, <1>3, <2>1, <2>2, <2>4
  <2>6. \A g : Fits(g, S, D, n) => Paid(w, g, S, n) \in Nat
    <3> SUFFICES ASSUME NEW g, Fits(g, S, D, n) PROVE Paid(w, g, S, n) \in Nat
      OBVIOUS
    <3>1. \A s \in S : g[s] \in 0 .. D
      BY DEF Fits
    <3> DEFINE f == [s \in S |-> w[s] * g[s]]
    <3>2. \A s \in S : f[s] \in Nat
      BY <2>3, <3>1, TermsNat
    <3>3. Paid(w, g, S, n) = Over(f, S, n)
      BY DEF Paid
    <3> HIDE DEF f
    <3> QED BY <3>2, <3>3, OverNat
  <2>7. Paid(w, j, S, n) <= Paid(w, l, S, n)
    BY <1>3, <2>4, <2>6
  <2> QED BY <2>4, <2>5, <2>7
<1> QED BY <1>4, <1>5

(* If only one symbol has the longest code it does not need the last bit:    *)
(* all other codes take an even number of strings.                           *)
LEMMA Shallower ==
  ASSUME NEW n \in Nat, NEW S \in SUBSET (0 .. n - 1), NEW D \in Nat, NEW E \in Nat, E = D + 1,
         NEW w, \A s \in S : w[s] \in Nat, NEW l, Fits(l, S, E, n),
         \A x, y \in S : l[x] = E /\ l[y] = E => x = y
  PROVE  \E k : Fits(k, S, D, n) /\ Paid(w, k, S, n) <= Paid(w, l, S, n)
<1> DEFINE k == [s \in S |-> IF l[s] = E THEN D ELSE l[s]]
           f == [s \in S |-> Pow2(E - l[s])]
           g == [s \in S |-> Pow2(E - k[s])]
           p == Pow2(D)
<1>1. \A s \in S : l[s] \in 0 .. E /\ l[s] \in Nat
  BY DEF Fits
<1>2. \A s \in S : /\ k[s] \in 0 .. D /\ k[s] \in 0 .. E /\ k[s] <= l[s]
                   /\ l[s] # E => k[s] = l[s]
                   /\ l[s] = E => k[s] = D
  BY <1>1
<1> HIDE DEF k
<1>3. /\ \A s \in S : w[s] * l[s] \in Nat /\ Pow2(E - l[s]) \in Nat
      /\ \A s \in S : w[s] * k[s] \in Nat /\ Pow2(E - k[s]) \in Nat
  <2>1. \A s \in S : w[s] * l[s] \in Nat /\ Pow2(E - l[s]) \in Nat \ {0}
    BY <1>1, TermsNat
  <2>2. \A s \in S : w[s] * k[s] \in Nat /\ Pow2(E - k[s]) \in Nat \ {0}
    BY <1>1, <1>2, TermsNat
  <2> QED BY <2>1, <2>2
<1>4. Space(l, S, E, n) = Over(f, S, n) /\ Space(k, S, E, n) = Over(g, S, n)
  BY DEF Space
<1>5. /\ \A s \in S : f[s] \in Nat /\ g[s] \in Nat
      /\ \A s \in S : l[s] # E => g[s] = f[s]
      /\ \A s \in S : l[s] = E => g[s] = 2 /\ f[s] = 1
  <2>1. E - E = 0 /\ E - D = 1 /\ Pow2(0) = 1 /\ Pow2(1) = 2
    <3>1. 0 + 1 = 1 /\ Pow2(0) = 1 /\ Pow2(0 + 1) = 2 * Pow2(0)
      BY Pow2Equations
    <3> QED BY <3>1
  <2> QED BY <1>2, <1>3, <2>1
<1> HIDE DEF f, g
<1>6. Over(f, S, n) \in Nat /\ Over(g, S, n) <= Over(f, S, n) + 1
  <2>1. Over(f, S, n) \in Nat
    BY <1>5, OverNat
  <2>2. CASE \A s \in S : l[s] # E
    <3>1. \A s \in S : g[s] = f[s]
      BY <1>5, <2>2
    <3>2. Over(g, S, n) = Over(f, S, n)
      BY ONLY n \in Nat, <3>1, OverSame
    <3> QED BY <2>1, <3>2
  <2>3. ASSUME NEW x \in S, l[x] = E
        PROVE  Over(g, S, n) <= Over(f, S, n) + 1
    <3> DEFINE R == S \ {x}
    <3>1. /\ \A s \in R : f[s] = g[s]
          /\ \A s \in R : f[s] \in Nat
          /\ R \in SUBSET (0 .. n - 1) /\ g[x] = 2 /\ f[x] = 1
      BY <1>5, <2>3
    <3>2. Over(f, S, n) = Over(f, R, n) + f[x]
      <4>1. \A s \in S : f[s] \in Nat
        BY <1>5
      <4> QED BY ONLY n \in Nat, S \in SUBSET (0 .. n - 1), x \in S, <4>1, OverRemove
    <3>3. Over(g, S, n) = Over(g, R, n) + g[x]
      <4>1. \A s \in S : g[s] \in Nat
        BY <1>5
      <4> QED BY ONLY n \in Nat, S \in SUBSET (0 .. n - 1), x \in S, <4>1, OverRemove
    <3> HIDE DEF R
    <3>4. Over(f, R, n) = Over(g, R, n) /\ Over(f, R, n) \in Nat
      <4>1. Over(f, R, n) = Over(g, R, n)
        BY ONLY n \in Nat, <3>1, OverSame
      <4>2. Over(f, R, n) \in Nat
        BY ONLY n \in Nat, <3>1, OverNat
      <4> QED BY <4>1, <4>2
    <3> QED BY ONLY <3>1, <3>2, <3>3, <3>4
  <2> QED BY <2>1, <2>2, <2>3
<1>7. p \in Nat /\ Pow2(E) = 2 * p
  BY Pow2Type, Pow2Equations
<1>8. Space(k, S, D, n) \in Nat /\ Space(k, S, E, n) = 2 * Space(k, S, D, n)
  <2>1. D <= E /\ E - D = 1 /\ Pow2(1) = 2
    <3>1. 0 + 1 = 1 /\ Pow2(0) = 1 /\ Pow2(0 + 1) = 2 * Pow2(0)
      BY Pow2Equations
    <3> QED BY <3>1
  <2>2. \A s \in S : k[s] \in 0 .. D
    BY <1>2
  <2>3. Space(k, S, D, n) \in Nat
    BY ONLY n \in Nat, S \in SUBSET (0 .. n - 1), D \in Nat, E \in Nat, <2>1, <2>2, SpaceScale
  <2>4. Space(k, S, E, n) = Pow2(E - D) * Space(k, S, D, n)
    BY ONLY n \in Nat, S \in SUBSET (0 .. n - 1), D \in Nat, E \in Nat, <2>1, <2>2, SpaceScale
  <2> QED BY <2>1, <2>3, <2>4
<1>9. Over(f, S, n) <= 2 * p
  BY <1>4, <1>7 DEF Fits
<1>10. Space(k, S, D, n) <= p
  <2> HIDE DEF p
  <2> QED BY <1>4, <1>6, <1>7, <1>8, <1>9
<1>11. Fits(k, S, D, n)
  BY <1>2, <1>10 DEF Fits
<1>12. Paid(w, k, S, n) <= Paid(w, l, S, n)
  <2> DEFINE u == [s \in S |-> w[s] * k[s]]
             v == [s \in S |-> w[s] * l[s]]
  <2>1. ASSUME NEW s \in S PROVE u[s] \in Nat /\ v[s] \in Nat /\ u[s] <= v[s]
    <3>1. PICK e \in Nat : l[s] = k[s] + e
      <4>1. k[s] \in Nat /\ l[s] \in Nat /\ k[s] <= l[s]
        BY <1>1, <1>2
      <4>2. l[s] - k[s] \in Nat /\ l[s] = k[s] + (l[s] - k[s])
        BY ONLY <4>1
      <4> QED BY <4>2
    <3>2. \A i, j, h \in Nat : i * (j + h) = i * j + i * h /\ i * h \in Nat
      OBVIOUS
    <3>3. w[s] * l[s] = w[s] * k[s] + w[s] * e /\ w[s] * e \in Nat
      BY <1>1, <1>2, <3>1, <3>2
    <3> QED BY <1>3, <3>3
  <2>2. Paid(w, k, S, n) = Over(u, S, n) /\ Paid(w, l, S, n) = Over(v, S, n)
    BY DEF Paid
  <2> HIDE DEF u, v
  <2> QED BY <2>1, <2>2, OverMonotone
<1> QED BY <1>11, <1>12

LEMMA PaidNat ==
  ASSUME NEW n \in Nat, NEW S \in SUBSET (0 .. n - 1), NEW w, NatOn(w, S),
         NEW D \in Nat, NEW l, Fits(l, S, D, n)
  PROVE  Paid(w, l, S, n) \in Nat
<1>1. (\A s \in S : l[s] \in 0 .. D) /\ (\A s \in S : w[s] \in Nat)
  BY DEF Fits, NatOn
<1> DEFINE f == [s \in S |-> w[s] * l[s]]
<1>2. \A s \in S : f[s] \in Nat
  BY <1>1, TermsNat
<1>3. Paid(w, l, S, n) = Over(f, S, n)
  BY DEF Paid
<1> HIDE DEF f
<1> QED BY <1>2, <1>3, OverNat

(* The two lightest symbols a and b of S joined into one new symbol z.       *)
Contracts(S, a, b, z, R) ==
  a \in S /\ b \in S /\ a # b /\ z \notin S /\ R = (S \ {a, b}) \cup {z}

Reweighs(w, a, b, z, R, v) ==
  v[z] = w[a] + w[b] /\ \A s \in R \ {z} : v[s] = w[s]

(* Symbols a and b with codes of the full length D become z, a bit shorter.  *)
LEMMA ContractDeep ==
  ASSUME NEW n \in Nat, NEW S \in SUBSET (0 .. n - 1), NEW D \in Nat, NEW E \in Nat, D = E + 1,
         NEW w, NatOn(w, S), NEW a, NEW b, NEW z \in 0 .. n - 1, NEW R, Contracts(S, a, b, z, R),
         NEW v, Reweighs(w, a, b, z, R, v),
         NEW l, Fits(l, S, D, n), l[a] = D, l[b] = D
  PROVE  \E k : /\ Fits(k, R, D, n)
                /\ Paid(v, k, R, n) + w[a] + w[b] = Paid(w, l, S, n)
<1> DEFINE Q == S \ {a, b}
           k == [s \in R |-> IF s = z THEN E ELSE l[s]]
           f == [s \in S |-> Pow2(D - l[s])]
           g == [s \in R |-> Pow2(D - k[s])]
           u == [s \in S |-> w[s] * l[s]]
           h == [s \in R |-> v[s] * k[s]]
<1>1. /\ a \in S /\ b \in S /\ a # b /\ z \notin S /\ R = Q \cup {z}
      /\ Q \in SUBSET (0 .. n - 1) /\ Q \in SUBSET S /\ z \in (0 .. n - 1) \ Q
      /\ R \in SUBSET (0 .. n - 1) /\ LessTwo(S, a, b, Q)
  BY DEF Contracts, LessTwo
<1>2. /\ \A s \in S : l[s] \in 0 .. D
      /\ \A s \in S : w[s] \in Nat
      /\ v[z] = w[a] + w[b] /\ \A s \in Q : v[s] = w[s]
  BY <1>1 DEF Fits, NatOn, Reweighs
<1> HIDE DEF Q
<1>3. /\ k[z] = E /\ \A s \in Q : k[s] = l[s]
      /\ \A s \in R : k[s] \in 0 .. D
      /\ \A s \in R : v[s] \in Nat
  BY <1>1, <1>2
<1> HIDE DEF k
<1>4. /\ \A s \in S : l[s] \in Nat /\ w[s] * l[s] \in Nat /\ Pow2(D - l[s]) \in Nat
      /\ \A s \in R : k[s] \in Nat /\ v[s] * k[s] \in Nat /\ Pow2(D - k[s]) \in Nat
  <2>1. \A s \in S : l[s] \in Nat /\ w[s] * l[s] \in Nat /\ Pow2(D - l[s]) \in Nat \ {0}
    BY <1>2, TermsNat
  <2>2. \A s \in R : k[s] \in Nat /\ v[s] * k[s] \in Nat /\ Pow2(D - k[s]) \in Nat \ {0}
    BY <1>3, TermsNat
  <2> QED BY <2>1, <2>2
<1>5. Space(k, R, D, n) = Space(l, S, D, n)
  <2>1. D - D = 0 /\ D - E = 1 /\ Pow2(0) = 1 /\ Pow2(1) = 2
    <3>1. 0 + 1 = 1 /\ Pow2(0) = 1 /\ Pow2(0 + 1) = 2 * Pow2(0)
      BY Pow2Equations
    <3> QED BY <3>1
  <2>2. /\ \A s \in S : f[s] \in Nat
        /\ \A s \in R : g[s] \in Nat
        /\ \A s \in Q : f[s] = g[s]
        /\ f[a] = 1 /\ f[b] = 1 /\ g[z] = 2
    BY <1>1, <1>3, <1>4, <2>1
  <2>3. Space(l, S, D, n) = Over(f, S, n) /\ Space(k, R, D, n) = Over(g, R, n)
    BY DEF Space
  <2> HIDE DEF f, g
  <2>4. NatOn(f, S)
    BY <2>2 DEF NatOn
  <2>5. AddsTwo(f, S, a, b, Q, n)
    BY ONLY n \in Nat, S \in SUBSET (0 .. n - 1), <1>1, <2>4, OverTwo
  <2>6. Over(g, Q \cup {z}, n) = Over(g, Q, n) + g[z]
    <3>1. g[z] \in Nat /\ \A s \in Q : g[s] \in Nat
      BY <1>1, <2>2
    <3>2. Q \in SUBSET (0 .. n - 1) /\ z \in (0 .. n - 1) \ Q
      BY <1>1
    <3> QED BY ONLY n \in Nat, <3>1, <3>2, OverAdd
  <2>7. Over(f, Q, n) = Over(g, Q, n)
    BY <1>1, <2>2, OverSame
  <2> QED BY ONLY <1>1, <2>2, <2>3, <2>5, <2>6, <2>7 DEF AddsTwo
<1>6. Paid(v, k, R, n) + w[a] + w[b] = Paid(w, l, S, n)
  <2>1. /\ \A s \in S : u[s] \in Nat
        /\ \A s \in R : h[s] \in Nat
        /\ \A s \in Q : u[s] = h[s]
    BY <1>1, <1>2, <1>3, <1>4
  <2>2. u[a] = w[a] * D /\ u[b] = w[b] * D /\ h[z] = (w[a] + w[b]) * E
    BY <1>1, <1>2, <1>3
  <2>3. Paid(w, l, S, n) = Over(u, S, n) /\ Paid(v, k, R, n) = Over(h, R, n)
    BY DEF Paid
  <2> HIDE DEF u, h
  <2>4. NatOn(u, S)
    BY <2>1 DEF NatOn
  <2>5. AddsTwo(u, S, a, b, Q, n)
    BY ONLY n \in Nat, S \in SUBSET (0 .. n - 1), <1>1, <2>4, OverTwo
  <2>6. Over(h, Q \cup {z}, n) = Over(h, Q, n) + h[z]
    <3>1. h[z] \in Nat /\ \A s \in Q : h[s] \in Nat
      BY <1>1, <2>1
    <3>2. Q \in SUBSET (0 .. n - 1) /\ z \in (0 .. n - 1) \ Q
      BY <1>1
    <3> QED BY ONLY n \in Nat, <3>1, <3>2, OverAdd
  <2>7. Over(u, Q, n) = Over(h, Q, n)
    BY <1>1, <2>1, OverSame
  <2>8. h[z] + w[a] + w[b] = u[a] + u[b]
    <3>1. \A i, j, t \in Nat : /\ i * t \in Nat /\ j * t \in Nat
                               /\ (i + j) * t = i * t + j * t
                               /\ i * (t + 1) = i * t + i /\ j * (t + 1) = j * t + j
      OBVIOUS
    <3>2. w[a] \in Nat /\ w[b] \in Nat
      BY <1>1, <1>2
    <3> DEFINE i == w[a]
               j == w[b]
               x == i * E
               y == j * E
    <3>3. /\ x \in Nat /\ y \in Nat /\ (i + j) * E = x + y
          /\ i * (E + 1) = x + i /\ j * (E + 1) = y + j
      BY ONLY <3>1, <3>2, E \in Nat
    <3>4. u[a] = i * (E + 1) /\ u[b] = j * (E + 1) /\ h[z] = (i + j) * E
      BY <2>2
    <3>5. i \in Nat /\ j \in Nat
      BY <3>2
    <3>6. h[z] + i + j = u[a] + u[b]
      <4> HIDE DEF i, j, x, y
      <4> QED BY ONLY <3>3, <3>4, <3>5
    <3> QED BY <3>6
  <2>9. u[a] \in Nat /\ u[b] \in Nat /\ h[z] \in Nat /\ w[a] \in Nat /\ w[b] \in Nat
    BY <1>1, <1>2, <2>1
  <2> QED BY ONLY <1>1, <2>3, <2>5, <2>6, <2>7, <2>8, <2>9 DEF AddsTwo
<1>7. Fits(k, R, D, n)
  BY <1>3, <1>5 DEF Fits
<1> QED BY <1>6, <1>7

(* Any code for S gives one for the contracted set that saves the weights of *)
(* the two lightest symbols, or more.                                        *)
LEMMA Contract ==
  ASSUME NEW n \in Nat, NEW S \in SUBSET (0 .. n - 1),
         NEW w, NEW a, NEW b, Lighter(w, S, a, b),
         NEW z \in 0 .. n - 1, NEW R, Contracts(S, a, b, z, R),
         NEW v, Reweighs(w, a, b, z, R, v),
         NEW D \in Nat, NEW l, Fits(l, S, D, n)
  PROVE  \E E \in Nat : \E k : /\ Fits(k, R, E, n)
                               /\ Paid(v, k, R, n) + w[a] + w[b] <= Paid(w, l, S, n)
<1> DEFINE Good(d) == \A c : Fits(c, S, d, n) =>
                        \E E \in Nat : \E k : /\ Fits(k, R, E, n)
                                              /\ Paid(v, k, R, n) + w[a] + w[b] <= Paid(w, c, S, n)
<1>1. /\ a \in S /\ b \in S /\ a # b /\ \A s \in S : w[s] \in Nat
      /\ LessTwo(S, a, b, S \ {a, b}) /\ NatOn(w, S)
  BY DEF Lighter, LessTwo, NatOn
<1>2. /\ \A c : \A d \in Nat : Fits(c, S, d, n) => Paid(w, c, S, n) \in Nat
      /\ \A c : \A d \in Nat : Fits(c, R, d, n) => Paid(v, c, R, n) \in Nat
  <2>1. NatOn(v, R) /\ R \in SUBSET (0 .. n - 1)
    BY <1>1 DEF NatOn, Contracts, Reweighs
  <2> QED BY <1>1, <2>1, PaidNat
<1>3. Good(0)
  <2> SUFFICES ASSUME NEW c, Fits(c, S, 0, n) PROVE FALSE
    OBVIOUS
  <2> DEFINE f == [s \in S |-> Pow2(0 - c[s])]
             Q == S \ {a, b}
  <2>1. \A s \in S : c[s] = 0
    BY DEF Fits
  <2>2. 0 - 0 = 0 /\ Pow2(0) = 1
    BY Pow2Equations
  <2>3. \A s \in S : f[s] = 1
    BY <2>1, <2>2
  <2>4. Over(f, S, n) <= 1
    BY <2>2 DEF Fits, Space
  <2> HIDE DEF f
  <2>5. NatOn(f, S) /\ f[a] = 1 /\ f[b] = 1
    BY <1>1, <2>3 DEF NatOn
  <2>6. AddsTwo(f, S, a, b, Q, n)
    BY ONLY n \in Nat, S \in SUBSET (0 .. n - 1), <1>1, <2>5, OverTwo
  <2> HIDE DEF Q
  <2> QED BY ONLY <2>4, <2>5, <2>6 DEF AddsTwo
<1>4. ASSUME NEW d \in Nat, Good(d) PROVE Good(d + 1)
  <2>1. PICK e \in Nat : e = d + 1
    OBVIOUS
  <2> SUFFICES ASSUME NEW c, Fits(c, S, e, n)
               PROVE  \E E \in Nat : \E k : /\ Fits(k, R, E, n)
                                            /\ Paid(v, k, R, n) + w[a] + w[b] <= Paid(w, c, S, n)
    BY <2>1
  <2>2. CASE \A x, y \in S : c[x] = e /\ c[y] = e => x = y
    <3>1. PICK k : Fits(k, S, d, n) /\ Paid(w, k, S, n) <= Paid(w, c, S, n)
      BY <1>1, <2>1, <2>2, Shallower
    <3>2. PICK E, j : /\ E \in Nat /\ Fits(j, R, E, n)
                      /\ Paid(v, j, R, n) + w[a] + w[b] <= Paid(w, k, S, n)
      BY <1>4, <3>1
    <3>3. /\ Paid(v, j, R, n) \in Nat /\ Paid(w, k, S, n) \in Nat /\ Paid(w, c, S, n) \in Nat
          /\ w[a] \in Nat /\ w[b] \in Nat
      BY <1>1, <1>2, <3>1, <3>2
    <3>4. Paid(v, j, R, n) + w[a] + w[b] <= Paid(w, c, S, n)
      BY ONLY <3>1, <3>2, <3>3
    <3> QED BY <3>2, <3>4
  <2>3. ASSUME NEW x \in S, NEW y \in S, c[x] = e, c[y] = e, x # y
        PROVE  \E k : /\ Fits(k, R, e, n)
                      /\ Paid(v, k, R, n) + w[a] + w[b] <= Paid(w, c, S, n)
    <3>1. PICK k : /\ Fits(k, S, e, n) /\ Paid(w, k, S, n) <= Paid(w, c, S, n)
                   /\ k[a] = e /\ k[b] = e
      BY <2>3, Deepest
    <3>2. PICK j : Fits(j, R, e, n) /\ Paid(v, j, R, n) + w[a] + w[b] = Paid(w, k, S, n)
      BY <1>1, <2>1, <3>1, ContractDeep
    <3>3. /\ Paid(v, j, R, n) \in Nat /\ Paid(w, k, S, n) \in Nat /\ Paid(w, c, S, n) \in Nat
          /\ w[a] \in Nat /\ w[b] \in Nat
      BY <1>1, <1>2, <3>1, <3>2
    <3>4. Paid(v, j, R, n) + w[a] + w[b] <= Paid(w, c, S, n)
      BY ONLY <3>1, <3>2, <3>3
    <3> QED BY <3>2, <3>4
  <2> QED BY <2>2, <2>3
<1> HIDE DEF Good
<1>5. \A d \in Nat : Good(d)
  <2> DEFINE T == {d \in Nat : Good(d)}
  <2>1. T \in SUBSET Nat /\ 0 \in T /\ \A d \in T : d + 1 \in T
    BY <1>3, <1>4
  <2> HIDE DEF T
  <2>2. T = Nat
    BY <2>1, NatSetInduction
  <2> QED BY <2>2 DEF T
<1> QED BY <1>5 DEF Good

------------------------------------------------------------------------------
(* The heaps of canonical_huffman_lengths, round after round.                *)
LEMMA HeapAt ==
  ASSUME FirstTag \in Nat, NEW n, NEW hist, IsHistogram(hist, n), n <= FirstTag,
         Leaves(hist) >= 1, NEW k \in 0 .. Leaves(hist) - 1
  PROVE  HeapInv(hist, n, Heaps(hist)[k], k)
<1> DEFINE m == Leaves(hist)
           Good(j) == HeapInv(hist, n, Heaps(hist)[j], j)
           S == {j \in Nat : j <= m - 1 => Good(j)}
<1>1. m \in Nat \ {0}
  BY ActiveFacts
<1>2. Good(0)
  BY FirstHeap
<1>3. ASSUME NEW j \in Nat, j <= m - 1 => Good(j), j + 1 <= m - 1 PROVE Good(j + 1)
  <2>1. j \in 0 .. m - 2 /\ j <= m - 1
    BY <1>1, <1>3
  <2>2. Heaps(hist)[j + 1] = Round(Heaps(hist)[j], FirstTag + j)
    BY <1>1, <2>1, HeapEquations
  <2>3. HeapInv(hist, n, Heaps(hist)[j], j)
    BY <1>3, <2>1
  <2> QED BY <2>1, <2>2, <2>3, NextHeap
<1> HIDE DEF Good, m
<1>4. S = Nat
  <2>1. S \in SUBSET Nat /\ 0 \in S /\ \A j \in S : j + 1 \in S
    BY <1>2, <1>3
  <2> HIDE DEF S
  <2> QED BY <2>1, NatSetInduction
<1>5. k \in S /\ k <= m - 1
  BY <1>1, <1>4 DEF m
<1> QED BY <1>5 DEF Good

LEMMA DepthsTyped ==
  ASSUME NEW n, NEW hist, NEW k \in Nat, NEW H, HeapInv(hist, n, H, k), NEW s \in Active(hist)
  PROVE  Depths(hist, H)[s] \in 0 .. k
<1>1. PICK x \in H : s \in DOMAIN x.depth
  BY DEF HeapInv
<1>2. Depths(hist, H)[s] = x.depth[s]
  BY <1>1, DepthsAgree
<1>3. x.depth[s] \in 0 .. k
  BY <1>1 DEF HeapInv, IsNode
<1> QED BY <1>2, <1>3

LEMMA CostNat ==
  ASSUME NEW n, NEW hist, IsHistogram(hist, n), NEW l, NatOn(l, Active(hist))
  PROVE  Cost(hist, l, n) \in Nat
<1> DEFINE A == Active(hist)
           f == [s \in A |-> hist[s] * l[s]]
<1>1. n \in Nat /\ A \in SUBSET (0 .. n - 1) /\ \A s \in A : hist[s] \in Nat /\ l[s] \in Nat
  BY ActiveFacts DEF IsHistogram, NatOn
<1>2. \A s \in A : f[s] \in Nat
  <2>1. \A p, q \in Nat : p * q \in Nat
    OBVIOUS
  <2> QED BY <1>1, <2>1
<1>3. Cost(hist, l, n) = Over(f, A, n)
  BY DEF Cost
<1> HIDE DEF f, A
<1> QED BY <1>1, <1>2, <1>3, OverNat

(* The tags of a heap's nodes stand for its nodes, with the weights w.       *)
Tags(H) == {x.tag : x \in H}
Weighted(H, w) == \A x \in H : w[x.tag] = x.freq

(* A round costs no more than what it saves any code for the nodes.          *)
LEMMA TreeStep ==
  ASSUME NEW n, NEW hist, IsHistogram(hist, n), FirstTag \in Nat,
         NEW k \in Nat, NEW H, HeapInv(hist, n, H, k), NEW G, HeapInv(hist, n, G, k + 1),
         NEW a, NEW b, NEW z, Joins(H, a, b, z, G),
         z.tag = FirstTag + k, z.freq = a.freq + b.freq,
         DOMAIN z.depth = DOMAIN a.depth \cup DOMAIN b.depth,
         \A s \in DOMAIN a.depth : z.depth[s] = 1 + a.depth[s],
         \A s \in DOMAIN b.depth : z.depth[s] = 1 + b.depth[s],
         NEW B \in Nat, FirstTag + k + 1 <= B,
         NEW w, Weighted(H, w), NEW D \in Nat, NEW l, Fits(l, Tags(H), D, B)
  PROVE  \E v : \E E \in Nat : \E c :
           /\ Weighted(G, v) /\ Fits(c, Tags(G), E, B)
           /\ Cost(hist, Depths(hist, G), n) + Paid(v, c, Tags(G), B)
                <= Cost(hist, Depths(hist, H), n) + Paid(w, l, Tags(H), B)
<1> DEFINE S == Tags(H)
           R == Tags(G)
           p == a.tag
           q == b.tag
           t == z.tag
           v == [s \in R |-> IF s = t THEN w[p] + w[q] ELSE w[s]]
<1>1. /\ a \in H /\ b \in H /\ a # b /\ G = (H \ {a, b}) \cup {z}
      /\ \A x \in H : a.freq <= x.freq
      /\ \A x \in H \ {a} : b.freq <= x.freq
  BY DEF Joins
<1>2. /\ \A x \in H : x.freq \in Nat /\ x.tag \in Nat /\ x.tag < FirstTag + k /\ w[x.tag] = x.freq
      /\ \A x, y \in H : x.tag = y.tag => x = y
  BY DEF HeapInv, Ranked, IsNode, Weighted
<1>3. S \in SUBSET (0 .. B - 1)
  BY <1>2 DEF Tags
<1>4. p \in S /\ q \in S /\ p # q /\ t \notin S /\ t \in 0 .. B - 1
  <2>1. \A x \in H : x.tag # FirstTag + k
    BY <1>2
  <2>2. FirstTag + k \in 0 .. B - 1
    OBVIOUS
  <2>3. \A x \in H : x.tag \in S
    BY DEF Tags
  <2>4. \A s \in S : \E x \in H : s = x.tag
    BY DEF Tags
  <2> HIDE DEF S
  <2> QED BY <1>1, <1>2, <2>1, <2>2, <2>3, <2>4
<1>5. R = (S \ {p, q}) \cup {t}
  <2>1. ASSUME NEW s \in R PROVE s \in (S \ {p, q}) \cup {t}
    <3>1. PICK x \in G : s = x.tag
      BY DEF Tags
    <3> QED BY <1>1, <1>2, <3>1 DEF Tags
  <2>2. ASSUME NEW s \in (S \ {p, q}) \cup {t} PROVE s \in R
    <3>1. CASE s = t
      BY <1>1, <3>1 DEF Tags
    <3>2. CASE s # t
      <4>1. PICK x \in H : s = x.tag
        BY <3>2 DEF Tags
      <4>2. x # a /\ x # b
        BY <3>2, <4>1
      <4> QED BY <1>1, <4>1, <4>2 DEF Tags
    <3> QED BY <3>1, <3>2
  <2> QED BY <2>1, <2>2
<1>6. Lighter(w, S, p, q)
  <2>1. ASSUME NEW s \in S PROVE w[s] \in Nat /\ w[p] <= w[s] /\ (s # p => w[q] <= w[s])
    <3>1. PICK x \in H : s = x.tag
      BY DEF Tags
    <3> QED BY <1>1, <1>2, <3>1
  <2> HIDE DEF S, p, q
  <2> QED BY <1>4, <2>1 DEF Lighter
<1>7. Weighted(G, v)
  <2>1. ASSUME NEW x \in G PROVE v[x.tag] = x.freq
    <3>1. x.tag \in R
      BY DEF Tags
    <3>2. CASE x = z
      BY <1>1, <1>2, <3>1, <3>2
    <3>3. CASE x # z
      <4>1. x \in H /\ x.tag # t
        BY <1>1, <1>4, <3>3 DEF Tags
      <4> QED BY <1>2, <3>1, <4>1
    <3> QED BY <3>2, <3>3
  <2> QED BY <2>1 DEF Weighted
<1>8. Reweighs(w, p, q, t, R, v)
  <2> HIDE DEF S, R, p, q, t
  <2> QED BY <1>5 DEF Reweighs
<1>9. Contracts(S, p, q, t, R)
  <2> HIDE DEF S, R, p, q, t
  <2> QED BY <1>4, <1>5 DEF Contracts
<1>10. w[p] = a.freq /\ w[q] = b.freq /\ a.freq \in Nat /\ b.freq \in Nat
  BY <1>1, <1>2
<1> HIDE DEF S, R, p, q, t, v
<1>11. Fits(l, S, D, B)
  BY DEF S
<1>12. PICK E, c : /\ E \in Nat /\ Fits(c, R, E, B)
                   /\ Paid(v, c, R, B) + w[p] + w[q] <= Paid(w, l, S, B)
  BY ONLY B \in Nat, D \in Nat, <1>3, <1>4, <1>6, <1>8, <1>9, <1>11, Contract
<1>13. Cost(hist, Depths(hist, G), n) = Cost(hist, Depths(hist, H), n) + a.freq + b.freq
  BY RoundCost
<1>14. Cost(hist, Depths(hist, H), n) \in Nat
  <2>1. \A s \in Active(hist) : Depths(hist, H)[s] \in 0 .. k
    BY ONLY k \in Nat, HeapInv(hist, n, H, k), DepthsTyped
  <2>2. NatOn(Depths(hist, H), Active(hist))
    BY <2>1 DEF NatOn
  <2> QED BY <2>2, CostNat
<1>15. Paid(w, l, S, B) \in Nat /\ Paid(v, c, R, B) \in Nat
  <2>1. NatOn(w, S) /\ NatOn(v, R) /\ R \in SUBSET (0 .. B - 1)
    BY <1>3, <1>4, <1>5, <1>6, <1>8 DEF NatOn, Lighter, Reweighs
  <2> QED BY <1>3, <1>11, <1>12, <2>1, PaidNat
<1>16. Cost(hist, Depths(hist, G), n) + Paid(v, c, R, B)
         <= Cost(hist, Depths(hist, H), n) + Paid(w, l, S, B)
  BY ONLY <1>10, <1>12, <1>13, <1>14, <1>15
<1> QED BY <1>7, <1>12, <1>16 DEF S, R

(* From any round on, the finished tree costs no more than the forest and    *)
(* any code for its nodes: the greedy choice loses nothing.                  *)
LEMMA TreeLeast ==
  ASSUME FirstTag \in Nat, NEW n, NEW hist, IsHistogram(hist, n), n <= FirstTag,
         Leaves(hist) >= 1, NEW B, B = FirstTag + Leaves(hist),
         NEW k \in 0 .. Leaves(hist) - 1,
         NEW w, Weighted(Heaps(hist)[k], w), NEW D \in Nat, NEW l,
         Fits(l, Tags(Heaps(hist)[k]), D, B)
  PROVE  Cost(hist, Depths(hist, Heaps(hist)[Leaves(hist) - 1]), n)
           <= Cost(hist, Depths(hist, Heaps(hist)[k]), n) + Paid(w, l, Tags(Heaps(hist)[k]), B)
<1> DEFINE m == Leaves(hist)
           H(i) == Heaps(hist)[i]
           P(i) == Cost(hist, Depths(hist, H(i)), n)
           Good(i) == \A u : \A d \in Nat : \A c :
                        Weighted(H(i), u) /\ Fits(c, Tags(H(i)), d, B)
                          => P(m - 1) <= P(i) + Paid(u, c, Tags(H(i)), B)
           T == {j \in Nat : j <= m - 1 => Good(m - 1 - j)}
<1>1. m \in Nat \ {0} /\ B \in Nat
  BY ActiveFacts
<1>2. \A i \in 0 .. m - 1 : HeapInv(hist, n, H(i), i)
  BY HeapAt
<1>3. \A i \in 0 .. m - 1 : P(i) \in Nat
  <2> SUFFICES ASSUME NEW i \in 0 .. m - 1 PROVE P(i) \in Nat
    OBVIOUS
  <2>1. i \in Nat /\ HeapInv(hist, n, H(i), i)
    BY <1>2
  <2> HIDE DEF H
  <2>2. NatOn(Depths(hist, H(i)), Active(hist))
    <3>1. \A s \in Active(hist) : Depths(hist, H(i))[s] \in 0 .. i
      BY ONLY <2>1, DepthsTyped
    <3> QED BY <2>1, <3>1 DEF NatOn
  <2> QED BY <2>2, CostNat
<1>4. ASSUME NEW i \in 0 .. m - 1, NEW u, NEW d \in Nat, NEW c,
             Weighted(H(i), u), Fits(c, Tags(H(i)), d, B)
      PROVE  Paid(u, c, Tags(H(i)), B) \in Nat
  <2>1. \A x \in H(i) : x.freq \in Nat /\ x.tag \in Nat /\ x.tag < FirstTag + i
    BY <1>2 DEF HeapInv, Ranked, IsNode
  <2> HIDE DEF H, m
  <2>2. Tags(H(i)) \in SUBSET (0 .. B - 1)
    BY <1>1, <2>1 DEF Tags, m
  <2>3. NatOn(u, Tags(H(i)))
    BY <1>4, <2>1 DEF NatOn, Tags, Weighted
  <2> QED BY <1>1, <1>4, <2>2, <2>3, PaidNat
<1>5. Good(m - 1)
  <2>1. m - 1 \in 0 .. m - 1
    BY <1>1
  <2>2. P(m - 1) \in Nat
    BY <1>3, <2>1
  <2> HIDE DEF P, H, m
  <2> QED BY <1>4, <2>1, <2>2
<1>6. ASSUME NEW i \in 0 .. m - 2, Good(i + 1) PROVE Good(i)
  <2>1. i \in 0 .. m - 1 /\ i + 1 \in 0 .. m - 1 /\ i \in Nat /\ m - 1 \in 0 .. m - 1
    BY <1>1
  <2> SUFFICES ASSUME NEW u, NEW d \in Nat, NEW c, Weighted(H(i), u), Fits(c, Tags(H(i)), d, B)
               PROVE  P(m - 1) <= P(i) + Paid(u, c, Tags(H(i)), B)
    OBVIOUS
  <2>2. HeapInv(hist, n, H(i), i) /\ HeapInv(hist, n, H(i + 1), i + 1)
    BY <1>2, <2>1
  <2>3. H(i + 1) = Round(H(i), FirstTag + i)
    BY <1>1, HeapEquations
  <2>4. FirstTag + i + 1 <= B
    BY <1>1
  <2> HIDE DEF H
  <2>5. PICK a, b, z :
          /\ Joins(H(i), a, b, z, H(i + 1)) /\ z.tag = FirstTag + i /\ z.freq = a.freq + b.freq
          /\ DOMAIN z.depth = DOMAIN a.depth \cup DOMAIN b.depth
          /\ \A s \in DOMAIN a.depth : z.depth[s] = 1 + a.depth[s]
          /\ \A s \in DOMAIN b.depth : z.depth[s] = 1 + b.depth[s]
    BY <2>2, <2>3, NextHeap
  <2>6. \E v : \E E \in Nat : \E e :
           /\ Weighted(H(i + 1), v) /\ Fits(e, Tags(H(i + 1)), E, B)
           /\ P(i + 1) + Paid(v, e, Tags(H(i + 1)), B) <= P(i) + Paid(u, c, Tags(H(i)), B)
    BY <1>1, <2>1, <2>2, <2>4, <2>5, TreeStep
  <2>7. PICK v, e, E :
           /\ E \in Nat /\ Weighted(H(i + 1), v) /\ Fits(e, Tags(H(i + 1)), E, B)
           /\ P(i + 1) + Paid(v, e, Tags(H(i + 1)), B) <= P(i) + Paid(u, c, Tags(H(i)), B)
    <3> HIDE DEF P
    <3> QED BY <2>6
  <2>8. P(m - 1) <= P(i + 1) + Paid(v, e, Tags(H(i + 1)), B)
    BY <1>6, <2>7
  <2>9. /\ Paid(v, e, Tags(H(i + 1)), B) \in Nat /\ Paid(u, c, Tags(H(i)), B) \in Nat
        /\ P(m - 1) \in Nat /\ P(i) \in Nat /\ P(i + 1) \in Nat
    <3> HIDE DEF P
    <3> QED BY <1>3, <1>4, <2>1, <2>7
  <2> HIDE DEF P
  <2> QED BY ONLY <2>7, <2>8, <2>9
<1> HIDE DEF Good, m
<1>7. T = Nat
  <2>1. m - 1 - 0 = m - 1
    BY <1>1
  <2>2. ASSUME NEW j \in Nat, j <= m - 1 => Good(m - 1 - j), j + 1 <= m - 1
        PROVE  Good(m - 1 - (j + 1))
    <3>1. PICK i \in 0 .. m - 2 : i = m - 1 - (j + 1)
      BY <1>1, <2>2
    <3>2. i + 1 = m - 1 - j /\ j <= m - 1
      BY <1>1, <2>2, <3>1
    <3> QED BY <1>6, <2>2, <3>1, <3>2
  <2>3. T \in SUBSET Nat /\ 0 \in T /\ \A j \in T : j + 1 \in T
    BY <1>5, <2>1, <2>2
  <2> HIDE DEF T
  <2> QED BY <2>3, NatSetInduction
<1>8. Good(k)
  <2>1. PICK j \in Nat : j = m - 1 - k
    BY <1>1 DEF m
  <2>2. j <= m - 1 /\ m - 1 - j = k
    BY <1>1, <2>1 DEF m
  <2> QED BY <1>7, <2>2
<1> QED BY <1>8 DEF Good, m

(* A sum over S does not depend on how far its indices are counted.          *)
LEMMA OverWide ==
  ASSUME NEW n \in Nat, NEW S \in SUBSET (0 .. n - 1), NEW f, \A s \in S : f[s] \in Nat,
         NEW B \in Nat, n <= B
  PROVE  Over(f, S, B) = Over(f, S, n)
<1> DEFINE Good(j) == Over(f, S, n + j) = Over(f, S, n)
           T == {j \in Nat : Good(j)}
<1>1. Good(0)
  OBVIOUS
<1>2. ASSUME NEW j \in Nat, Good(j) PROVE Good(j + 1)
  <2>1. PICK b \in Nat : b = n + j
    OBVIOUS
  <2>2. n + (j + 1) = b + 1 /\ b \notin S /\ b + 1 \in 1 .. b + 1 /\ b >= n /\ (b + 1) - 1 = b
    BY <2>1
  <2> DEFINE x == Picked(f, S, b)
             y == Picked(f, S, b + 1)
  <2>3. \A i \in 1 .. b : x[i] = y[i]
    BY DEF Picked
  <2>4. y[b + 1] = 0
    BY <2>2 DEF Picked
  <2>5. S \in SUBSET (0 .. b - 1)
    BY <2>2
  <2>6. Over(f, S, b) \in Nat
    BY <2>5, OverNat
  <2>7. Over(f, S, b) = Sum(x, b) /\ Over(f, S, b + 1) = Sum(y, b + 1)
    BY DEF Over
  <2> HIDE DEF x, y
  <2>8. Sum(x, b) = Sum(y, b)
    BY <2>3, SumSame
  <2>9. Sum(y, b + 1) = Sum(y, b) + y[b + 1]
    BY SumEquations
  <2>10. Over(f, S, b + 1) = Over(f, S, b)
    BY ONLY <2>4, <2>6, <2>7, <2>8, <2>9
  <2> QED BY <1>2, <2>1, <2>2, <2>10
<1> HIDE DEF Good
<1>3. T = Nat
  <2>1. T \in SUBSET Nat /\ 0 \in T /\ \A j \in T : j + 1 \in T
    BY <1>1, <1>2
  <2> HIDE DEF T
  <2> QED BY <2>1, NatSetInduction
<1>4. B - n \in Nat /\ n + (B - n) = B
  OBVIOUS
<1>5. Good(B - n)
  BY <1>3, <1>4
<1> QED BY <1>4, <1>5 DEF Good

(* The code space a set of lengths fills, under another bound.               *)
LEMMA SpaceBound ==
  ASSUME NEW n \in Nat, NEW S \in SUBSET (0 .. n - 1), NEW b \in Nat, NEW D \in Nat,
         NEW l, \A s \in S : l[s] \in 0 .. b /\ l[s] \in 0 .. D, Space(l, S, D, n) = Pow2(D)
  PROVE  Space(l, S, b, n) = Pow2(b)
<1>1. CASE b <= D
  <2>1. \A s \in S : l[s] \in 0 .. b
    OBVIOUS
  <2> DEFINE c == Pow2(D - b)
             x == Space(l, S, b, n)
             y == Pow2(b)
  <2>2. x \in Nat
    BY ONLY n \in Nat, S \in SUBSET (0 .. n - 1), D \in Nat, b \in Nat, <1>1, <2>1, SpaceScale
  <2>3. Space(l, S, D, n) = c * x
    BY ONLY n \in Nat, S \in SUBSET (0 .. n - 1), D \in Nat, b \in Nat, <1>1, <2>1, SpaceScale
  <2>4. c \in Nat \ {0} /\ y \in Nat /\ Pow2(D) = c * y
    <3>1. D - b \in Nat /\ (D - b) + b = D
      BY <1>1
    <3> QED BY <3>1, Pow2Type, Pow2Product
  <2>5. c * x = c * y
    BY <2>3, <2>4
  <2> HIDE DEF c, x, y
  <2>6. x = y
    BY ONLY <2>2, <2>4, <2>5
  <2> QED BY <2>6 DEF x, y
<1>2. CASE ~ (b <= D)
  <2>1. D <= b /\ b - D \in Nat /\ (b - D) + D = b
    BY <1>2
  <2>2. Space(l, S, b, n) = Pow2(b - D) * Space(l, S, D, n)
    <3>1. \A s \in S : l[s] \in 0 .. D
      OBVIOUS
    <3> QED BY ONLY n \in Nat, S \in SUBSET (0 .. n - 1), D \in Nat, b \in Nat, <2>1, <3>1, SpaceScale
  <2>3. Pow2((b - D) + D) = Pow2(b - D) * Pow2(D)
    BY <2>1, Pow2Product
  <2> QED BY <2>1, <2>2, <2>3
<1> QED BY <1>1, <1>2

(* The tree of canonical_huffman_lengths: its depths fill the code space and *)
(* no code costs less, however long its codes.                               *)
THEOREM TreeBest ==
  ASSUME FirstTag \in Nat, NEW n, NEW hist, IsHistogram(hist, n), n <= FirstTag,
         Leaves(hist) >= 1, NEW d, d = Root(hist).depth
  PROVE  /\ \A s \in Active(hist) : d[s] \in 0 .. Leaves(hist) - 1
         /\ Space(d, Active(hist), Leaves(hist), n) = Pow2(Leaves(hist))
         /\ \A D \in Nat : \A other : Fits(other, Active(hist), D, n)
                                        => Cost(hist, d, n) <= Cost(hist, other, n)
<1> DEFINE m == Leaves(hist)
           A == Active(hist)
           H == Heaps(hist)[m - 1]
           F == Heaps(hist)[0]
           B == FirstTag + m
<1>1. /\ n \in Nat /\ A \in SUBSET (0 .. n - 1) /\ m \in Nat \ {0} /\ B \in Nat /\ n <= B
      /\ \A s \in A : hist[s] \in Nat /\ s \in Nat
      /\ 0 \in 0 .. m - 1 /\ m - 1 \in 0 .. m - 1 /\ m - 1 \in Nat /\ 0 \in Nat
  <2>1. /\ n \in Nat /\ A \in SUBSET (0 .. n - 1) /\ m \in Nat
        /\ \A s \in A : hist[s] \in Nat /\ s \in Nat
    BY ActiveFacts DEF IsHistogram
  <2>2. m >= 1 /\ B = FirstTag + m
    OBVIOUS
  <2> HIDE DEF m, A, B
  <2> QED BY ONLY FirstTag \in Nat, n <= FirstTag, <2>1, <2>2
<1>2. HeapInv(hist, n, H, m - 1) /\ HeapInv(hist, n, F, 0)
  BY <1>1, HeapAt
<1>3. Root(hist) = First(H)
  BY DEF Root, Leaves
<1>4. F = {Leaf(hist, s) : s \in A}
  BY <1>1, HeapEquations
<1>5. \A s \in A : /\ Leaf(hist, s).freq = hist[s] /\ Leaf(hist, s).tag = s
                   /\ DOMAIN Leaf(hist, s).depth = {s}
  BY LeafNode
<1> HIDE DEF H, F, m, A, B
<1>6. PICK r : H = {r}
  <2>1. Cardinality(H) = 1 /\ IsFiniteSet(H)
    BY <1>1, <1>2 DEF HeapInv, m
  <2> QED BY <2>1, FS_Singleton
<1>7. d = r.depth
  <2>1. Ranked(H) /\ H # {}
    BY <1>2, <1>6 DEF HeapInv
  <2>2. First(H) \in H
    BY <2>1, FirstFacts
  <2> QED BY <1>3, <1>6, <2>2
<1>8. IsNode(r, hist, n, m - 1) /\ DOMAIN d = A
  <2>1. IsNode(r, hist, n, m - 1) /\ \A s \in A : s \in DOMAIN d
    BY <1>2, <1>6, <1>7 DEF HeapInv, A
  <2>2. DOMAIN d \in SUBSET A
    BY <1>7, <2>1 DEF IsNode, A
  <2> QED BY <2>1, <2>2
<1>9. (\A s \in A : d[s] \in 0 .. m - 1) /\ Space(d, A, m, n) = Pow2(m)
  BY <1>7, <1>8 DEF IsNode, m
<1>10. Cost(hist, Depths(hist, H), n) = Cost(hist, d, n)
  <2>1. \A s \in A : Depths(hist, H)[s] = d[s]
    BY <1>2, <1>6, <1>7, <1>8, DepthsAgree
  <2> DEFINE f == [s \in A |-> hist[s] * Depths(hist, H)[s]]
             g == [s \in A |-> hist[s] * d[s]]
  <2>2. \A s \in A : f[s] = g[s]
    BY <2>1
  <2>3. Cost(hist, Depths(hist, H), n) = Over(f, A, n) /\ Cost(hist, d, n) = Over(g, A, n)
    BY DEF Cost, A
  <2> HIDE DEF f, g
  <2> QED BY <1>1, <2>2, <2>3, OverSame
<1>11. Cost(hist, Depths(hist, F), n) = 0
  <2> DEFINE f == [s \in A |-> hist[s] * Depths(hist, F)[s]]
  <2>1. \A s \in A : Depths(hist, F)[s] = 0
    <3>1. \A s \in A : Depths(hist, F)[s] \in 0 .. 0
      BY ONLY 0 \in Nat, <1>2, DepthsTyped DEF A
    <3> QED BY <3>1
  <2>2. \A s \in A : f[s] = 0
    BY <1>1, <2>1
  <2>3. Cost(hist, Depths(hist, F), n) = Over(f, A, n)
    BY DEF Cost, A
  <2> HIDE DEF f
  <2> DEFINE x == Picked(f, A, n)
  <2>4. \A i \in 1 .. n : x[i] = 0
    BY <1>1, <2>2 DEF Picked
  <2> HIDE DEF x
  <2>5. Sum(x, n) = 0
    BY <1>1, <2>4, SumZero
  <2> QED BY <2>3, <2>5 DEF Over, x
<1>12. Tags(F) = A /\ Weighted(F, hist)
  <2> HIDE DEF F
  <2> QED BY <1>4, <1>5 DEF Tags, Weighted
<1>13. ASSUME NEW D \in Nat, NEW other, Fits(other, A, D, n)
       PROVE  Cost(hist, d, n) <= Cost(hist, other, n)
  <2>1. (\A s \in A : other[s] \in 0 .. D) /\ Space(other, A, D, n) <= Pow2(D)
    BY <1>13 DEF Fits
  <2> DEFINE f == [s \in A |-> Pow2(D - other[s])]
             g == [s \in A |-> hist[s] * other[s]]
  <2>2. \A s \in A : f[s] \in Nat /\ g[s] \in Nat
    <3>1. \A s \in A : hist[s] \in Nat
      BY <1>1
    <3>2. /\ \A s \in A : other[s] \in Nat /\ hist[s] * other[s] \in Nat
          /\ \A s \in A : Pow2(D - other[s]) \in Nat \ {0}
      BY <2>1, <3>1, TermsNat
    <3> QED BY <3>2
  <2>3. /\ Space(other, A, D, B) = Over(f, A, B) /\ Space(other, A, D, n) = Over(f, A, n)
        /\ Paid(hist, other, A, B) = Over(g, A, B) /\ Cost(hist, other, n) = Over(g, A, n)
    BY DEF Space, Paid, Cost, A
  <2> HIDE DEF f, g
  <2>4. Over(f, A, B) = Over(f, A, n)
    BY <1>1, <2>2, OverWide
  <2>5. Over(g, A, B) = Over(g, A, n)
    BY <1>1, <2>2, OverWide
  <2>6. Fits(other, Tags(F), D, B)
    BY <1>12, <2>1, <2>3, <2>4 DEF Fits
  <2>7. Cost(hist, Depths(hist, H), n)
          <= Cost(hist, Depths(hist, F), n) + Paid(hist, other, Tags(F), B)
    BY <1>1, <1>12, <2>6, TreeLeast DEF F, H, m, B
  <2>8. Over(g, A, n) \in Nat
    BY <1>1, <2>2, OverNat
  <2>9. Cost(hist, d, n) <= 0 + Over(g, A, n)
    BY <1>10, <1>11, <1>12, <2>3, <2>5, <2>7
  <2> QED BY <2>3, <2>8, <2>9
<1> QED BY <1>9, <1>13 DEF m, A

(* canonical_huffman_lengths under a cap: the tree if it fits, package-merge *)
(* if not.  A symbol that occurs has a code of 1 to cap bits and no other    *)
(* has one; two symbols or more fill the code space exactly, a single one    *)
(* has one bit; and no lengths of a prefix code under the cap cost less.     *)
THEOREM CanonicalBest ==
  ASSUME FirstTag \in Nat, NEW n, NEW hist, IsHistogram(hist, n), n <= FirstTag,
         NEW cap \in Nat \ {0}, 1 <= Leaves(hist), Leaves(hist) <= Pow2(cap),
         NEW l, l = CanonicalHuffmanLengths(hist, cap)
  PROVE  /\ l \in [0 .. n - 1 -> 0 .. cap]
         /\ \A s \in 0 .. n - 1 : s \notin Active(hist) => l[s] = 0
         /\ \A s \in Active(hist) : l[s] \in 1 .. cap
         /\ Leaves(hist) = 1 => \A s \in Active(hist) : l[s] = 1
         /\ 2 <= Leaves(hist) => Space(l, Active(hist), cap, n) = Pow2(cap)
         /\ \A other : /\ \A s \in Active(hist) : other[s] \in 1 .. cap
                       /\ Space(other, Active(hist), cap, n) <= Pow2(cap)
                       => Cost(hist, l, n) <= Cost(hist, other, n)
<1> DEFINE m == Leaves(hist)
           A == Active(hist)
           t == TreeLengths(hist)
           d == Root(hist).depth
<1>1. /\ n \in Nat /\ A \in SUBSET (0 .. n - 1) /\ m \in Nat /\ DOMAIN hist = 0 .. n - 1
      /\ \A s \in A : hist[s] \in Nat
  BY ActiveFacts DEF IsHistogram
<1>2. /\ \A s \in A : d[s] \in 0 .. m - 1
      /\ Space(d, A, m, n) = Pow2(m)
      /\ \A D \in Nat : \A other : Fits(other, A, D, n) => Cost(hist, d, n) <= Cost(hist, other, n)
  BY TreeBest
<1>3. /\ t = [s \in 0 .. n - 1 |-> IF s \in A THEN AtLeast1(d[s]) ELSE 0]
      /\ \A s \in 0 .. n - 1 : s \notin A => t[s] = 0
      /\ \A s \in A : t[s] = AtLeast1(d[s])
  BY <1>1 DEF TreeLengths
<1>4. /\ (\A s \in DOMAIN hist : t[s] <= cap) => l = t
      /\ ~ (\A s \in DOMAIN hist : t[s] <= cap) => l = PackageMergeLengths(hist, cap)
  BY DEF CanonicalHuffmanLengths
<1>5. m = 1 \/ 2 <= m
  <2> HIDE DEF m
  <2> QED BY <1>1 DEF m
<1>6. m = Leaves(hist) /\ A = Active(hist)
  OBVIOUS
<1> HIDE DEF m, A, t, d
<1>7. CASE m = 1
  <2>1. \A s \in A : t[s] = 1
    BY <1>2, <1>3, <1>7 DEF AtLeast1
  <2>2. \A s \in DOMAIN hist : t[s] <= cap
    BY <1>1, <1>3, <2>1
  <2>3. l = t
    BY <1>4, <2>2
  <2>4. l \in [0 .. n - 1 -> 0 .. cap]
    BY <1>1, <1>3, <2>1, <2>3 DEF AtLeast1
  <2>5. ASSUME NEW other, \A s \in A : other[s] \in 1 .. cap
        PROVE  Cost(hist, l, n) <= Cost(hist, other, n)
    <3> DEFINE f == [s \in A |-> hist[s] * l[s]]
               g == [s \in A |-> hist[s] * other[s]]
    <3>1. ASSUME NEW s \in A PROVE f[s] \in Nat /\ g[s] \in Nat /\ f[s] <= g[s]
      <4>1. \A p \in Nat : \A q \in Nat \ {0} : p * 1 = p /\ p * q \in Nat /\ p <= p * q
        <5>1. \A p, q \in Nat : p * (q + 1) = p * q + p /\ p * q \in Nat
          OBVIOUS
        <5>2. \A q \in Nat \ {0} : q - 1 \in Nat /\ q = (q - 1) + 1
          OBVIOUS
        <5> SUFFICES ASSUME NEW p \in Nat, NEW q \in Nat \ {0}
                     PROVE  p * 1 = p /\ p * q \in Nat /\ p <= p * q
          OBVIOUS
        <5>3. PICK e \in Nat : q = e + 1
          BY <5>2
        <5>4. p * q = p * e + p /\ p * e \in Nat
          BY <5>1, <5>3
        <5> QED BY ONLY <5>4, p \in Nat
      <4>2. hist[s] \in Nat /\ other[s] \in Nat \ {0} /\ l[s] = 1
        BY <1>1, <2>1, <2>3, <2>5
      <4> QED BY <4>1, <4>2
    <3>2. Cost(hist, l, n) = Over(f, A, n) /\ Cost(hist, other, n) = Over(g, A, n)
      BY DEF Cost, A
    <3> HIDE DEF f, g
    <3> QED BY <1>1, <3>1, <3>2, OverMonotone
  <2>6. \A s \in A : l[s] = 1 /\ l[s] \in 1 .. cap
    BY <2>1, <2>3
  <2>7. \A s \in 0 .. n - 1 : s \notin A => l[s] = 0
    BY <1>3, <2>3
  <2> QED BY ONLY <1>6, <1>7, <2>4, <2>5, <2>6, <2>7
<1>8. CASE 2 <= m /\ \A s \in DOMAIN hist : t[s] <= cap
  <2>1. l = t
    BY <1>4, <1>8
  <2>2. \A s \in A : d[s] >= 1
    <3>1. Cardinality(A) >= 2
      BY <1>1, <1>8 DEF m, A, Leaves
    <3>2. \A s \in A : d[s] \in 0 .. m
      BY <1>1, <1>2
    <3> QED BY <1>1, <1>2, <3>1, <3>2, FullSpaceLengths
  <2>3. \A s \in A : l[s] = d[s] /\ l[s] \in 1 .. cap /\ l[s] \in 0 .. m
    BY <1>1, <1>2, <1>3, <1>8, <2>1, <2>2 DEF AtLeast1
  <2>4. Space(l, A, cap, n) = Pow2(cap)
    <3> DEFINE f == [s \in A |-> Pow2(m - l[s])]
               g == [s \in A |-> Pow2(m - d[s])]
    <3>1. \A s \in A : f[s] = g[s]
      BY <2>3
    <3>2. Space(l, A, m, n) = Over(f, A, n) /\ Space(d, A, m, n) = Over(g, A, n)
      BY DEF Space
    <3> HIDE DEF f, g
    <3>3. Space(l, A, m, n) = Pow2(m)
      BY <1>1, <1>2, <3>1, <3>2, OverSame
    <3>4. \A s \in A : l[s] \in 0 .. cap /\ l[s] \in 0 .. m
      BY <2>3
    <3> QED BY <1>1, <3>3, <3>4, SpaceBound
  <2>5. ASSUME NEW other, \A s \in A : other[s] \in 1 .. cap, Space(other, A, cap, n) <= Pow2(cap)
        PROVE  Cost(hist, l, n) <= Cost(hist, other, n)
    <3>1. Fits(other, A, cap, n) /\ cap \in Nat
      BY <2>5 DEF Fits
    <3>2. Cost(hist, d, n) <= Cost(hist, other, n)
      BY <1>2, <3>1
    <3> DEFINE f == [s \in A |-> hist[s] * l[s]]
               g == [s \in A |-> hist[s] * d[s]]
    <3>3. \A s \in A : f[s] = g[s]
      BY <2>3
    <3>4. Cost(hist, l, n) = Over(f, A, n) /\ Cost(hist, d, n) = Over(g, A, n)
      BY DEF Cost, A
    <3> HIDE DEF f, g
    <3>5. Cost(hist, l, n) = Cost(hist, d, n)
      BY <1>1, <3>3, <3>4, OverSame
    <3> QED BY <3>2, <3>5
  <2>6. \A s \in 0 .. n - 1 : s \notin A => l[s] = 0
    BY <1>3, <2>1
  <2>7. l \in [0 .. n - 1 -> 0 .. cap]
    <3>1. \A s \in 0 .. n - 1 : l[s] \in 0 .. cap
      BY <2>3, <2>6
    <3>2. l = [s \in 0 .. n - 1 |-> l[s]]
      BY <1>3, <2>1
    <3> QED BY <3>1, <3>2
  <2>8. m # 1
    BY <1>8
  <2> QED BY ONLY <1>6, <2>3, <2>4, <2>5, <2>6, <2>7, <2>8
<1>9. CASE 2 <= m /\ ~ \A s \in DOMAIN hist : t[s] <= cap
  <2>1. l = PackageMergeLengths(hist, cap)
    BY <1>4, <1>9
  <2>2. /\ \A s \in DOMAIN hist : s \notin A => l[s] = 0
        /\ \A s \in A : l[s] \in 1 .. cap
        /\ Space(l, A, cap, n) = Pow2(cap)
        /\ \A other : /\ \A s \in A : other[s] \in 1 .. cap
                      /\ Space(other, A, cap, n) <= Pow2(cap)
                      => Cost(hist, l, n) <= Cost(hist, other, n)
    BY <1>6, <1>9, <2>1, PackageMergeBest
  <2>3. l \in [0 .. n - 1 -> 0 .. cap]
    <3>1. \A s \in 0 .. n - 1 : l[s] \in 0 .. cap
      BY <1>1, <2>2
    <3>2. l = [s \in 0 .. n - 1 |-> l[s]]
      BY <1>1, <2>1 DEF PackageMergeLengths
    <3> QED BY <3>1, <3>2
  <2>4. m # 1
    BY <1>9
  <2>5. \A s \in 0 .. n - 1 : s \notin A => l[s] = 0
    BY <1>1, <2>2
  <2> QED BY ONLY <1>6, <2>2, <2>3, <2>4, <2>5
<1> QED BY <1>5, <1>7, <1>8, <1>9

==============================================================================
