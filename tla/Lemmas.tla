-------------------------------- MODULE Lemmas --------------------------------
(***************************************************************************)
(* What the operators shared by the models preserve and compute: the       *)
(* window operations of BitWindow, for every input length, cursor and      *)
(* window, and the totals of Sums, for every number of summands.           *)
(***************************************************************************)
EXTENDS BitWindow, Fourcc, Sums, Sequences, WellFoundedInduction, TLAPS

(* Room counts the whole bytes that fit: no byte more, no byte less. *)
LEMMA RoomProperties ==
  ASSUME NEW f \in 0 .. AccBits
  PROVE  /\ Room(f) \in 0 .. 8
         /\ f + 8 * Room(f) <= AccBits
         /\ AccBits - 8 < f + 8 * Room(f)
  BY DEF Room, AccBits

(* Peeking p bits delivers the next p input bits, provided they are all      *)
(* valid or the data has been used up.                                       *)
LEMMA PeekDelivers ==
  ASSUME NEW n \in Nat, NEW c \in Nat, NEW w, Faithful(n, c, w),
         NEW p \in 0 .. AccBits, p <= w.fill \/ AtEnd(n, c, w)
  PROVE  Top(w.acc, p) = [i \in 0 .. p - 1 |-> StreamBit(n, c + i)]
<1>1. ASSUME NEW i \in 0 .. p - 1
      PROVE  w.acc[i] = StreamBit(n, c + i)
  <2>1. /\ i \in Slots
        /\ w.fill \in 0 .. AccBits
    BY DEF Slots, AccBits, Faithful, Windows
  <2>2. CASE w.acc[i] = StreamBit(n, c + i)
    BY <2>2
  <2>3. CASE i >= w.fill /\ w.acc[i] = Zero
    <3>1. AtEnd(n, c, w)
      BY <2>1, <2>3
    <3>2. c + i >= 8 * n
      BY <2>1, <2>3, <3>1 DEF AtEnd
    <3>3. QED
      BY <2>3, <3>2 DEF StreamBit
  <2>4. QED
    BY <2>1, <2>2, <2>3 DEF Faithful
<1>2. QED
  BY <1>1 DEF Top

(* Shifting k bits out and lowering the fill count accordingly moves a       *)
(* faithful window k bits on; the count may saturate only at the end.        *)
LEMMA ShiftFaithful ==
  ASSUME NEW n \in Nat, NEW c \in Nat, NEW w, Faithful(n, c, w),
         NEW k \in Nat, k <= w.fill \/ AtEnd(n, c, w),
         NEW f, f = SatSub(w.fill, k)
  PROVE  Faithful(n, c + k, [acc |-> Shl(w.acc, k), fill |-> f, pos |-> w.pos])
<1> DEFINE v == [acc |-> Shl(w.acc, k), fill |-> f, pos |-> w.pos]
<1>1. /\ w.acc \in [Slots -> Int]
      /\ w.fill \in 0 .. AccBits
      /\ w.pos \in Nat
      /\ w.pos <= n
  BY DEF Faithful, Windows
<1>2. /\ f \in 0 .. AccBits
      /\ k <= w.fill => f = w.fill - k
      /\ k > w.fill => f = 0
  BY <1>1 DEF SatSub, AccBits
<1>3. ASSUME NEW i \in Slots
      PROVE  \/ v.acc[i] = StreamBit(n, c + k + i)
             \/ i >= f /\ v.acc[i] = Zero
  <2>1. CASE i + k < AccBits
    <3>1. i + k \in Slots /\ v.acc[i] = w.acc[i + k]
      BY <2>1 DEF Slots, Shl, AccBits
    <3>2. c + k + i = c + (i + k)
      BY DEF Slots
    <3>3. CASE w.acc[i + k] = StreamBit(n, c + (i + k))
      BY <3>1, <3>2, <3>3
    <3>4. CASE i + k >= w.fill /\ w.acc[i + k] = Zero
      BY <1>1, <1>2, <3>1, <3>4 DEF Slots
    <3>5. QED
      BY <3>1, <3>3, <3>4 DEF Faithful
  <2>2. CASE ~ (i + k < AccBits)
    <3>1. v.acc[i] = Zero
      BY <2>2 DEF Shl
    <3>2. i >= f
      BY <1>1, <1>2, <2>2 DEF Slots, AccBits
    <3>3. QED
      BY <3>1, <3>2
  <2>3. QED
    BY <2>1, <2>2
<1>4. v \in Windows
  <2>1. Shl(w.acc, k) \in [Slots -> Int]
    BY <1>1 DEF Shl, Slots, AccBits, Zero
  <2>2. QED
    BY <1>1, <1>2, <2>1 DEF Windows
<1>5. c + k + v.fill = 8 * v.pos \/ AtEnd(n, c + k, v)
  BY <1>1, <1>2 DEF Faithful, AtEnd
<1>6. QED
  BY <1>1, <1>3, <1>4, <1>5 DEF Faithful

(* Merging whole bytes above the valid bits keeps a window faithful: the     *)
(* residue is ORed with itself.  `to` is where the merge stops writing, m    *)
(* the number of bytes counted; bytes past the end of data are zeros and     *)
(* leave pos where it is.                                                    *)
LEMMA MergeFaithful ==
  ASSUME NEW n \in Nat, NEW c \in Nat, NEW w, Faithful(n, c, w),
         NEW m \in Nat, NEW to \in Int,
         w.fill + 8 * m <= to, to <= AccBits
  PROVE  Faithful(n, c, [acc  |-> Load(n, w.acc, w.pos, w.fill, to),
                         fill |-> w.fill + 8 * m,
                         pos  |-> Least(n, w.pos + m)])
<1> DEFINE v == [acc  |-> Load(n, w.acc, w.pos, w.fill, to),
                 fill |-> w.fill + 8 * m,
                 pos  |-> Least(n, w.pos + m)]
<1>1. /\ w.acc \in [Slots -> Int]
      /\ w.fill \in 0 .. AccBits
      /\ w.pos \in Nat
      /\ w.pos <= n
      /\ c + w.fill = 8 * w.pos \/ AtEnd(n, c, w)
  BY DEF Faithful, Windows
<1>2. /\ v.fill \in 0 .. AccBits
      /\ v.fill >= w.fill
      /\ v.pos \in Nat
      /\ v.pos <= n
  BY <1>1 DEF AccBits, Least
<1>3. ASSUME NEW i \in Slots, i >= w.fill
      PROVE  StreamBit(n, 8 * w.pos + (i - w.fill)) = StreamBit(n, c + i)
  <2>1. CASE c + w.fill = 8 * w.pos
    <3>1. 8 * w.pos + (i - w.fill) = c + i
      BY <1>1, <2>1 DEF Slots
    <3>2. QED
      BY <3>1
  <2>2. CASE AtEnd(n, c, w)
    <3>1. 8 * w.pos + (i - w.fill) >= 8 * n /\ c + i >= 8 * n
      BY <1>1, <1>3, <2>2 DEF Slots, AtEnd
    <3>2. /\ 8 * w.pos + (i - w.fill) \in Int
          /\ c + i \in Int
      <4>1. i \in Int
        BY DEF Slots, AccBits
      <4>2. w.pos \in Int /\ w.fill \in Int
        BY ONLY <1>1 DEF AccBits
      <4>3. QED
        BY <4>1, <4>2
    <3>3. ~ (8 * w.pos + (i - w.fill) < 8 * n) /\ ~ (c + i < 8 * n)
      BY <3>1, <3>2
    <3>4. QED
      BY <3>3 DEF StreamBit
  <2>3. QED
    BY <1>1, <2>1, <2>2
<1>4. ASSUME NEW i \in Slots
      PROVE  \/ v.acc[i] = StreamBit(n, c + i)
             \/ i >= v.fill /\ v.acc[i] = Zero
  <2>0. \/ w.acc[i] = StreamBit(n, c + i)
        \/ i >= w.fill /\ w.acc[i] = Zero
    BY DEF Faithful
  <2>1. CASE i \in w.fill .. to - 1
    <3>1. v.acc[i] = Or(w.acc[i], StreamBit(n, c + i))
      BY <1>1, <1>3, <2>1 DEF Load
    <3>2. QED
      BY <2>0, <3>1 DEF Or
  <2>2. CASE ~ (i \in w.fill .. to - 1)
    <3>1. v.acc[i] = w.acc[i]
      BY <2>2 DEF Load
    <3>2. CASE i < w.fill
      BY <1>1, <2>0, <3>1, <3>2 DEF Slots
    <3>3. CASE i >= w.fill
      <4>1. i >= to
        BY <1>1, <2>2, <3>3 DEF Slots
      <4>2. i >= v.fill
        BY <1>1, <4>1 DEF Slots
      <4>3. QED
        BY <2>0, <3>1, <4>2
    <3>4. QED
      BY <1>1, <3>2, <3>3 DEF Slots
  <2>3. QED
    BY <2>1, <2>2
<1>5. v \in Windows
  <2>1. ASSUME NEW i \in Slots
        PROVE  Or(w.acc[i], StreamBit(n, 8 * w.pos + (i - w.fill))) \in Int
    <3>1. 8 * w.pos + (i - w.fill) \in Int
      BY <1>1 DEF Slots, AccBits
    <3>2. StreamBit(n, 8 * w.pos + (i - w.fill)) \in Int
      BY <3>1 DEF StreamBit, Zero
    <3>3. w.acc[i] \in Int
      BY <1>1
    <3>4. QED
      BY <3>2, <3>3 DEF Or, Clash
  <2>2. v.acc \in [Slots -> Int]
    BY <1>1, <2>1 DEF Load
  <2>3. QED
    BY <1>2, <2>2 DEF Windows
<1>6. c + v.fill = 8 * v.pos \/ AtEnd(n, c, v)
  <2>1. CASE AtEnd(n, c, w)
    BY <1>1, <2>1 DEF AtEnd, Least
  <2>2. CASE c + w.fill = 8 * w.pos
    BY <1>1, <2>2 DEF AtEnd, Least
  <2>3. QED
    BY <1>1, <2>1, <2>2
<1>7. QED
  BY <1>2, <1>4, <1>5, <1>6 DEF Faithful

------------------------------------------------------------------------------
(* Induction over the natural numbers, for a set instead of a predicate: the *)
(* least number that is not in the set would have a predecessor that is.     *)
LEMMA NatSetInduction ==
  ASSUME NEW S \in SUBSET Nat, 0 \in S, \A n \in S : n + 1 \in S
  PROVE  S = Nat
<1> DEFINE R == {ss \in Nat \X Nat : ss[1] < ss[2]}
<1>1. IsWellFoundedOn(R, Nat)
  BY NatLessThanWellFounded DEF OpToRel
<1> SUFFICES ASSUME Nat \ S # {} PROVE FALSE
  OBVIOUS
<1>2. PICK x \in Nat \ S : \A y \in Nat \ S : ~ (<<y, x>> \in R)
  <2> HIDE DEF R
  <2> DEFINE T == Nat \ S
  <2>1. T \subseteq Nat /\ T # {}
    OBVIOUS
  <2> HIDE DEF T
  <2>2. \E x \in T : \A y \in T : ~ (<<y, x>> \in R)
    BY <1>1, <2>1, WFMin, Zenon
  <2> QED BY <2>2 DEF T
<1>3. x # 0 /\ x - 1 \in Nat
  OBVIOUS
<1>4. <<x - 1, x>> \in R
  BY <1>3
<1>5. x - 1 \in S
  BY <1>2, <1>3, <1>4
<1> QED BY <1>3, <1>5

(* A bounded set of numbers that is not empty has a largest element.         *)
LEMMA LargestExists ==
  ASSUME NEW S \in SUBSET Nat, NEW b \in Nat, \A n \in S : n <= b, NEW e \in S
  PROVE  \E x \in S : \A y \in S : x >= y
<1> DEFINE T == {m \in Nat : (\E x \in S : x + m >= b) => \E x \in S : \A y \in S : x >= y}
<1>1. 0 \in T
  OBVIOUS
<1>2. ASSUME NEW m \in T PROVE m + 1 \in T
  <2> SUFFICES ASSUME NEW x \in S, x + (m + 1) >= b
               PROVE  \E z \in S : \A y \in S : z >= y
    OBVIOUS
  <2>1. CASE \E z \in S : z + m >= b
    BY <2>1
  <2>2. CASE ~ \E z \in S : z + m >= b
    <3>1. ASSUME NEW y \in S PROVE x >= y
      <4>1. ~ (y + m >= b) /\ x \in Nat /\ y \in Nat /\ m \in Nat
        BY <2>2
      <4> QED BY <4>1
    <3> QED BY <3>1
  <2> QED BY <2>1, <2>2
<1>3. T = Nat
  <2> HIDE DEF T
  <2>1. T \in SUBSET Nat
    BY DEF T
  <2> QED BY <1>1, <1>2, <2>1, NatSetInduction
<1>4. b \in T
  <2> HIDE DEF T
  <2> QED BY <1>3
<1>5. e + b >= b
  OBVIOUS
<1> QED BY <1>4, <1>5

(* g is the beginning, up to n, of the running totals of f.                  *)
Totals(f, g, n) == g = [k \in 0 .. n |-> IF k = 0 THEN 0 ELSE g[k - 1] + f[k]]

(* Running totals exist for every n and agree where they overlap.            *)
LEMMA TotalsExist ==
  ASSUME NEW f, NEW n \in Nat
  PROVE  \E g : Totals(f, g, n)
<1> DEFINE S == {m \in Nat : \E g : Totals(f, g, m)}
<1>1. 0 \in S
  <2> DEFINE g == [k \in 0 .. 0 |-> 0]
  <2>1. g = [k \in 0 .. 0 |-> IF k = 0 THEN 0 ELSE g[k - 1] + f[k]]
    OBVIOUS
  <2> HIDE DEF g
  <2>2. Totals(f, g, 0)
    BY <2>1 DEF Totals
  <2> QED BY <2>2
<1>2. ASSUME NEW m \in S PROVE m + 1 \in S
  <2>1. PICK g : Totals(f, g, m)
    OBVIOUS
  <2> DEFINE h == [k \in 0 .. m + 1 |-> IF k = m + 1 THEN g[m] + f[m + 1] ELSE g[k]]
  <2>2. ASSUME NEW k \in 0 .. m + 1
        PROVE  h[k] = IF k = 0 THEN 0 ELSE h[k - 1] + f[k]
    <3>1. CASE k = m + 1
      <4>1. k # 0 /\ k - 1 = m /\ m \in 0 .. m + 1 /\ m # m + 1
        BY <3>1
      <4> QED BY <3>1, <4>1
    <3>2. CASE k # m + 1
      <4>1. k \in 0 .. m /\ h[k] = g[k]
        BY <3>2
      <4>2. g[k] = IF k = 0 THEN 0 ELSE g[k - 1] + f[k]
        BY <2>1, <4>1 DEF Totals
      <4>3. k # 0 => k - 1 \in 0 .. m + 1 /\ k - 1 # m + 1
        BY <4>1
      <4> QED BY <4>1, <4>2, <4>3
    <3> QED BY <3>1, <3>2
  <2>3. DOMAIN h = 0 .. m + 1 /\ h = [k \in 0 .. m + 1 |-> h[k]]
    OBVIOUS
  <2> HIDE DEF h
  <2>4. Totals(f, h, m + 1)
    BY <2>2, <2>3 DEF Totals
  <2> QED BY <2>4
<1>3. S = Nat
  <2> HIDE DEF S
  <2>1. S \in SUBSET Nat
    BY DEF S
  <2> QED BY <1>1, <1>2, <2>1, NatSetInduction
<1> QED BY <1>3

LEMMA TotalsAgree ==
  ASSUME NEW f, NEW g, NEW h, NEW n \in Nat, NEW m \in Nat,
         Totals(f, g, n), Totals(f, h, m),
         NEW j \in Nat, j <= n, j <= m
  PROVE  g[j] = h[j]
<1> DEFINE S == {k \in Nat : k <= n /\ k <= m => g[k] = h[k]}
<1>1. 0 \in S
  BY DEF Totals
<1>2. ASSUME NEW k \in S PROVE k + 1 \in S
  <2> SUFFICES ASSUME k + 1 <= n, k + 1 <= m PROVE g[k + 1] = h[k + 1]
    OBVIOUS
  <2>1. g[k + 1] = g[k] + f[k + 1] /\ h[k + 1] = h[k] + f[k + 1]
    <3>1. k + 1 \in 0 .. n /\ k + 1 \in 0 .. m /\ k + 1 # 0 /\ (k + 1) - 1 = k
      OBVIOUS
    <3> QED BY <3>1 DEF Totals
  <2> QED BY <2>1
<1>3. S = Nat
  <2> HIDE DEF S
  <2>1. S \in SUBSET Nat
    BY DEF S
  <2> QED BY <1>1, <1>2, <2>1, NatSetInduction
<1> QED BY <1>3

(* The equations of Sum. *)
LEMMA SumEquations ==
  ASSUME NEW f
  PROVE  /\ Sum(f, 0) = 0
         /\ \A n \in Nat : Sum(f, n + 1) = Sum(f, n) + f[n + 1]
<1> DEFINE Eq(u) == u = [k \in Nat |-> IF k = 0 THEN 0 ELSE u[k - 1] + f[k]]
           G(n) == CHOOSE g : Totals(f, g, n)
           W == [n \in Nat |-> G(n)[n]]
           U == CHOOSE u : Eq(u)
<1>1. \A n \in Nat : Totals(f, G(n), n)
  BY TotalsExist
<1>2. ASSUME NEW k \in Nat
      PROVE  G(k)[k] = IF k = 0 THEN 0 ELSE G(k - 1)[k - 1] + f[k]
  <2> HIDE DEF G
  <2>1. G(k)[k] = IF k = 0 THEN 0 ELSE G(k)[k - 1] + f[k]
    BY <1>1 DEF Totals
  <2>2. CASE k = 0
    BY <2>1, <2>2
  <2>3. CASE k # 0
    <3>1. k - 1 \in Nat /\ k - 1 <= k
      BY <2>3
    <3>2. G(k)[k - 1] = G(k - 1)[k - 1]
      BY <1>1, <3>1, TotalsAgree
    <3> QED BY <2>1, <2>3, <3>2
  <2> QED BY <2>2, <2>3
<1>3. Eq(W)
  <2> HIDE DEF G
  <2>1. ASSUME NEW k \in Nat
        PROVE  W[k] = IF k = 0 THEN 0 ELSE W[k - 1] + f[k]
    <3>1. k # 0 => k - 1 \in Nat
      OBVIOUS
    <3> QED BY <1>2, <3>1
  <2>2. W = [k \in Nat |-> W[k]]
    OBVIOUS
  <2> HIDE DEF W
  <2> QED BY <2>1, <2>2
<1>4. Eq(U)
  <2> HIDE DEF W, Eq
  <2> QED BY <1>3
<1>5. \A n \in Nat : Sum(f, n) = U[n]
  BY DEF Sum
<1>6. \A n \in Nat : U[n] = IF n = 0 THEN 0 ELSE U[n - 1] + f[n]
  <2> HIDE DEF U
  <2> QED BY <1>4
<1> HIDE DEF U
<1>7. Sum(f, 0) = 0
  BY <1>5, <1>6
<1>8. ASSUME NEW n \in Nat PROVE Sum(f, n + 1) = Sum(f, n) + f[n + 1]
  <2>1. n + 1 \in Nat /\ n + 1 # 0 /\ (n + 1) - 1 = n
    OBVIOUS
  <2> QED BY <2>1, <1>5, <1>6
<1> QED BY <1>7, <1>8

(* Its type. *)
LEMMA SumNat ==
  ASSUME NEW f, NEW n \in Nat, \A k \in 1 .. n : f[k] \in Nat
  PROVE  Sum(f, n) \in Nat
<1> DEFINE S == {m \in Nat : m <= n => Sum(f, m) \in Nat}
<1>1. 0 \in S
  BY SumEquations
<1>2. ASSUME NEW m \in S PROVE m + 1 \in S
  BY SumEquations
<1>3. S = Nat
  <2> HIDE DEF S
  <2>1. S \in SUBSET Nat
    BY DEF S
  <2> QED BY <1>1, <1>2, <2>1, NatSetInduction
<1> QED BY <1>3

(* It depends on the summands only, and grows with each of them.             *)
LEMMA SumSame ==
  ASSUME NEW f, NEW g, NEW n \in Nat, \A k \in 1 .. n : f[k] = g[k]
  PROVE  Sum(f, n) = Sum(g, n)
<1> DEFINE S == {m \in Nat : m <= n => Sum(f, m) = Sum(g, m)}
<1>1. 0 \in S
  BY SumEquations
<1>2. ASSUME NEW m \in S PROVE m + 1 \in S
  BY SumEquations
<1>3. S = Nat
  <2> HIDE DEF S
  <2>1. S \in SUBSET Nat
    BY DEF S
  <2> QED BY <1>1, <1>2, <2>1, NatSetInduction
<1> QED BY <1>3

LEMMA SumMonotone ==
  ASSUME NEW f, NEW g, NEW n \in Nat,
         \A k \in 1 .. n : f[k] \in Nat /\ g[k] \in Nat /\ f[k] <= g[k]
  PROVE  Sum(f, n) <= Sum(g, n)
<1> DEFINE S == {m \in Nat : m <= n => /\ Sum(f, m) \in Nat /\ Sum(g, m) \in Nat
                                       /\ Sum(f, m) <= Sum(g, m)}
<1>1. 0 \in S
  BY SumEquations
<1>2. ASSUME NEW m \in S PROVE m + 1 \in S
  <2> SUFFICES ASSUME m + 1 <= n
               PROVE  /\ Sum(f, m + 1) \in Nat /\ Sum(g, m + 1) \in Nat
                      /\ Sum(f, m + 1) <= Sum(g, m + 1)
    OBVIOUS
  <2>1. /\ Sum(f, m + 1) = Sum(f, m) + f[m + 1]
        /\ Sum(g, m + 1) = Sum(g, m) + g[m + 1]
    BY SumEquations
  <2>2. m + 1 \in 1 .. n
    OBVIOUS
  <2> QED BY <2>1, <2>2
<1>3. S = Nat
  <2> HIDE DEF S
  <2>1. S \in SUBSET Nat
    BY DEF S
  <2> QED BY <1>1, <1>2, <2>1, NatSetInduction
<1> QED BY <1>3

(* The later total is the larger.                                            *)
LEMMA SumGrows ==
  ASSUME NEW f, NEW n \in Nat, \A k \in 1 .. n : f[k] \in Nat,
         NEW m \in 0 .. n
  PROVE  Sum(f, m) <= Sum(f, n)
<1> DEFINE S == {j \in Nat : j <= n /\ m <= j => /\ Sum(f, j) \in Nat
                                                /\ Sum(f, m) <= Sum(f, j)}
<1>1. 0 \in S
  BY SumEquations
<1>2. ASSUME NEW j \in S PROVE j + 1 \in S
  <2> SUFFICES ASSUME j + 1 <= n, m <= j + 1
               PROVE  Sum(f, j + 1) \in Nat /\ Sum(f, m) <= Sum(f, j + 1)
    OBVIOUS
  <2>1. Sum(f, j + 1) = Sum(f, j) + f[j + 1] /\ f[j + 1] \in Nat
    BY SumEquations
  <2>2. Sum(f, j + 1) \in Nat
    BY SumNat
  <2>3. CASE m = j + 1
    BY <2>2, <2>3
  <2>4. CASE m <= j
    <3>1. Sum(f, m) \in Nat
      BY SumNat
    <3>2. Sum(f, j) \in Nat /\ Sum(f, m) <= Sum(f, j)
      BY <2>4
    <3> HIDE DEF S
    <3> QED BY <2>1, <3>1, <3>2
  <2> QED BY <2>2, <2>3, <2>4
<1>3. S = Nat
  <2> HIDE DEF S
  <2>1. S \in SUBSET Nat
    BY DEF S
  <2> QED BY <1>1, <1>2, <2>1, NatSetInduction
<1> QED BY <1>3

------------------------------------------------------------------------------
(* Geometry: the operators of Fourcc.                                        *)

(* The elements of a sequence over S are in S. *)
LEMMA ElementOfSeq ==
  ASSUME NEW S, NEW s \in Seq(S), NEW i \in 1 .. Len(s)
  PROVE  s[i] \in S
OBVIOUS

(* What a concatenation consists of. *)
LEMMA Concatenated ==
  ASSUME NEW S, NEW u \in Seq(S), NEW v \in Seq(S)
  PROVE  /\ u \o v \in Seq(S)
         /\ Len(u \o v) = Len(u) + Len(v)
         /\ \A i \in 1 .. Len(u) : (u \o v)[i] = u[i]
         /\ \A i \in 1 .. Len(v) : (u \o v)[Len(u) + i] = v[i]
OBVIOUS

(* And what is cut out of a sequence. *)
LEMMA CutOut ==
  ASSUME NEW S, NEW u \in Seq(S), NEW a \in Nat, NEW b \in Nat, a <= b, b <= Len(u)
  PROVE  /\ SubSeq(u, a + 1, b) \in Seq(S)
         /\ Len(SubSeq(u, a + 1, b)) = b - a
         /\ \A i \in 1 .. b - a : SubSeq(u, a + 1, b)[i] = u[a + i]
<1>1. ASSUME NEW i \in 1 .. b - a
      PROVE  a + i \in 1 .. Len(u) /\ u[a + i] \in S /\ (a + 1) + i - 1 = a + i
  OBVIOUS
<1>2. SubSeq(u, a + 1, b) = [i \in 1 .. b - a |-> u[a + i]]
  <2>1. 1 + b - (a + 1) = b - a
    OBVIOUS
  <2> QED BY <1>1, <2>1
<1>3. b - a \in Nat
  OBVIOUS
<1> QED BY <1>1, <1>2, <1>3

(* The ceiling of a quotient by a positive divisor is a natural number, and  *)
(* positive when the dividend is.                                            *)
LEMMA CeilDivNat ==
  ASSUME NEW a \in Nat, NEW b \in Nat, b > 0
  PROVE  /\ CeilDiv(a, b) \in Nat
         /\ a > 0 => CeilDiv(a, b) >= 1
BY DEF CeilDiv

(* k is below ceil(a / b) exactly when the k-th group of b starts before a.  *)
LEMMA CeilDivBelow ==
  ASSUME NEW a \in Nat, NEW b \in Nat, b > 0, NEW k \in Nat
  PROVE  k < CeilDiv(a, b) <=> k * b < a
BY DEF CeilDiv

(* Row r of a plane belongs to the group r \div sh and to no other.          *)
LEMMA RowGroup ==
  ASSUME NEW r \in Nat, NEW sh \in Nat, sh > 0
  PROVE  /\ r \div sh \in Nat
         /\ (r \div sh) * sh <= r
         /\ r < (r \div sh + 1) * sh
         /\ \A k \in Nat : k * sh <= r /\ r < (k + 1) * sh => k = r \div sh
<1>1. r \div sh \in Nat /\ (r \div sh) * sh <= r /\ r < (r \div sh + 1) * sh
  OBVIOUS
<1>2. ASSUME NEW k \in Nat, k * sh <= r, r < (k + 1) * sh
      PROVE  k = r \div sh
  BY <1>2
<1> QED BY <1>1, <1>2

(* Counting on in groups of d: the next number is in the same group or opens *)
(* the next one.                                                             *)
LEMMA CountOn ==
  ASSUME NEW n \in Nat, NEW d \in Nat, d > 0
  PROVE  /\ n \div d \in Nat /\ n % d \in 0 .. d - 1
         /\ n = d * (n \div d) + (n % d)
         /\ (n % d) + 1 < d => (n + 1) \div d = n \div d /\ (n + 1) % d = (n % d) + 1
         /\ (n % d) + 1 = d => (n + 1) \div d = n \div d + 1 /\ (n + 1) % d = 0
<1>1. n \div d \in Nat /\ n % d \in 0 .. d - 1 /\ n = d * (n \div d) + (n % d)
  OBVIOUS
<1> DEFINE q == n \div d
           r == n % d
<1>2. q \in Nat /\ r \in 0 .. d - 1 /\ n = d * q + r
  BY <1>1
<1> HIDE DEF q, r
<1>3. ASSUME NEW a \in Nat, NEW b \in 0 .. d - 1, n + 1 = d * a + b
      PROVE  (n + 1) \div d = a /\ (n + 1) % d = b
  BY <1>3
<1>4. r + 1 < d => n + 1 = d * q + (r + 1) /\ r + 1 \in 0 .. d - 1
  BY <1>2
<1>5. r + 1 = d => n + 1 = d * (q + 1) + 0 /\ q + 1 \in Nat
  BY <1>2
<1>6. r + 1 < d => (n + 1) \div d = q /\ (n + 1) % d = r + 1
  BY <1>2, <1>3, <1>4
<1>7. r + 1 = d => (n + 1) \div d = q + 1 /\ (n + 1) % d = 0
  BY <1>2, <1>3, <1>5
<1> QED BY <1>1, <1>6, <1>7 DEF q, r

(* Slice k of a plane exists, as counted on the full-height raster, exactly  *)
(* when it starts above the plane's own last row: subsampling divides height *)
(* and slice height alike.                                                   *)
LEMMA PlaneShape ==
  ASSUME NEW rec \in FourccRecords, NEW p, NEW width \in Nat \ {0},
         NEW height \in Nat \ {0}, NEW sliceHeight \in Nat \ {0},
         width % rec.subX = 0, height % rec.subY = 0, sliceHeight % rec.subY = 0,
         NEW g, g = PlaneGeom(rec, p, width, height, sliceHeight)
  PROVE  /\ g.width \in Nat \ {0} /\ g.height \in Nat \ {0} /\ g.sliceHeight \in Nat \ {0}
         /\ \A k \in Nat : k < CeilDiv(height, sliceHeight) <=> k * g.sliceHeight < g.height
<1> DEFINE x == SubX(rec, p)
           y == SubY(rec, p)
<1>1. x \in {1, 2} /\ y \in {1, 2} /\ width % x = 0 /\ height % y = 0 /\ sliceHeight % y = 0
  BY DEF FourccRecords, SubX, SubY
<1>2. g.width = width \div x /\ g.height = height \div y /\ g.sliceHeight = sliceHeight \div y
  BY DEF PlaneGeom
<1> HIDE DEF x, y
<1> DEFINE w == g.width
           h == g.height
           sh == g.sliceHeight
<1>3. w \in Nat \ {0} /\ h \in Nat \ {0} /\ sh \in Nat \ {0}
      /\ height = y * h /\ sliceHeight = y * sh
  <2>1. w \in Nat \ {0}
    BY <1>1, <1>2
  <2>2. h \in Nat \ {0} /\ height = y * h
    BY <1>1, <1>2
  <2>3. sh \in Nat \ {0} /\ sliceHeight = y * sh
    BY <1>1, <1>2
  <2> QED BY <2>1, <2>2, <2>3
<1>4. ASSUME NEW k \in Nat
      PROVE  k < CeilDiv(height, sliceHeight) <=> k * sh < h
  <2> HIDE DEF h, sh
  <2>1. k < CeilDiv(height, sliceHeight) <=> k * sliceHeight < height
    BY CeilDivBelow
  <2>2. CASE y = 1
    BY <1>3, <2>1, <2>2
  <2>3. CASE y = 2
    <3>1. k * (2 * sh) = 2 * (k * sh) /\ k * sh \in Nat
      BY <1>3
    <3> QED BY <1>3, <2>1, <2>3, <3>1
  <2> QED BY <1>1, <2>2, <2>3
<1> QED BY <1>3, <1>4

(* Slices of such a plane: each has rows, and ends where the next begins.    *)
LEMMA SliceTiles ==
  ASSUME NEW g, g.height \in Nat \ {0}, g.sliceHeight \in Nat \ {0},
         NEW n \in Nat, \A k \in Nat : k < n <=> k * g.sliceHeight < g.height,
         NEW k \in 0 .. n - 1
  PROVE  /\ RowStart(g, k) \in Nat /\ RowEnd(g, k) \in Nat
         /\ RowStart(g, k) < RowEnd(g, k)
         /\ RowStart(g, 0) = 0
         /\ k + 1 < n => RowEnd(g, k) = RowStart(g, k + 1)
<1> DEFINE h == g.height
           sh == g.sliceHeight
<1>1. h \in Nat /\ sh \in Nat /\ sh > 0
  OBVIOUS
<1>2. k * sh < h /\ (k + 1 < n => (k + 1) * sh < h)
  OBVIOUS
<1> HIDE DEF h, sh
<1>3. k * sh \in Nat /\ (k + 1) * sh \in Nat /\ k * sh < (k + 1) * sh /\ 0 * sh = 0
  BY <1>1
<1>4. Lower((k + 1) * sh, h) \in Nat /\ k * sh < Lower((k + 1) * sh, h)
      /\ (k + 1 < n => Lower((k + 1) * sh, h) = (k + 1) * sh)
  BY <1>1, <1>2, <1>3 DEF Lower
<1> QED BY <1>3, <1>4 DEF RowStart, RowEnd, h, sh

------------------------------------------------------------------------------
(* Powers of two.  As for the totals of Sums, the recursive function exists  *)
(* because its beginnings do and agree.                                      *)
Powers(g, n) == g = [k \in 0 .. n |-> IF k = 0 THEN 1 ELSE 2 * g[k - 1]]

LEMMA PowersExist ==
  ASSUME NEW n \in Nat
  PROVE  \E g : Powers(g, n)
<1> DEFINE S == {m \in Nat : \E g : Powers(g, m)}
<1>1. 0 \in S
  <2> DEFINE g == [k \in 0 .. 0 |-> 1]
  <2>1. g = [k \in 0 .. 0 |-> IF k = 0 THEN 1 ELSE 2 * g[k - 1]]
    OBVIOUS
  <2> HIDE DEF g
  <2>2. Powers(g, 0)
    BY <2>1 DEF Powers
  <2> QED BY <2>2
<1>2. ASSUME NEW m \in S PROVE m + 1 \in S
  <2>1. PICK g : Powers(g, m)
    OBVIOUS
  <2> DEFINE h == [k \in 0 .. m + 1 |-> IF k = m + 1 THEN 2 * g[m] ELSE g[k]]
  <2>2. ASSUME NEW k \in 0 .. m + 1
        PROVE  h[k] = IF k = 0 THEN 1 ELSE 2 * h[k - 1]
    <3>1. CASE k = m + 1
      <4>1. k # 0 /\ k - 1 = m /\ m \in 0 .. m + 1 /\ m # m + 1
        BY <3>1
      <4> QED BY <3>1, <4>1
    <3>2. CASE k # m + 1
      <4>1. k \in 0 .. m /\ h[k] = g[k]
        BY <3>2
      <4>2. g[k] = IF k = 0 THEN 1 ELSE 2 * g[k - 1]
        BY <2>1, <4>1 DEF Powers
      <4>3. k # 0 => k - 1 \in 0 .. m + 1 /\ k - 1 # m + 1
        BY <4>1
      <4> QED BY <4>1, <4>2, <4>3
    <3> QED BY <3>1, <3>2
  <2>3. DOMAIN h = 0 .. m + 1 /\ h = [k \in 0 .. m + 1 |-> h[k]]
    OBVIOUS
  <2> HIDE DEF h
  <2>4. Powers(h, m + 1)
    BY <2>2, <2>3 DEF Powers
  <2> QED BY <2>4
<1>3. S = Nat
  <2> HIDE DEF S
  <2>1. S \in SUBSET Nat
    BY DEF S
  <2> QED BY <1>1, <1>2, <2>1, NatSetInduction
<1> QED BY <1>3

LEMMA PowersAgree ==
  ASSUME NEW g, NEW h, NEW n \in Nat, NEW m \in Nat,
         Powers(g, n), Powers(h, m),
         NEW j \in Nat, j <= n, j <= m
  PROVE  g[j] = h[j]
<1> DEFINE S == {k \in Nat : k <= n /\ k <= m => g[k] = h[k]}
<1>1. 0 \in S
  BY DEF Powers
<1>2. ASSUME NEW k \in S PROVE k + 1 \in S
  <2> SUFFICES ASSUME k + 1 <= n, k + 1 <= m PROVE g[k + 1] = h[k + 1]
    OBVIOUS
  <2>1. g[k + 1] = 2 * g[k] /\ h[k + 1] = 2 * h[k]
    <3>1. k + 1 \in 0 .. n /\ k + 1 \in 0 .. m /\ k + 1 # 0 /\ (k + 1) - 1 = k
      OBVIOUS
    <3> QED BY <3>1 DEF Powers
  <2> QED BY <2>1
<1>3. S = Nat
  <2> HIDE DEF S
  <2>1. S \in SUBSET Nat
    BY DEF S
  <2> QED BY <1>1, <1>2, <2>1, NatSetInduction
<1> QED BY <1>3

LEMMA Pow2Equations == Pow2(0) = 1 /\ \A n \in Nat : Pow2(n + 1) = 2 * Pow2(n)
<1> DEFINE Eq(u) == u = [k \in Nat |-> IF k = 0 THEN 1 ELSE 2 * u[k - 1]]
           G(n) == CHOOSE g : Powers(g, n)
           W == [n \in Nat |-> G(n)[n]]
           U == CHOOSE u : Eq(u)
<1>1. \A n \in Nat : Powers(G(n), n)
  BY PowersExist
<1>2. ASSUME NEW k \in Nat
      PROVE  G(k)[k] = IF k = 0 THEN 1 ELSE 2 * G(k - 1)[k - 1]
  <2> HIDE DEF G
  <2>1. G(k)[k] = IF k = 0 THEN 1 ELSE 2 * G(k)[k - 1]
    BY <1>1 DEF Powers
  <2>2. CASE k = 0
    BY <2>1, <2>2
  <2>3. CASE k # 0
    <3>1. k - 1 \in Nat /\ k - 1 <= k
      BY <2>3
    <3>2. G(k)[k - 1] = G(k - 1)[k - 1]
      BY <1>1, <3>1, PowersAgree
    <3> QED BY <2>1, <2>3, <3>2
  <2> QED BY <2>2, <2>3
<1>3. Eq(W)
  <2> HIDE DEF G
  <2>1. ASSUME NEW k \in Nat
        PROVE  W[k] = IF k = 0 THEN 1 ELSE 2 * W[k - 1]
    <3>1. k # 0 => k - 1 \in Nat
      OBVIOUS
    <3> QED BY <1>2, <3>1
  <2>2. W = [k \in Nat |-> W[k]]
    OBVIOUS
  <2> HIDE DEF W
  <2> QED BY <2>1, <2>2
<1>4. Eq(U)
  <2> HIDE DEF W, Eq
  <2> QED BY <1>3
<1>5. \A n \in Nat : Pow2(n) = U[n]
  BY DEF Pow2
<1>6. \A n \in Nat : U[n] = IF n = 0 THEN 1 ELSE 2 * U[n - 1]
  <2> HIDE DEF U
  <2> QED BY <1>4
<1> HIDE DEF U
<1>7. Pow2(0) = 1
  BY <1>5, <1>6
<1>8. ASSUME NEW n \in Nat PROVE Pow2(n + 1) = 2 * Pow2(n)
  <2>1. n + 1 \in Nat /\ n + 1 # 0 /\ (n + 1) - 1 = n
    OBVIOUS
  <2> QED BY <2>1, <1>5, <1>6
<1> QED BY <1>7, <1>8

LEMMA Pow2Type == \A n \in Nat : Pow2(n) \in Nat \ {0}
<1> DEFINE S == {n \in Nat : Pow2(n) \in Nat \ {0}}
<1>1. 0 \in S
  BY Pow2Equations
<1>2. ASSUME NEW k \in S PROVE k + 1 \in S
  BY Pow2Equations
<1>3. S = Nat
  <2> HIDE DEF S
  <2>1. S \in SUBSET Nat
    BY DEF S
  <2> QED BY <1>1, <1>2, <2>1, NatSetInduction
<1> QED BY <1>3

LEMMA Pow2Product == \A a, b \in Nat : Pow2(a + b) = Pow2(a) * Pow2(b)
<1> SUFFICES ASSUME NEW a \in Nat PROVE \A b \in Nat : Pow2(a + b) = Pow2(a) * Pow2(b)
  OBVIOUS
<1> DEFINE S == {b \in Nat : Pow2(a + b) = Pow2(a) * Pow2(b)}
<1>1. 0 \in S
  BY Pow2Equations, Pow2Type
<1>2. ASSUME NEW k \in S PROVE k + 1 \in S
  <2>1. a + (k + 1) = (a + k) + 1 /\ a + k \in Nat
    OBVIOUS
  <2>2. Pow2(a + (k + 1)) = 2 * Pow2(a + k) /\ Pow2(k + 1) = 2 * Pow2(k)
    BY <2>1, Pow2Equations
  <2>3. Pow2(a + k) = Pow2(a) * Pow2(k) /\ Pow2(a) \in Int /\ Pow2(k) \in Int
    BY Pow2Type
  <2>4. \A x, y \in Int : 2 * (x * y) = x * (2 * y)
    OBVIOUS
  <2> QED BY <2>2, <2>3, <2>4
<1>3. S = Nat
  <2> HIDE DEF S
  <2>1. S \in SUBSET Nat
    BY DEF S
  <2> QED BY <1>1, <1>2, <2>1, NatSetInduction
<1> QED BY <1>3

LEMMA Pow2Monotone == \A a, b \in Nat : a <= b => Pow2(a) <= Pow2(b)
<1> SUFFICES ASSUME NEW a \in Nat, NEW b \in Nat, a <= b PROVE Pow2(a) <= Pow2(b)
  OBVIOUS
<1>1. b - a \in Nat /\ a + (b - a) = b
  OBVIOUS
<1>2. Pow2(b) = Pow2(a) * Pow2(b - a)
  BY <1>1, Pow2Product
<1>3. \A x, y \in Nat \ {0} : x <= x * y
  OBVIOUS
<1> QED BY <1>1, <1>2, <1>3, Pow2Type

------------------------------------------------------------------------------
(* Sums over the symbols. *)
LEMMA SumZero ==
  ASSUME NEW f, NEW n \in Nat, \A k \in 1 .. n : f[k] = 0
  PROVE  Sum(f, n) = 0
<1> DEFINE S == {m \in Nat : m <= n => Sum(f, m) = 0}
<1>1. 0 \in S
  BY SumEquations
<1>2. ASSUME NEW m \in S PROVE m + 1 \in S
  BY SumEquations
<1>3. S = Nat
  <2> HIDE DEF S
  <2>1. S \in SUBSET Nat
    BY DEF S
  <2> QED BY <1>1, <1>2, <2>1, NatSetInduction
<1> QED BY <1>3

LEMMA SumLinear ==
  ASSUME NEW f, NEW g, NEW h, NEW c \in Nat, NEW n \in Nat,
         \A k \in 1 .. n : /\ f[k] \in Nat /\ g[k] \in {0, 1}
                           /\ g[k] = 0 => h[k] = f[k]
                           /\ g[k] = 1 => h[k] = f[k] + c
  PROVE  Sum(h, n) = Sum(f, n) + c * Sum(g, n)
<1> DEFINE S == {m \in Nat : m <= n => Sum(h, m) = Sum(f, m) + c * Sum(g, m)}
<1>1. 0 \in S
  BY SumEquations
<1>2. ASSUME NEW m \in S PROVE m + 1 \in S
  <2> SUFFICES ASSUME m + 1 <= n
               PROVE  Sum(h, m + 1) = Sum(f, m + 1) + c * Sum(g, m + 1)
    OBVIOUS
  <2>1. /\ Sum(f, m + 1) = Sum(f, m) + f[m + 1]
        /\ Sum(g, m + 1) = Sum(g, m) + g[m + 1]
        /\ Sum(h, m + 1) = Sum(h, m) + h[m + 1]
    BY SumEquations
  <2>2. m + 1 \in 1 .. n
    OBVIOUS
  <2>3. f[m + 1] \in Nat /\ g[m + 1] \in Nat /\ h[m + 1] = f[m + 1] + c * g[m + 1]
    <3>1. /\ f[m + 1] \in Nat /\ g[m + 1] \in {0, 1}
          /\ g[m + 1] = 0 => h[m + 1] = f[m + 1]
          /\ g[m + 1] = 1 => h[m + 1] = f[m + 1] + c
      BY <2>2
    <3> HIDE DEF S
    <3> QED BY <3>1
  <2>4. Sum(f, m) \in Nat /\ Sum(g, m) \in Nat
    <3>1. \A k \in 1 .. m : f[k] \in Nat /\ g[k] \in Nat
      OBVIOUS
    <3> QED BY <3>1, SumNat
  <2>5. Sum(h, m) = Sum(f, m) + c * Sum(g, m)
    OBVIOUS
  <2>6. \A x, y \in Nat : c * (x + y) = c * x + c * y
    OBVIOUS
  <2>7. c * (Sum(g, m) + g[m + 1]) = c * Sum(g, m) + c * g[m + 1]
    BY <2>3, <2>4, <2>6
  <2>8. c * Sum(g, m) \in Nat /\ c * g[m + 1] \in Nat
    BY <2>3, <2>4
  <2> HIDE DEF S
  <2> QED BY ONLY <2>1, <2>3, <2>4, <2>5, <2>7, <2>8
<1>3. S = Nat
  <2> HIDE DEF S
  <2>1. S \in SUBSET Nat
    BY DEF S
  <2> QED BY <1>1, <1>2, <2>1, NatSetInduction
<1> QED BY <1>3
==============================================================================
