-------------------------- MODULE HuffmanTableProofs --------------------------
(***************************************************************************)
(* build decides Kraft's inequality, never overwrites an entry, and what   *)
(* it built decodes exactly: for every alphabet, every table of lengths    *)
(* and every split between the primary table and its subtables.            *)
(***************************************************************************)
EXTENDS EncodedTable, CodeLengthsProofs

------------------------------------------------------------------------------
(* The inductive invariant, phase by phase.                                  *)
(* Symbols of length l below symbol k. *)
Indicator(l)     == [i \in 1 .. N |-> IF lengths[i - 1] = l THEN 1 ELSE 0]
CountBelow(l, k) == Sum(Indicator(l), k)

(* What the codes longer than t take of the Pow2(MaxLen) keys. *)
LongerThan(t) == [i \in 1 .. N |-> IF lengths[i - 1] > t THEN Share(i - 1) ELSE 0]
TakenAbove(t) == Sum(LongerThan(t), N)

(* The accumulator as the signed number it stands for. *)
Signed == IF acc = AccSpace - 1 THEN -1 ELSE acc

(* Keys per number at length t, and the keys up to the end of tier t.        *)
Keys(t)       == Pow2(MaxLen - t)
End(start, t) == (start[t] + BlCount(t)) * Keys(t)

(* First codes of the tiers above lo: they fit, and a shorter tier starts    *)
(* after the end of every longer one.                                        *)
Placed(start, lo) ==
  /\ start \in [0 .. MaxLen + 1 -> Nat]
  /\ \A t \in lo + 1 .. MaxLen :
       /\ start[t] + BlCount(t) <= Pow2(t)
       /\ \A u \in lo + 1 .. MaxLen : u < t => End(start, t) <= start[u] * Keys(u)

TierInv ==
  phase = "tiers" =>
    /\ tier \in 1 .. MaxLen
    /\ tier = MaxLen => acc = AccSpace - 1
    /\ tier < MaxLen => acc \in Nat /\ acc < Pow2(tier)
    /\ Signed * Keys(tier) < TakenAbove(tier)
    /\ TakenAbove(tier) <= (Signed + 1) * Keys(tier)
    /\ Placed(cur, tier)
    /\ \A t \in tier + 1 .. MaxLen : End(cur, t) <= (Signed + 1) * Keys(tier)

NumberInv ==
  phase = "codes" =>
    \E start \in [0 .. MaxLen + 1 -> Nat] :
      /\ Placed(start, 0)
      /\ \A l \in 1 .. MaxLen : cur[l] = start[l] + CountBelow(l, sym)
      /\ \A s \in Used :
           s < sym => code[s] = start[lengths[s]] + CountBelow(lengths[s], s)

(* The keys that begin with the code of a symbol, and no two symbols share   *)
(* one.                                                                      *)
From(s) == code[s] * Keys(lengths[s])
To(s)   == (code[s] + 1) * Keys(lengths[s])

CodesInv ==
  phase \in {"fill", "built"} =>
    /\ \A s \in Used : code[s] + 1 <= Pow2(lengths[s])
    /\ \A s, t \in Used : s = t \/ To(s) <= From(t) \/ To(t) <= From(s)

Covers(s, key) == From(s) <= key /\ key < To(s)

Done == IF phase = "built" THEN Used
        ELSE IF phase = "fill" THEN {s \in Used : s < sym}
        ELSE {}

NoneCovers(key) == \A s \in Done : ~ Covers(s, key)

(* What the tables hold for a key: nothing of any code, a code that the      *)
(* primary table holds whole, or a redirect to the subtable of its prefix.   *)
Top0(key) == key \div Pow2(SubBits)
Rest(key) == key % Pow2(SubBits)

Direct(key) ==
  \E s \in Done : /\ Covers(s, key) /\ lengths[s] <= TopBits
                  /\ primary[Top0(key)] = Entry(s, lengths[s])

Behind(table, key) ==
  \/ table[Rest(key)] = ZeroEntry /\ NoneCovers(key)
  \/ \E s \in Done : /\ Covers(s, key) /\ lengths[s] > TopBits
                     /\ table[Rest(key)] = Entry(s, lengths[s] - TopBits)

Redirected(key) ==
  LET p == Top0(key)
  IN  /\ subIdx[p] \in 0 .. Len(secondary) - 1
      /\ primary[p] = Entry(subIdx[p], RedirectMarker)
      /\ Behind(secondary[subIdx[p] + 1], key)
      /\ \E s \in Done : lengths[s] > TopBits /\ code[s] \div Pow2(lengths[s] - TopBits) = p

Unset(key) ==
  primary[Top0(key)] = ZeroEntry /\ subIdx[Top0(key)] = -1 /\ NoneCovers(key)

AllKeys == 0 .. Pow2(MaxLen) - 1
Tables(bits) == [0 .. Pow2(bits) - 1 -> Entries]

FillInv ==
  /\ primary \in Tables(TopBits)
  /\ secondary \in Seq(Tables(SubBits))
  /\ subIdx \in [0 .. Pow2(TopBits) - 1 -> Int]
  /\ \A p, q \in 0 .. Pow2(TopBits) - 1 : subIdx[p] = subIdx[q] /\ subIdx[p] >= 0 => p = q
  /\ \A key \in AllKeys : Unset(key) \/ (Direct(key) /\ subIdx[Top0(key)] = -1) \/ Redirected(key)

BaseInv ==
  /\ lengths \in [Symbols -> 0 .. MaxLength]
  /\ phase \in {"tiers", "codes", "fill", "built", "overfull"}
  /\ tier \in 0 .. MaxLen /\ sym \in Symbols
  /\ acc \in 0 .. AccSpace - 1
  /\ cur \in [0 .. MaxLen + 1 -> Nat]
  /\ code \in [Symbols -> Nat]
  /\ phase \in {"tiers", "overfull"} => sym = 0 /\ code = [s \in Symbols |-> 0]
  /\ phase = "codes" => \A s \in Symbols : s >= sym => code[s] = 0

Inv == BaseInv /\ TierInv /\ NumberInv /\ CodesInv /\ FillInv /\ KraftDecides

------------------------------------------------------------------------------
(* The lengths, and how often each occurs.                                   *)
LEMMA MaxLenProperties ==
  ASSUME lengths \in [Symbols -> 0 .. MaxLength]
  PROVE  /\ MaxLen \in 0 .. MaxLength
         /\ \A s \in Symbols : lengths[s] \in 0 .. MaxLen
         /\ \E s \in Symbols : lengths[s] = MaxLen
<1> DEFINE R == {lengths[s] : s \in Symbols}
<1>1. Range(lengths) = R
  BY DEF Range
<1>2. 0 \in Symbols /\ MaxLength \in Nat
  BY HuffmanTableAssumption DEF Symbols, RedirectMarker
<1>3. R \in SUBSET Nat /\ (\A n \in R : n <= MaxLength) /\ lengths[0] \in R
  BY <1>2
<1>4. \E x \in R : \A y \in R : x >= y
  <2> HIDE DEF R
  <2> QED BY <1>2, <1>3, LargestExists
<1>5. MaxLen \in R /\ \A y \in R : MaxLen >= y
  <2> HIDE DEF R
  <2> QED BY <1>1, <1>4, Zenon DEF MaxLen, Max
<1>6. PICK s \in Symbols : lengths[s] = MaxLen
  BY <1>5
<1>7. MaxLen \in 0 .. MaxLength
  BY <1>2, <1>6
<1>8. \A x \in Symbols : lengths[x] \in 0 .. MaxLength /\ MaxLen >= lengths[x]
  BY <1>5
<1> QED BY <1>2, <1>6, <1>7, <1>8

LEMMA CountProperties ==
  ASSUME lengths \in [Symbols -> 0 .. MaxLength], NEW l
  PROVE  /\ BlCount(l) = CountBelow(l, N)
         /\ BlCount(l) \in 0 .. N
         /\ CountBelow(l, 0) = 0
         /\ \A k \in 0 .. N : CountBelow(l, k) \in Nat
         /\ \A k \in Symbols :
              CountBelow(l, k + 1) = CountBelow(l, k) + (IF lengths[k] = l THEN 1 ELSE 0)
         /\ \A j, k \in 0 .. N : j <= k => CountBelow(l, j) <= CountBelow(l, k)
<1> DEFINE f == Indicator(l)
           A == {s \in Symbols : lengths[s] = l}
<1>0. N \in Nat \ {0}
  BY HuffmanTableAssumption
<1>1. \A i \in 1 .. N : f[i] = IF i - 1 \in A THEN 1 ELSE 0
  BY <1>0 DEF Indicator, Symbols
<1>2. \A i \in 1 .. N : f[i] \in Nat
  BY DEF Indicator
<1>3. A \in SUBSET (0 .. N - 1)
  BY DEF Symbols
<1>4. \A k \in Symbols : f[k + 1] = IF lengths[k] = l THEN 1 ELSE 0
  <2> SUFFICES ASSUME NEW k \in Symbols PROVE f[k + 1] = IF lengths[k] = l THEN 1 ELSE 0
    OBVIOUS
  <2>1. k + 1 \in 1 .. N /\ (k + 1) - 1 = k
    BY <1>0 DEF Symbols
  <2> QED BY <2>1 DEF Indicator
<1> HIDE DEF f, A
<1>5. Cardinality(A) = Sum(f, N)
  BY <1>0, <1>1, <1>3, CountAsSum
<1>6. BlCount(l) = CountBelow(l, N)
  BY <1>5 DEF BlCount, CountBelow, A, f
<1>7. Cardinality(A) \in 0 .. N
  <2>1. IsFiniteSet(0 .. N - 1) /\ Cardinality(0 .. N - 1) = N
    BY <1>0, FS_Interval
  <2>2. IsFiniteSet(A) /\ Cardinality(A) <= N
    BY <1>3, <2>1, FS_Subset
  <2> QED BY <1>0, <2>2, FS_CardinalityType
<1>8. \A k \in 0 .. N : Sum(f, k) \in Nat
  <2> SUFFICES ASSUME NEW k \in 0 .. N PROVE Sum(f, k) \in Nat
    OBVIOUS
  <2>1. k \in Nat /\ \A i \in 1 .. k : f[i] \in Nat
    BY <1>0, <1>2
  <2> QED BY <2>1, SumNat
<1>9. \A k \in Symbols : Sum(f, k + 1) = Sum(f, k) + (IF lengths[k] = l THEN 1 ELSE 0)
  <2> SUFFICES ASSUME NEW k \in Symbols
               PROVE  Sum(f, k + 1) = Sum(f, k) + (IF lengths[k] = l THEN 1 ELSE 0)
    OBVIOUS
  <2>1. k \in Nat
    BY <1>0 DEF Symbols
  <2>2. Sum(f, k + 1) = Sum(f, k) + f[k + 1]
    BY <2>1, SumEquations
  <2> QED BY <1>4, <2>2
<1>10. \A j, k \in 0 .. N : j <= k => Sum(f, j) <= Sum(f, k)
  <2> SUFFICES ASSUME NEW j \in 0 .. N, NEW k \in 0 .. N, j <= k PROVE Sum(f, j) <= Sum(f, k)
    OBVIOUS
  <2>1. k \in Nat /\ j \in 0 .. k /\ \A i \in 1 .. k : f[i] \in Nat
    BY <1>0, <1>2
  <2> QED BY <2>1, SumGrows
<1>11. Sum(f, 0) = 0
  BY SumEquations
<1>12. BlCount(l) = Cardinality(A)
  BY DEF BlCount, A
<1>13. \A k : CountBelow(l, k) = Sum(f, k)
  BY DEF CountBelow, f
<1> QED BY <1>6, <1>7, <1>8, <1>9, <1>10, <1>11, <1>12, <1>13

(* What a tier takes of the keys.                                            *)
LEMMA KeysProperties ==
  ASSUME lengths \in [Symbols -> 0 .. MaxLength]
  PROVE  /\ \A t \in 0 .. MaxLen : /\ Keys(t) \in Nat \ {0}
                                   /\ Pow2(t) * Keys(t) = Pow2(MaxLen)
         /\ \A t \in 1 .. MaxLen : Keys(t - 1) = 2 * Keys(t)
         /\ Keys(MaxLen) = 1
         /\ Keys(0) = Pow2(MaxLen)
<1>1. MaxLen \in Nat
  BY MaxLenProperties
<1>2. ASSUME NEW t \in 0 .. MaxLen
      PROVE  Keys(t) \in Nat \ {0} /\ Pow2(t) * Keys(t) = Pow2(MaxLen)
  <2>1. MaxLen - t \in Nat /\ t \in Nat /\ t + (MaxLen - t) = MaxLen
    BY <1>1
  <2> QED BY <2>1, Pow2Type, Pow2Product DEF Keys
<1>3. ASSUME NEW t \in 1 .. MaxLen PROVE Keys(t - 1) = 2 * Keys(t)
  <2>1. MaxLen - (t - 1) = (MaxLen - t) + 1 /\ MaxLen - t \in Nat
    BY <1>1
  <2> QED BY <2>1, Pow2Equations DEF Keys
<1>4. MaxLen - MaxLen = 0 /\ MaxLen - 0 = MaxLen
  BY <1>1
<1>5. Keys(MaxLen) = 1 /\ Keys(0) = Pow2(MaxLen)
  BY <1>4, Pow2Equations DEF Keys
<1> QED BY <1>2, <1>3, <1>5

LEMMA TakenProperties ==
  ASSUME lengths \in [Symbols -> 0 .. MaxLength]
  PROVE  /\ TakenAbove(MaxLen) = 0
         /\ TakenAbove(0) = KraftSum
         /\ \A t \in 0 .. MaxLen : TakenAbove(t) \in Nat /\ TakenAbove(t) <= KraftSum
         /\ \A t \in 1 .. MaxLen : TakenAbove(t - 1) = TakenAbove(t) + Keys(t) * BlCount(t)
<1> DEFINE g == [i \in 1 .. N |-> Share(i - 1)]
<1>0. N \in Nat \ {0} /\ MaxLen \in Nat
  BY HuffmanTableAssumption, MaxLenProperties
<1>1. ASSUME NEW i \in 1 .. N
      PROVE  /\ i - 1 \in Symbols /\ lengths[i - 1] \in 0 .. MaxLen
             /\ Share(i - 1) \in Nat
             /\ lengths[i - 1] # 0 => Share(i - 1) = Keys(lengths[i - 1])
  <2>1. i - 1 \in Symbols
    BY <1>0 DEF Symbols
  <2>2. lengths[i - 1] \in 0 .. MaxLen
    BY <2>1, MaxLenProperties
  <2>3. Pow2(MaxLen - lengths[i - 1]) \in Nat
    BY <1>0, <2>2, Pow2Type
  <2> QED BY <2>1, <2>2, <2>3 DEF Share, Keys
<1>2. TakenAbove(MaxLen) = 0
  <2>1. \A k \in 1 .. N : LongerThan(MaxLen)[k] = 0
    BY <1>0, <1>1 DEF LongerThan
  <2> QED BY <1>0, <2>1, SumZero DEF TakenAbove
<1>3. TakenAbove(0) = KraftSum
  <2>1. \A k \in 1 .. N : LongerThan(0)[k] = g[k]
    BY <1>0, <1>1 DEF LongerThan, Share
  <2> HIDE DEF g
  <2>2. Sum(LongerThan(0), N) = Sum(g, N)
    BY <1>0, <2>1, SumSame
  <2> QED BY <2>2 DEF TakenAbove, KraftSum, g
<1>4. ASSUME NEW t \in 0 .. MaxLen
      PROVE  TakenAbove(t) \in Nat /\ TakenAbove(t) <= KraftSum
  <2> DEFINE f == LongerThan(t)
  <2>1. \A k \in 1 .. N : f[k] \in Nat /\ g[k] \in Nat /\ f[k] <= g[k]
    BY <1>1 DEF LongerThan
  <2> HIDE DEF f, g
  <2>2. Sum(f, N) \in Nat /\ Sum(f, N) <= Sum(g, N)
    BY <1>0, <2>1, SumNat, SumMonotone
  <2> QED BY <2>2 DEF TakenAbove, KraftSum, f, g
<1>5. ASSUME NEW t \in 1 .. MaxLen
      PROVE  TakenAbove(t - 1) = TakenAbove(t) + Keys(t) * BlCount(t)
  <2> DEFINE f == LongerThan(t)
             h == LongerThan(t - 1)
             d == Indicator(t)
             c == Keys(t)
  <2>1. c \in Nat /\ t \in Nat \ {0}
    BY <1>0, KeysProperties
  <2>2. ASSUME NEW k \in 1 .. N
        PROVE  /\ f[k] \in Nat /\ d[k] \in {0, 1}
               /\ d[k] = 0 => h[k] = f[k]
               /\ d[k] = 1 => h[k] = f[k] + c
    <3> DEFINE x == lengths[k - 1]
    <3>1. f[k] = (IF x > t THEN Share(k - 1) ELSE 0)
          /\ h[k] = (IF x > t - 1 THEN Share(k - 1) ELSE 0)
          /\ d[k] = (IF x = t THEN 1 ELSE 0)
      BY DEF LongerThan, Indicator
    <3>2. x \in 0 .. MaxLen /\ Share(k - 1) \in Nat /\ (x # 0 => Share(k - 1) = Keys(x))
      BY <1>1
    <3>3. CASE x = t
      <4>1. Share(k - 1) = c
        BY <2>1, <3>2, <3>3
      <4>2. ~ (x > t) /\ x > t - 1
        BY <2>1, <3>3
      <4>3. f[k] = 0 /\ h[k] = c /\ d[k] = 1
        BY <3>1, <3>3, <4>1, <4>2
      <4> HIDE DEF f, h, d, c
      <4> QED BY <2>1, <4>3
    <3>4. CASE x # t
      <4>1. x > t - 1 <=> x > t
        BY <1>0, <2>1, <3>2, <3>4
      <4>2. d[k] = 0 /\ h[k] = f[k] /\ f[k] \in Nat
        BY <3>1, <3>2, <3>4, <4>1
      <4> HIDE DEF f, h, d, c
      <4> QED BY <4>2
    <3> QED BY <3>3, <3>4
  <2>3. BlCount(t) = Sum(d, N)
    BY CountProperties DEF CountBelow
  <2> HIDE DEF f, h, d, c
  <2>4. Sum(h, N) = Sum(f, N) + c * Sum(d, N)
    <3>1. /\ c \in Nat /\ N \in Nat
          /\ \A k \in 1 .. N : /\ f[k] \in Nat /\ d[k] \in {0, 1}
                               /\ d[k] = 0 => h[k] = f[k]
                               /\ d[k] = 1 => h[k] = f[k] + c
      BY <1>0, <2>1, <2>2
    <3> QED BY ONLY <3>1, SumLinear, SMTT(60)
  <2> QED BY <2>3, <2>4 DEF TakenAbove, f, h, c
<1> QED BY <1>2, <1>3, <1>4, <1>5

------------------------------------------------------------------------------
(* What depends on the lengths alone does not change.                        *)
LEMMA SameLengths ==
  ASSUME UNCHANGED lengths
  PROVE  /\ MaxLen' = MaxLen /\ TopBits' = TopBits /\ SubBits' = SubBits
         /\ Used' = Used /\ KraftSum' = KraftSum
         /\ \A l : BlCount(l)' = BlCount(l)
         /\ \A l, k : CountBelow(l, k)' = CountBelow(l, k)
         /\ \A t : Keys(t)' = Keys(t)
         /\ \A t : TakenAbove(t)' = TakenAbove(t)
<1>1. MaxLen' = MaxLen
  BY DEF MaxLen
<1>2. TopBits' = TopBits
  BY <1>1 DEF TopBits
<1>3. SubBits' = SubBits
  BY <1>1, <1>2 DEF SubBits
<1>4. Used' = Used /\ (\A l : BlCount(l)' = BlCount(l))
  BY DEF Used, BlCount
<1>5. \A t : Keys(t)' = Keys(t)
  BY <1>1 DEF Keys
<1>6. \A s : Share(s)' = Share(s)
  BY <1>1 DEF Share
<1>7. KraftSum' = KraftSum
  BY <1>6 DEF KraftSum
<1>8. \A l : Indicator(l)' = Indicator(l)
  BY DEF Indicator
<1>9. \A l, k : CountBelow(l, k)' = CountBelow(l, k)
  BY <1>8 DEF CountBelow
<1>10. \A t : LongerThan(t)' = LongerThan(t)
  BY <1>6 DEF LongerThan
<1>11. \A t : TakenAbove(t)' = TakenAbove(t)
  BY <1>10 DEF TakenAbove
<1> QED BY <1>1, <1>2, <1>3, <1>4, <1>5, <1>7, <1>9, <1>11

(* A key is a slot of the primary table and a slot of the subtables.         *)
LEMMA KeyParts ==
  ASSUME lengths \in [Symbols -> 0 .. MaxLength]
  PROVE  /\ TopBits \in Nat /\ SubBits \in Nat /\ TopBits + SubBits = MaxLen
         /\ Pow2(MaxLen) = Pow2(TopBits) * Pow2(SubBits)
         /\ \A key \in AllKeys :
              /\ Top0(key) \in 0 .. Pow2(TopBits) - 1
              /\ Rest(key) \in 0 .. Pow2(SubBits) - 1
              /\ key = Top0(key) * Pow2(SubBits) + Rest(key)
         /\ \A p \in 0 .. Pow2(TopBits) - 1 : \A r \in 0 .. Pow2(SubBits) - 1 :
              LET key == p * Pow2(SubBits) + r
              IN  key \in AllKeys /\ Top0(key) = p /\ Rest(key) = r
<1>1. TopBits \in Nat /\ SubBits \in Nat /\ TopBits + SubBits = MaxLen
  BY MaxLenProperties, HuffmanTableAssumption DEF TopBits, SubBits
<1>2. Pow2(MaxLen) = Pow2(TopBits) * Pow2(SubBits)
  BY <1>1, Pow2Product
<1> DEFINE a == Pow2(TopBits)
           b == Pow2(SubBits)
<1>3. a \in Nat \ {0} /\ b \in Nat \ {0}
  BY <1>1, Pow2Type
<1> HIDE DEF a, b
<1>4. ASSUME NEW key \in 0 .. a * b - 1
      PROVE  key \div b \in 0 .. a - 1 /\ key % b \in 0 .. b - 1 /\ key = (key \div b) * b + (key % b)
  <2>1. key \in Nat /\ key < a * b
    BY <1>3
  <2> DEFINE q == key \div b
             r == key % b
  <2>2. q \in Nat /\ r \in 0 .. b - 1 /\ key = q * b + r
    BY <1>3, <2>1
  <2> HIDE DEF q, r
  <2>3. q < a
    <3>1. q >= a => q * b >= a * b
      BY <1>3, <2>2
    <3> QED BY <1>3, <2>1, <2>2, <3>1
  <2> QED BY <1>3, <2>2, <2>3 DEF q, r
<1>5. ASSUME NEW p \in 0 .. a - 1, NEW r \in 0 .. b - 1
      PROVE  p * b + r \in 0 .. a * b - 1 /\ (p * b + r) \div b = p /\ (p * b + r) % b = r
  <2>1. p * b + b <= a * b
    <3>1. (p + 1) * b <= a * b
      BY <1>3
    <3>2. (p + 1) * b = p * b + b
      BY <1>3
    <3> QED BY <3>1, <3>2
  <2>2. p * b + r \in 0 .. a * b - 1
    BY <1>3, <2>1
  <2> QED BY <1>3, <2>2
<1>6. AllKeys = 0 .. a * b - 1 /\ (\A key : Top0(key) = key \div b /\ Rest(key) = key % b)
  BY <1>2 DEF AllKeys, Top0, Rest, a, b
<1>7. ASSUME NEW key \in AllKeys
      PROVE  Top0(key) \in 0 .. a - 1 /\ Rest(key) \in 0 .. b - 1 /\ key = Top0(key) * b + Rest(key)
  BY <1>4, <1>6
<1>8. ASSUME NEW p \in 0 .. a - 1, NEW r \in 0 .. b - 1
      PROVE  p * b + r \in AllKeys /\ Top0(p * b + r) = p /\ Rest(p * b + r) = r
  BY <1>5, <1>6
<1> QED BY <1>1, <1>2, <1>7, <1>8 DEF a, b

(* Before the first entry is written the tables are blank.                   *)
Blanks ==
  /\ primary = Zeroed(TopBits)
  /\ secondary = << >>
  /\ subIdx = [k \in DOMAIN primary |-> -1]

LEMMA BlanksFill ==
  ASSUME lengths \in [Symbols -> 0 .. MaxLength], Done = {}, Blanks
  PROVE  FillInv
<1>1. Pow2(TopBits) \in Nat
  BY KeyParts, Pow2Type
<1>2. ZeroEntry \in Entries
  BY HuffmanTableAssumption DEF ZeroEntry, Entry, Entries, RedirectMarker
<1>3. primary \in Tables(TopBits) /\ DOMAIN primary = 0 .. Pow2(TopBits) - 1
  BY <1>2 DEF Blanks, Zeroed, Tables
<1>4. /\ subIdx \in [0 .. Pow2(TopBits) - 1 -> Int]
      /\ \A p \in 0 .. Pow2(TopBits) - 1 : subIdx[p] = -1 /\ primary[p] = ZeroEntry
  BY <1>3 DEF Blanks, Zeroed
<1>5. secondary \in Seq(Tables(SubBits))
  BY DEF Blanks
<1>6. \A key \in AllKeys : Unset(key)
  BY <1>4, KeyParts DEF Unset, NoneCovers
<1> QED BY <1>3, <1>4, <1>5, <1>6 DEF FillInv

LEMMA InitInv == Init => Inv
<1> SUFFICES ASSUME Init PROVE Inv
  OBVIOUS
<1>0. lengths \in [Symbols -> 0 .. MaxLength]
  BY DEF Init
<1>1. MaxLen \in Nat /\ \A s \in Symbols : lengths[s] \in 0 .. MaxLen
  BY <1>0, MaxLenProperties, HuffmanTableAssumption
<1>2. AccSpace \in Nat /\ AccSpace > 1 /\ 0 \in Symbols
  BY HuffmanTableAssumption, Pow2Type DEF Symbols, RedirectMarker
<1>3. MaxLen = 0 => Used = {}
  BY <1>1 DEF Used
<1>4. BaseInv
  BY <1>0, <1>1, <1>2 DEF Init, BaseInv
<1>5. TierInv
  <2> SUFFICES ASSUME phase = "tiers"
               PROVE  /\ tier \in 1 .. MaxLen
                      /\ tier = MaxLen => acc = AccSpace - 1
                      /\ tier < MaxLen => acc \in Nat /\ acc < Pow2(tier)
                      /\ Signed * Keys(tier) < TakenAbove(tier)
                      /\ TakenAbove(tier) <= (Signed + 1) * Keys(tier)
                      /\ Placed(cur, tier)
                      /\ \A t \in tier + 1 .. MaxLen : End(cur, t) <= (Signed + 1) * Keys(tier)
    BY DEF TierInv
  <2>1. tier = MaxLen /\ acc = AccSpace - 1 /\ MaxLen # 0
    BY DEF Init
  <2>2. Signed = -1 /\ Keys(tier) = 1 /\ TakenAbove(tier) = 0
    BY <1>0, <2>1, KeysProperties, TakenProperties DEF Signed
  <2>3. \A t : ~ (t \in tier + 1 .. MaxLen)
    BY <1>1, <2>1
  <2>4. Placed(cur, tier)
    BY <1>4, <2>3 DEF Placed, BaseInv
  <2> QED BY <1>1, <2>1, <2>2, <2>3, <2>4
<1>6. NumberInv
  BY DEF Init, NumberInv
<1>7. CodesInv
  BY <1>3 DEF Init, CodesInv
<1>8. FillInv
  <2>1. Done = {}
    BY <1>3 DEF Init, Done
  <2> QED BY <1>0, <2>1, BlanksFill DEF Init, Blanks
<1>9. KraftDecides
  <2>1. MaxLen = 0 => KraftSum = 0
    BY <1>0, TakenProperties
  <2>2. Pow2(MaxLen) \in Nat
    BY <1>1, Pow2Type
  <2> QED BY <2>1, <2>2 DEF Init, KraftDecides
<1> QED BY <1>4, <1>5, <1>6, <1>7, <1>8, <1>9 DEF Inv

------------------------------------------------------------------------------
(* The tier loop.  Modulo 2^32 the accumulator is the last number given out, *)
(* from -1 on, and the sums never wrap.                                      *)
LEMMA TierNumbers ==
  ASSUME BaseInv, TierInv, phase = "tiers"
  PROVE  /\ Signed \in Int /\ Signed >= -1 /\ Signed + BlCount(tier) \in Nat
         /\ (acc + BlCount(tier)) % AccSpace = Signed + BlCount(tier)
         /\ (acc + 1) % AccSpace = Signed + 1
         /\ Signed + BlCount(tier) < AccSpace - 1
<1>1. /\ lengths \in [Symbols -> 0 .. MaxLength] /\ tier \in 1 .. MaxLen
      /\ MaxLen \in 0 .. MaxLength /\ MaxLength \in Nat
  BY MaxLenProperties, HuffmanTableAssumption DEF BaseInv, TierInv, RedirectMarker
<1>2. BlCount(tier) \in 0 .. N /\ N \in Nat \ {0}
  BY <1>1, CountProperties, HuffmanTableAssumption
<1>3. AccSpace \in Nat /\ AccSpace > N + Pow2(MaxLength) /\ Pow2(MaxLength) \in Nat \ {0}
  BY <1>1, HuffmanTableAssumption, Pow2Type
<1>4. CASE tier = MaxLen
  <2>1. acc = AccSpace - 1 /\ Signed = -1
    BY <1>4 DEF TierInv, Signed
  <2>2. BlCount(tier) >= 1
    <3>1. PICK s \in Symbols : lengths[s] = tier
      BY <1>1, <1>4, MaxLenProperties
    <3>2. s \in 0 .. N /\ s + 1 \in 0 .. N /\ N \in 0 .. N /\ s + 1 <= N
      BY <1>2 DEF Symbols
    <3>3. CountBelow(tier, s + 1) = CountBelow(tier, s) + 1
      BY <1>1, <3>1, CountProperties
    <3>4. CountBelow(tier, s) \in Nat /\ CountBelow(tier, s + 1) <= BlCount(tier)
      BY <1>1, <3>2, CountProperties
    <3> QED BY <1>2, <3>3, <3>4
  <2>3. acc + BlCount(tier) = AccSpace + (BlCount(tier) - 1)
        /\ BlCount(tier) - 1 \in 0 .. AccSpace - 1 /\ acc + 1 = AccSpace
    BY <1>2, <1>3, <2>1, <2>2
  <2>4. \A x \in 0 .. AccSpace - 1 : (AccSpace + x) % AccSpace = x
    BY <1>3
  <2>5. AccSpace % AccSpace = 0
    <3>1. 0 \in 0 .. AccSpace - 1 /\ AccSpace + 0 = AccSpace
      BY <1>2, <1>3
    <3> QED BY <2>4, <3>1
  <2> QED BY <1>2, <1>3, <2>1, <2>2, <2>3, <2>4, <2>5
<1>5. CASE tier # MaxLen
  <2>1. acc \in Nat /\ acc < Pow2(tier)
    BY <1>1, <1>5 DEF TierInv
  <2>2. Pow2(tier) <= Pow2(MaxLength) /\ Pow2(tier) \in Nat
    BY <1>1, Pow2Monotone, Pow2Type
  <2>3. acc + BlCount(tier) < AccSpace - 1 /\ acc + 1 < AccSpace /\ acc # AccSpace - 1
    BY <1>2, <1>3, <2>1, <2>2
  <2>4. Signed = acc
    BY <2>3 DEF Signed
  <2>5. \A x \in 0 .. AccSpace - 1 : x % AccSpace = x
    BY <1>3
  <2>6. acc + BlCount(tier) \in 0 .. AccSpace - 1 /\ acc + 1 \in 0 .. AccSpace - 1
    BY <1>2, <1>3, <2>1, <2>3
  <2> QED BY <1>2, <2>1, <2>3, <2>4, <2>5, <2>6
<1> QED BY <1>4, <1>5

(* The end of a tier on the scale of the next one.                           *)
LEMMA TierArithmetic ==
  ASSUME NEW a \in Int, NEW b \in Nat, NEW top \in Nat, top = a + b,
         NEW k \in Nat \ {0}, NEW half, half = top \div 2
  PROVE  /\ half \in Nat /\ half <= top
         /\ \A x \in Int : a * k < x => half * (2 * k) < x + k * b
         /\ \A x \in Int : x <= (a + 1) * k => x + k * b <= (half + 1) * (2 * k)
         /\ \A x \in Int : x <= (a + 1) * k => x <= (half + 1) * (2 * k)
         /\ (top + 1) * k <= (half + 1) * (2 * k)
<1>1. half \in Nat /\ 2 * half <= top /\ top <= 2 * half + 1
  OBVIOUS
<1>2. half * (2 * k) = (2 * half) * k /\ (half + 1) * (2 * k) = (2 * half + 2) * k
  BY <1>1
<1>3. (2 * half) * k <= top * k /\ (top + 1) * k <= (2 * half + 2) * k
  BY <1>1
<1>4. top * k = a * k + k * b /\ (top + 1) * k = (a + 1) * k + k * b
  OBVIOUS
<1>5. k * b >= 0 /\ k * b \in Int /\ a * k \in Int /\ (a + 1) * k \in Int
  OBVIOUS
<1>6. top * k \in Int /\ (top + 1) * k \in Int /\ (2 * half) * k \in Int /\ (2 * half + 2) * k \in Int
  BY <1>1
<1> QED BY ONLY <1>1, <1>2, <1>3, <1>4, <1>5, <1>6

(* While nothing has been filled in, the tables hold nothing.                *)
LEMMA NothingFilled ==
  ASSUME FillInv, UNCHANGED <<lengths, primary, secondary, subIdx>>, Done = {}, Done' = {}
  PROVE  FillInv'
<1>1. MaxLen' = MaxLen /\ TopBits' = TopBits /\ SubBits' = SubBits
  BY SameLengths
<1>2. \A key \in AllKeys : primary[Top0(key)] = ZeroEntry /\ subIdx[Top0(key)] = -1
  BY DEF FillInv, Unset, Direct, Redirected
<1>3. AllKeys' = AllKeys /\ \A key : Top0(key)' = Top0(key)
  BY <1>1 DEF AllKeys, Top0
<1>4. \A key \in AllKeys' : Unset(key)'
  BY <1>2, <1>3 DEF Unset, NoneCovers
<1>5. Tables(TopBits)' = Tables(TopBits) /\ Tables(SubBits)' = Tables(SubBits)
  BY <1>1 DEF Tables
<1>6. /\ primary' \in Tables(TopBits)'
      /\ secondary' \in Seq(Tables(SubBits)')
      /\ subIdx' \in [0 .. Pow2(TopBits)' - 1 -> Int]
      /\ \A p, q \in 0 .. Pow2(TopBits)' - 1 : subIdx'[p] = subIdx'[q] /\ subIdx'[p] >= 0 => p = q
  BY <1>1, <1>5 DEF FillInv
<1> QED BY <1>4, <1>6 DEF FillInv

LEMMA TierStep == Inv /\ Tier => Inv'
<1> SUFFICES ASSUME Inv, Tier PROVE Inv'
  OBVIOUS
<1> DEFINE B == BlCount(tier)
           a == Signed
           top == (acc + B) % AccSpace
<1>1. /\ phase = "tiers"
      /\ cur' = [cur EXCEPT ![tier] = (acc + 1) % AccSpace]
      /\ UNCHANGED <<lengths, sym, code, primary, secondary, subIdx>>
      /\ Overfull(tier, top) => phase' = "overfull" /\ UNCHANGED <<tier, acc>>
      /\ ~ Overfull(tier, top) =>
           /\ acc' = top \div 2 /\ tier' = tier - 1
           /\ phase' = IF tier = 1 THEN "codes" ELSE "tiers"
  BY DEF Tier, NextAcc
<1>2. /\ lengths \in [Symbols -> 0 .. MaxLength] /\ tier \in 1 .. MaxLen /\ MaxLen \in Nat
      /\ cur \in [0 .. MaxLen + 1 -> Nat] /\ sym = 0 /\ code = [s \in Symbols |-> 0]
      /\ code \in [Symbols -> Nat] /\ sym \in Symbols /\ acc \in 0 .. AccSpace - 1
  BY <1>1, MaxLenProperties, HuffmanTableAssumption DEF Inv, BaseInv, TierInv, RedirectMarker
<1>3. /\ a \in Int /\ a >= -1 /\ a + B \in Nat /\ top = a + B /\ top < AccSpace - 1
      /\ (acc + 1) % AccSpace = a + 1 /\ top \in Nat
  BY <1>1, TierNumbers DEF Inv
<1>4. B \in Nat
  BY <1>2, CountProperties
<1>5. /\ MaxLen' = MaxLen /\ TopBits' = TopBits /\ SubBits' = SubBits
      /\ Used' = Used /\ KraftSum' = KraftSum
      /\ \A l : BlCount(l)' = BlCount(l)
      /\ \A l, k : CountBelow(l, k)' = CountBelow(l, k)
      /\ \A t : Keys(t)' = Keys(t)
      /\ \A t : TakenAbove(t)' = TakenAbove(t)
  BY <1>1, SameLengths
<1>6. /\ a * Keys(tier) < TakenAbove(tier)
      /\ TakenAbove(tier) <= (a + 1) * Keys(tier)
      /\ Placed(cur, tier)
      /\ \A t \in tier + 1 .. MaxLen : End(cur, t) <= (a + 1) * Keys(tier)
  BY <1>1 DEF Inv, TierInv
<1>7. /\ Keys(tier) \in Nat \ {0} /\ Keys(tier - 1) = 2 * Keys(tier)
      /\ Pow2(tier) * Keys(tier) = Pow2(MaxLen)
      /\ TakenAbove(tier - 1) = TakenAbove(tier) + Keys(tier) * B
      /\ TakenAbove(tier - 1) <= KraftSum
      /\ TakenAbove(tier) \in Nat /\ TakenAbove(tier - 1) \in Nat /\ KraftSum \in Nat
  <2>1. tier \in 0 .. MaxLen /\ tier - 1 \in 0 .. MaxLen /\ 0 \in 0 .. MaxLen
    BY <1>2
  <2> QED BY <1>2, <2>1, KeysProperties, TakenProperties
<1>8. /\ Pow2(tier) \in Nat /\ Pow2(MaxLen) \in Nat /\ Pow2(tier) = 2 * Pow2(tier - 1)
      /\ Pow2(tier - 1) \in Nat
  <2>1. tier \in Nat /\ tier - 1 \in Nat /\ (tier - 1) + 1 = tier
    BY <1>2
  <2>2. Pow2((tier - 1) + 1) = 2 * Pow2(tier - 1)
    BY <2>1, Pow2Equations
  <2>3. Pow2(tier) \in Nat /\ Pow2(MaxLen) \in Nat /\ Pow2(tier - 1) \in Nat
    BY <1>2, <2>1, Pow2Type
  <2> QED BY <2>1, <2>2, <2>3
<1>9. FillInv'
  <2>1. Done = {} /\ Done' = {}
    BY <1>1 DEF Done
  <2> QED BY <1>1, <2>1, NothingFilled DEF Inv
<1>10. cur' \in [0 .. MaxLen + 1 -> Nat] /\ cur'[tier] = a + 1
       /\ \A t \in 0 .. MaxLen + 1 : t # tier => cur'[t] = cur[t]
  <2>1. a + 1 \in Nat
    <3> HIDE DEF a
    <3> QED BY <1>3
  <2>2. cur' = [cur EXCEPT ![tier] = a + 1]
    BY <1>1, <1>3
  <2> HIDE DEF a
  <2> QED BY <1>2, <2>1, <2>2
<1>11. CASE Overfull(tier, top)
  <2>1. phase' = "overfull" /\ tier' = tier /\ acc' = acc
    BY <1>1, <1>11
  <2>2. Pow2(tier) <= top
    BY <1>11 DEF Overfull
  <2>3. KraftSum > Pow2(MaxLen)
    <3> DEFINE k == Keys(tier)
               x == TakenAbove(tier)
               y == Pow2(tier)
    <3>1. k \in Nat \ {0} /\ x \in Nat /\ y \in Nat /\ y <= a + B /\ a * k < x
      BY <1>3, <1>6, <1>7, <1>8, <2>2
    <3> HIDE DEF k, x, y, a, B
    <3>2. y * k <= (a + B) * k
      BY <1>3, <1>4, <3>1
    <3>3. (a + B) * k = a * k + k * B /\ a * k \in Int /\ k * B \in Int /\ y * k \in Int
      BY <1>3, <1>4, <3>1
    <3>4. y * k < x + k * B
      BY <3>1, <3>2, <3>3
    <3>5. y * k = Pow2(MaxLen) /\ TakenAbove(tier - 1) = x + k * B
      BY <1>7 DEF y, k, x
    <3> QED BY <1>7, <1>8, <3>4, <3>5
  <2>4. BaseInv'
    BY <1>1, <1>2, <1>5, <1>10, <2>1 DEF Inv, BaseInv, Symbols
  <2>5. TierInv' /\ NumberInv' /\ CodesInv'
    BY <2>1 DEF TierInv, NumberInv, CodesInv
  <2>6. KraftDecides'
    BY <1>5, <2>1, <2>3 DEF KraftDecides
  <2> QED BY <1>9, <2>4, <2>5, <2>6 DEF Inv
<1>12. CASE ~ Overfull(tier, top)
  <2> DEFINE half == top \div 2
  <2>1. /\ acc' = half /\ tier' = tier - 1
        /\ phase' = IF tier = 1 THEN "codes" ELSE "tiers"
    BY <1>1, <1>12
  <2>2. top < Pow2(tier)
    BY <1>3, <1>8, <1>12 DEF Overfull
  <2>3. half \in Nat /\ half <= top /\ half < Pow2(tier - 1)
    BY <1>3, <1>8, <2>2
  <2>4. Signed' = half
    <3>1. half # AccSpace - 1
      BY <1>3, <2>3
    <3> QED BY <2>1, <3>1 DEF Signed
  <2>5. /\ half * Keys(tier - 1) < TakenAbove(tier - 1)
        /\ TakenAbove(tier - 1) <= (half + 1) * Keys(tier - 1)
        /\ \A t \in tier + 1 .. MaxLen : End(cur, t) <= (half + 1) * Keys(tier - 1)
        /\ (a + 1 + B) * Keys(tier) <= (half + 1) * Keys(tier - 1)
    <3> DEFINE k == Keys(tier)
               x == TakenAbove(tier)
    <3>1. a \in Int /\ B \in Nat /\ top \in Nat /\ top = a + B /\ k \in Nat \ {0}
          /\ half = top \div 2 /\ x \in Int /\ a * k < x /\ x <= (a + 1) * k
      BY <1>3, <1>4, <1>6, <1>7
    <3>2. ASSUME NEW t \in tier + 1 .. MaxLen
          PROVE  End(cur, t) \in Int /\ End(cur, t) <= (a + 1) * k
      <4>1. t \in 0 .. MaxLen /\ t \in 0 .. MaxLen + 1
        BY <1>2
      <4>2. Keys(t) \in Nat /\ BlCount(t) \in Nat /\ cur[t] \in Nat
        <5>1. Keys(t) \in Nat
          BY <1>2, <4>1, KeysProperties
        <5>2. BlCount(t) \in Nat
          BY <1>2, CountProperties
        <5>3. cur[t] \in Nat
          BY <1>2, <4>1
        <5> QED BY <5>1, <5>2, <5>3
      <4> QED BY <1>6, <4>2 DEF End
    <3> HIDE DEF a, B, top, k, x, half
    <3>3. /\ half * (2 * k) < x + k * B
          /\ x + k * B <= (half + 1) * (2 * k)
          /\ \A y \in Int : y <= (a + 1) * k => y <= (half + 1) * (2 * k)
          /\ (top + 1) * k <= (half + 1) * (2 * k)
      BY ONLY <3>1, TierArithmetic
    <3>4. top + 1 = a + 1 + B
      BY <3>1
    <3>5. Keys(tier - 1) = 2 * k /\ TakenAbove(tier - 1) = x + k * B
      BY <1>7 DEF k, x, B
    <3> QED BY <3>2, <3>3, <3>4, <3>5 DEF k
  <2>6. /\ End(cur', tier) = (a + 1 + B) * Keys(tier)
        /\ \A t \in tier + 1 .. MaxLen : cur'[t] = cur[t] /\ End(cur', t) = End(cur, t)
        /\ tier .. MaxLen = {tier} \cup (tier + 1 .. MaxLen)
    <3>1. \A t \in tier + 1 .. MaxLen : t # tier /\ t \in 0 .. MaxLen + 1
      BY <1>2
    <3>2. tier .. MaxLen = {tier} \cup (tier + 1 .. MaxLen)
      BY <1>2
    <3> HIDE DEF a
    <3> QED BY <1>10, <3>1, <3>2 DEF End
  <2>7. Placed(cur', tier - 1)
    <3>1. cur'[tier] + BlCount(tier) <= Pow2(tier)
      BY <1>3, <1>4, <1>8, <1>10, <2>2
    <3>2. \A t \in tier + 1 .. MaxLen :
            /\ cur'[t] + BlCount(t) <= Pow2(t)
            /\ End(cur', t) <= cur'[tier] * Keys(tier)
            /\ \A u \in tier + 1 .. MaxLen : u < t => End(cur', t) <= cur'[u] * Keys(u)
      <4> HIDE DEF a
      <4> QED BY <1>6, <1>10, <2>6 DEF Placed
    <3>3. \A u \in tier + 1 .. MaxLen : ~ (u < tier)
      BY <1>2
    <3>4. (tier - 1) + 1 = tier /\ ~ (tier < tier)
      BY <1>2
    <3>5. \A t \in tier .. MaxLen : t = tier \/ t \in tier + 1 .. MaxLen
      BY <2>6
    <3>6. ASSUME NEW t \in tier .. MaxLen
          PROVE  /\ cur'[t] + BlCount(t) <= Pow2(t)
                 /\ \A u \in tier .. MaxLen : u < t => End(cur', t) <= cur'[u] * Keys(u)
      <4>1. CASE t = tier
        BY ONLY <3>1, <3>3, <3>4, <3>5, <4>1
      <4>2. CASE t \in tier + 1 .. MaxLen
        BY ONLY <3>2, <3>5, <4>2
      <4> QED BY <3>5, <4>1, <4>2
    <3> QED BY ONLY <1>10, <3>4, <3>6 DEF Placed
  <2>8. \A t \in tier .. MaxLen : End(cur', t) <= (half + 1) * Keys(tier - 1)
    <3> HIDE DEF a, half, B
    <3> QED BY ONLY <2>5, <2>6
  <2>9. /\ \A s, t : End(s, t)' = End(s, t)
        /\ \A s, lo : Placed(s, lo)' <=> Placed(s, lo)
    <3>1. \A s, t : End(s, t)' = End(s, t)
      BY <1>5 DEF End
    <3> QED BY <1>5, <3>1 DEF Placed
  <2>10. BaseInv'
    <3>1. /\ lengths' = lengths /\ sym' = sym /\ code' = code /\ MaxLen' = MaxLen
          /\ phase' \in {"tiers", "codes"} /\ tier' \in 0 .. MaxLen
      BY <1>1, <1>2, <1>5, <2>1
    <3>2. acc' \in 0 .. AccSpace - 1
      BY <1>3, <2>1, <2>3, HuffmanTableAssumption
    <3> QED BY <1>2, <1>10, <3>1, <3>2 DEF BaseInv, Symbols
  <2>11. CASE tier = 1
    <3>1. phase' = "codes" /\ tier - 1 = 0 /\ sym' = 0
      BY <1>1, <1>2, <2>1, <2>11
    <3>2. NumberInv'
      <4> SUFFICES \E start \in [0 .. MaxLen + 1 -> Nat] :
                     /\ Placed(start, 0)
                     /\ \A l \in 1 .. MaxLen : cur'[l] = start[l] + CountBelow(l, 0)
        <5>1. \A s \in Used' : ~ (s < sym')
          BY <3>1, <1>5 DEF Used, Symbols
        <5> QED BY <1>5, <2>9, <3>1, <5>1 DEF NumberInv
      <4>1. \A l \in 1 .. MaxLen : cur'[l] = cur'[l] + CountBelow(l, 0)
        <5>1. \A l : CountBelow(l, 0) = 0
          BY <1>2, CountProperties
        <5>2. \A l \in 1 .. MaxLen : cur'[l] \in Nat
          BY <1>2, <1>10
        <5> QED BY <5>1, <5>2
      <4>2. Placed(cur', 0)
        BY <2>7, <3>1
      <4> QED BY <1>10, <4>1, <4>2
    <3>3. KraftDecides'
      <4>1. half = 0
        BY <2>3, <3>1, Pow2Equations
      <4>2. KraftSum <= Pow2(MaxLen)
        <5>1. TakenAbove(0) <= (0 + 1) * Keys(0)
          BY <2>5, <3>1, <4>1
        <5>2. Keys(0) = Pow2(MaxLen) /\ TakenAbove(0) = KraftSum
          BY <1>2, KeysProperties, TakenProperties
        <5> QED BY <1>8, <5>1, <5>2
      <4> QED BY <1>5, <3>1, <4>2 DEF KraftDecides
    <3>4. TierInv' /\ CodesInv'
      BY <3>1 DEF TierInv, CodesInv
    <3> QED BY <1>9, <2>10, <3>2, <3>3, <3>4 DEF Inv
  <2>12. CASE tier # 1
    <3>1. phase' = "tiers" /\ tier' = tier - 1 /\ tier' \in 1 .. MaxLen /\ tier' < MaxLen
      BY <1>2, <2>1, <2>12
    <3>2. TierInv'
      <4>1. acc' \in Nat /\ acc' < Pow2(tier')
        BY <2>1, <2>3
      <4>2. /\ Signed' * Keys(tier)' < TakenAbove(tier)'
            /\ TakenAbove(tier)' <= (Signed' + 1) * Keys(tier)'
        <5>1. Keys(tier)' = Keys(tier - 1) /\ TakenAbove(tier)' = TakenAbove(tier - 1)
          <6>1. MaxLen' - tier' = MaxLen - (tier - 1)
            BY <1>5, <3>1
          <6>2. Keys(tier)' = Keys(tier - 1)
            BY <6>1 DEF Keys
          <6>3. \A s : Share(s)' = Share(s)
            BY <1>1, <1>5 DEF Share
          <6>4. TakenAbove(tier)' = TakenAbove(tier - 1)
            BY <1>1, <3>1, <6>3 DEF TakenAbove, LongerThan
          <6> QED BY <6>2, <6>4
        <5> QED BY <2>4, <2>5, <5>1
      <4>3. Placed(cur, tier)'
        BY <1>5, <2>7, <3>1 DEF Placed, End
      <4>4. (\A t \in tier + 1 .. MaxLen : End(cur, t) <= (Signed + 1) * Keys(tier))'
        <5>1. (tier - 1) + 1 = tier
          BY <1>2
        <5>2. \A t \in tier' + 1 .. MaxLen : End(cur', t) <= (half + 1) * Keys(tier - 1)
          BY <2>8, <3>1, <5>1
        <5>3. Keys(tier)' = Keys(tier - 1)
          BY <1>5, <3>1 DEF Keys
        <5> HIDE DEF half
        <5> QED BY <1>5, <2>4, <5>2, <5>3 DEF End
      <4>5. tier' # MaxLen'
        BY <1>5, <3>1
      <4> QED BY <1>5, <3>1, <4>1, <4>2, <4>3, <4>4, <4>5 DEF TierInv
    <3>3. NumberInv' /\ CodesInv' /\ KraftDecides'
      BY <3>1 DEF NumberInv, CodesInv, KraftDecides
    <3> QED BY <1>9, <2>10, <3>2, <3>3 DEF Inv
  <2> QED BY <2>11, <2>12
<1> QED BY <1>11, <1>12

------------------------------------------------------------------------------
(* Numbers handed out in symbol order within tiers that follow each other    *)
(* are codes of their length, and no key begins with two of them.            *)
LEMMA CodesApart ==
  ASSUME lengths \in [Symbols -> 0 .. MaxLength],
         NEW start \in [0 .. MaxLen + 1 -> Nat], Placed(start, 0),
         NEW c, \A s \in Used : c[s] = start[lengths[s]] + CountBelow(lengths[s], s)
  PROVE  /\ \A s \in Used : c[s] + 1 <= Pow2(lengths[s])
         /\ \A s, t \in Used :
              \/ s = t
              \/ (c[s] + 1) * Keys(lengths[s]) <= c[t] * Keys(lengths[t])
              \/ (c[t] + 1) * Keys(lengths[t]) <= c[s] * Keys(lengths[s])
<1>0. N \in Nat \ {0} /\ MaxLen \in Nat
  BY HuffmanTableAssumption, MaxLenProperties
<1>1. ASSUME NEW s \in Used
      PROVE  /\ s \in Symbols /\ s \in Nat /\ s + 1 <= N /\ s + 1 \in Nat
             /\ lengths[s] \in 1 .. MaxLen /\ start[lengths[s]] \in Nat
             /\ CountBelow(lengths[s], s) \in Nat /\ BlCount(lengths[s]) \in Nat
             /\ CountBelow(lengths[s], s + 1) = CountBelow(lengths[s], s) + 1
             /\ CountBelow(lengths[s], s + 1) <= BlCount(lengths[s])
             /\ Keys(lengths[s]) \in Nat \ {0}
  <2>1. s \in Symbols /\ lengths[s] > 0
    BY DEF Used
  <2>2. lengths[s] \in 0 .. MaxLen /\ s \in Nat /\ s + 1 <= N
    BY <1>0, <2>1, MaxLenProperties DEF Symbols
  <2>3. lengths[s] \in 1 .. MaxLen /\ lengths[s] \in 0 .. MaxLen + 1
    BY <1>0, <2>1, <2>2
  <2>4. start[lengths[s]] \in Nat
    BY <2>3
  <2>5. s \in 0 .. N /\ s + 1 \in 0 .. N /\ N \in 0 .. N
    BY <1>0, <2>2
  <2>6. CountBelow(lengths[s], s) \in Nat
    BY <2>5, CountProperties
  <2>7. BlCount(lengths[s]) = CountBelow(lengths[s], N) /\ BlCount(lengths[s]) \in Nat
    BY CountProperties
  <2>8. CountBelow(lengths[s], s + 1) = CountBelow(lengths[s], s) + 1
    BY <2>1, CountProperties
  <2>9. CountBelow(lengths[s], s + 1) <= CountBelow(lengths[s], N)
    BY <2>2, <2>5, CountProperties
  <2>10. Keys(lengths[s]) \in Nat \ {0}
    BY <2>2, KeysProperties
  <2> QED BY <2>1, <2>2, <2>3, <2>4, <2>6, <2>7, <2>8, <2>9, <2>10
<1>2. ASSUME NEW s \in Used
      PROVE  /\ c[s] + 1 <= start[lengths[s]] + BlCount(lengths[s])
             /\ c[s] \in Nat /\ start[lengths[s]] <= c[s]
  <2>1. c[s] = start[lengths[s]] + CountBelow(lengths[s], s)
    OBVIOUS
  <2> DEFINE x == start[lengths[s]]
             y == CountBelow(lengths[s], s)
             z == BlCount(lengths[s])
  <2>2. x \in Nat /\ y \in Nat /\ z \in Nat /\ y + 1 <= z /\ c[s] = x + y
    BY <1>1, <2>1
  <2> HIDE DEF x, y, z
  <2>3. c[s] + 1 <= x + z /\ c[s] \in Nat /\ x <= c[s]
    BY ONLY <2>2
  <2> QED BY <2>3 DEF x, z
<1>3. ASSUME NEW s \in Used PROVE c[s] + 1 <= Pow2(lengths[s])
  <2>1. lengths[s] \in 0 + 1 .. MaxLen
    BY <1>1
  <2>2. start[lengths[s]] + BlCount(lengths[s]) <= Pow2(lengths[s])
    BY <2>1 DEF Placed
  <2>3. Pow2(lengths[s]) \in Nat
    BY <1>1, Pow2Type
  <2> QED BY <1>1, <1>2, <2>2, <2>3
<1>4. ASSUME NEW s \in Used, NEW t \in Used, lengths[s] = lengths[t], s < t
      PROVE  (c[s] + 1) * Keys(lengths[s]) <= c[t] * Keys(lengths[t])
  <2>1. s + 1 \in 0 .. N /\ t \in 0 .. N /\ s + 1 <= t
    <3>1. s \in Nat /\ t \in Nat /\ s < t /\ s + 1 <= N /\ t + 1 <= N
      BY <1>1, <1>4
    <3> QED BY ONLY <1>0, <3>1
  <2>2. CountBelow(lengths[s], s + 1) <= CountBelow(lengths[t], t)
    BY <1>4, <2>1, CountProperties
  <2>3. c[s] + 1 <= c[t]
    <3>1. c[s] = start[lengths[s]] + CountBelow(lengths[s], s)
          /\ c[t] = start[lengths[s]] + CountBelow(lengths[t], t)
      BY <1>4
    <3> DEFINE x == start[lengths[s]]
               y == CountBelow(lengths[s], s)
               z == CountBelow(lengths[t], t)
    <3>2. x \in Nat /\ y \in Nat /\ z \in Nat /\ y + 1 <= z
      BY <1>1, <2>2
    <3>3. c[s] = x + y /\ c[t] = x + z
      BY <3>1
    <3> HIDE DEF x, y, z
    <3> QED BY ONLY <3>2, <3>3
  <2>4. \A x, y \in Nat, k \in Nat : x <= y => x * k <= y * k
    OBVIOUS
  <2>5. Keys(lengths[s]) \in Nat /\ c[s] + 1 \in Nat /\ c[t] \in Nat
    <3>1. Keys(lengths[s]) \in Nat
      BY <1>1
    <3>2. c[s] \in Nat /\ c[t] \in Nat
      BY <1>2
    <3> QED BY <3>1, <3>2
  <2> QED BY <1>4, <2>3, <2>4, <2>5
<1>5. ASSUME NEW s \in Used, NEW t \in Used, lengths[t] < lengths[s]
      PROVE  (c[s] + 1) * Keys(lengths[s]) <= c[t] * Keys(lengths[t])
  <2> DEFINE k == Keys(lengths[s])
             m == Keys(lengths[t])
  <2>1. lengths[s] \in 0 + 1 .. MaxLen /\ lengths[t] \in 0 + 1 .. MaxLen
    BY <1>1
  <2>2. (start[lengths[s]] + BlCount(lengths[s])) * k <= start[lengths[t]] * m
    BY <1>5, <2>1 DEF Placed, End
  <2>3. k \in Nat /\ m \in Nat
    BY <1>1
  <2>4. start[lengths[t]] <= c[t] /\ start[lengths[t]] \in Nat /\ c[t] \in Nat
    BY ONLY <1>1, <1>2, <1>5
  <2>5. c[s] + 1 <= start[lengths[s]] + BlCount(lengths[s])
        /\ c[s] + 1 \in Nat /\ start[lengths[s]] + BlCount(lengths[s]) \in Nat
    <3>1. /\ c[s] + 1 <= start[lengths[s]] + BlCount(lengths[s]) /\ c[s] \in Nat
          /\ start[lengths[s]] \in Nat /\ BlCount(lengths[s]) \in Nat
      BY ONLY <1>1, <1>2, <1>5
    <3> QED BY ONLY <3>1
  <2> HIDE DEF k, m
  <2>6. (c[s] + 1) * k <= (start[lengths[s]] + BlCount(lengths[s])) * k
        /\ start[lengths[t]] * m <= c[t] * m
    <3>1. \A x, y, z \in Nat : x <= y => x * z <= y * z
      OBVIOUS
    <3> QED BY ONLY <2>3, <2>4, <2>5, <3>1
  <2>7. (c[s] + 1) * k \in Int /\ (start[lengths[s]] + BlCount(lengths[s])) * k \in Int
        /\ start[lengths[t]] * m \in Int /\ c[t] * m \in Int
    BY ONLY <2>3, <2>4, <2>5
  <2>8. (c[s] + 1) * k <= c[t] * m
    BY ONLY <2>2, <2>6, <2>7
  <2> QED BY <2>8 DEF k, m
<1>6. ASSUME NEW s \in Used, NEW t \in Used, s # t
      PROVE  \/ (c[s] + 1) * Keys(lengths[s]) <= c[t] * Keys(lengths[t])
             \/ (c[t] + 1) * Keys(lengths[t]) <= c[s] * Keys(lengths[s])
  <2>1. \/ lengths[t] < lengths[s] \/ lengths[s] < lengths[t]
        \/ lengths[s] = lengths[t] /\ (s < t \/ t < s)
    BY <1>1, <1>6
  <2> QED BY <1>4, <1>5, <2>1
<1> QED BY <1>3, <1>6

LEMMA AssignCodeStep == Inv /\ AssignCode => Inv'
<1> SUFFICES ASSUME Inv, AssignCode PROVE Inv'
  OBVIOUS
<1> DEFINE l == lengths[sym]
<1>1. /\ phase = "codes"
      /\ phase' = IF sym = N - 1 THEN "fill" ELSE "codes"
      /\ sym' = IF sym = N - 1 THEN 0 ELSE sym + 1
      /\ UNCHANGED <<lengths, tier, acc, primary, secondary, subIdx>>
      /\ l = 0 => UNCHANGED <<code, cur>>
      /\ l # 0 => /\ code' = [code EXCEPT ![sym] = cur[l]]
                  /\ cur' = [cur EXCEPT ![l] = cur[l] + 1]
  BY DEF AssignCode, ForSymbol
<1>2. /\ lengths \in [Symbols -> 0 .. MaxLength] /\ MaxLen \in Nat
      /\ cur \in [0 .. MaxLen + 1 -> Nat] /\ code \in [Symbols -> Nat]
      /\ sym \in Symbols /\ N \in Nat \ {0} /\ tier \in 0 .. MaxLen /\ acc \in 0 .. AccSpace - 1
  BY MaxLenProperties, HuffmanTableAssumption DEF Inv, BaseInv, RedirectMarker
<1>3. l \in 0 .. MaxLen /\ l \in 0 .. MaxLen + 1 /\ cur[l] \in Nat /\ sym \in 0 .. N - 1
  <2>1. l \in 0 .. MaxLen
    BY <1>2, MaxLenProperties
  <2> QED BY <1>2, <2>1 DEF Symbols
<1>4. /\ MaxLen' = MaxLen /\ TopBits' = TopBits /\ SubBits' = SubBits
      /\ Used' = Used /\ KraftSum' = KraftSum
      /\ \A x : BlCount(x)' = BlCount(x)
      /\ \A x, k : CountBelow(x, k)' = CountBelow(x, k)
      /\ \A t : Keys(t)' = Keys(t)
      /\ \A t : TakenAbove(t)' = TakenAbove(t)
  BY <1>1, SameLengths
<1> HIDE DEF l
<1>5. /\ cur' \in [0 .. MaxLen + 1 -> Nat] /\ code' \in [Symbols -> Nat]
      /\ \A x \in 1 .. MaxLen : cur'[x] = cur[x] + (IF l = x THEN 1 ELSE 0)
      /\ \A s \in Symbols : s # sym => code'[s] = code[s]
      /\ l # 0 => code'[sym] = cur[l]
  <2>1. CASE l = 0
    <3>1. \A x \in 1 .. MaxLen : cur[x] \in Nat /\ l # x
      BY <1>2, <2>1
    <3> QED BY <1>1, <1>2, <2>1, <3>1
  <2>2. CASE l # 0
    <3>1. \A x \in 1 .. MaxLen : cur[x] \in Nat /\ x \in 0 .. MaxLen + 1
      BY <1>2
    <3>2. code' \in [Symbols -> Nat] /\ code'[sym] = cur[l]
          /\ \A s \in Symbols : s # sym => code'[s] = code[s]
      BY <1>1, <1>2, <1>3, <2>2
    <3>3. cur' \in [0 .. MaxLen + 1 -> Nat]
          /\ \A x \in 0 .. MaxLen + 1 : cur'[x] = IF x = l THEN cur[l] + 1 ELSE cur[x]
      <4>1. cur[l] + 1 \in Nat /\ cur' = [cur EXCEPT ![l] = cur[l] + 1]
        BY <1>1, <1>3, <2>2
      <4> QED BY <1>2, <1>3, <4>1
    <3> QED BY <3>1, <3>2, <3>3
  <2> QED BY <2>1, <2>2
<1>6. PICK start \in [0 .. MaxLen + 1 -> Nat] :
        /\ Placed(start, 0)
        /\ \A x \in 1 .. MaxLen : cur[x] = start[x] + CountBelow(x, sym)
        /\ \A s \in Used : s < sym => code[s] = start[lengths[s]] + CountBelow(lengths[s], s)
  BY <1>1 DEF Inv, NumberInv
<1>7. \A x \in 1 .. MaxLen : cur'[x] = start[x] + CountBelow(x, sym + 1)
  <2> SUFFICES ASSUME NEW x \in 1 .. MaxLen PROVE cur'[x] = start[x] + CountBelow(x, sym + 1)
    OBVIOUS
  <2>1. CountBelow(x, sym + 1) = CountBelow(x, sym) + (IF l = x THEN 1 ELSE 0)
    BY <1>2, CountProperties DEF l
  <2>2. CountBelow(x, sym) \in Nat /\ start[x] \in Nat
    <3>1. sym \in 0 .. N /\ x \in 0 .. MaxLen + 1
      BY <1>2, <1>3
    <3> QED BY <1>2, <3>1, CountProperties
  <2>3. cur'[x] = (start[x] + CountBelow(x, sym)) + (IF l = x THEN 1 ELSE 0)
    BY <1>5, <1>6
  <2> QED BY <2>1, <2>2, <2>3
<1>8. \A s \in Used : s < sym + 1 => code'[s] = start[lengths[s]] + CountBelow(lengths[s], s)
  <2> SUFFICES ASSUME NEW s \in Used, s < sym + 1
               PROVE  code'[s] = start[lengths[s]] + CountBelow(lengths[s], s)
    OBVIOUS
  <2>1. s \in Symbols /\ lengths[s] > 0 /\ s \in Int
    BY <1>2 DEF Used, Symbols
  <2>2. CASE s = sym
    <3>1. l = lengths[s] /\ l # 0 /\ l \in 1 .. MaxLen
      BY <1>2, <1>3, <2>1, <2>2 DEF l
    <3> QED BY <1>5, <1>6, <2>2, <3>1
  <2>3. CASE s # sym
    <3>1. s < sym
      BY <1>3, <2>1, <2>3
    <3> QED BY <1>5, <1>6, <2>1, <2>3, <3>1
  <2> QED BY <2>2, <2>3
<1>9. BaseInv'
  <2>1. sym' \in Symbols /\ phase' \in {"codes", "fill"}
    BY <1>1, <1>3, <1>2 DEF Symbols
  <2>2. ASSUME phase' = "codes", NEW s \in Symbols, s >= sym' PROVE code'[s] = 0
    <3>1. sym' = sym + 1
      BY <1>1, <2>2
    <3>2. s >= sym /\ s # sym
      BY <1>3, <2>2, <3>1 DEF Symbols
    <3> QED BY <1>1, <1>5, <3>2 DEF Inv, BaseInv
  <2> QED BY <1>1, <1>2, <1>4, <1>5, <2>1, <2>2 DEF BaseInv, Symbols
<1>10. FillInv'
  <2>1. Done = {}
    BY <1>1 DEF Done
  <2>2. Done' = {}
    <3>1. \A s \in Used' : ~ (s < 0)
      BY <1>2, <1>4 DEF Used, Symbols
    <3> QED BY <1>1, <3>1 DEF Done
  <2> QED BY <1>1, <2>1, <2>2, NothingFilled DEF Inv
<1>11. KraftDecides'
  BY <1>1, <1>4 DEF Inv, KraftDecides
<1>12. TierInv'
  BY <1>1 DEF TierInv
<1>13. CASE sym = N - 1
  <2>1. phase' = "fill"
    BY <1>1, <1>13
  <2>2. \A s \in Used : code'[s] = start[lengths[s]] + CountBelow(lengths[s], s)
    <3>1. \A s \in Used : s < sym + 1
      BY <1>2, <1>13 DEF Used, Symbols
    <3> QED BY <1>8, <3>1
  <2>3. /\ \A s \in Used : code'[s] + 1 <= Pow2(lengths[s])
        /\ \A s, t \in Used :
             \/ s = t
             \/ (code'[s] + 1) * Keys(lengths[s]) <= code'[t] * Keys(lengths[t])
             \/ (code'[t] + 1) * Keys(lengths[t]) <= code'[s] * Keys(lengths[s])
    BY <1>2, <1>6, <2>2, CodesApart
  <2>4. CodesInv'
    BY <1>1, <1>4, <2>3 DEF CodesInv, From, To
  <2>5. NumberInv'
    BY <2>1 DEF NumberInv
  <2> QED BY <1>9, <1>10, <1>11, <1>12, <2>4, <2>5 DEF Inv
<1>14. CASE sym # N - 1
  <2>1. phase' = "codes" /\ sym' = sym + 1
    BY <1>1, <1>14
  <2>2. CodesInv'
    BY <2>1 DEF CodesInv
  <2>3. NumberInv'
    <3>1. \A s, lo : Placed(s, lo)' <=> Placed(s, lo)
      BY <1>4 DEF Placed, End
    <3> QED BY <1>1, <1>4, <1>6, <1>7, <1>8, <2>1, <3>1, ZenonT(60) DEF NumberInv
  <2> QED BY <1>9, <1>10, <1>11, <1>12, <2>2, <2>3 DEF Inv
<1> QED BY <1>13, <1>14

------------------------------------------------------------------------------
(* Where the keys of a code lie in the tables.                               *)
LEMMA Multiples ==
  ASSUME NEW b \in Nat \ {0}, NEW p \in Int, NEW r \in 0 .. b - 1, NEW x \in Int
  PROVE  /\ x * b <= p * b + r <=> x <= p
         /\ p * b + r < x * b <=> p < x
<1>1. \A m, n \in Int : m <= n => m * b <= n * b
  OBVIOUS
<1>2. x * b \in Int /\ p * b \in Int /\ (p + 1) * b = p * b + b /\ p + 1 \in Int
  OBVIOUS
<1>3. x <= p => x * b <= p * b
  BY <1>1
<1>4. p + 1 <= x => (p + 1) * b <= x * b
  BY <1>1
<1>5. r \in Int /\ 0 <= r /\ r < b /\ b \in Int
  OBVIOUS
<1> QED BY ONLY <1>2, <1>3, <1>4, <1>5, p \in Int, x \in Int

LEMMA CodeFacts ==
  ASSUME BaseInv, CodesInv, phase \in {"fill", "built"}, NEW s \in Used
  PROVE  /\ lengths[s] \in 1 .. MaxLen /\ code[s] \in Nat /\ s \in Symbols
         /\ code[s] < Pow2(lengths[s])
         /\ Keys(lengths[s]) \in Nat \ {0}
<1>1. lengths \in [Symbols -> 0 .. MaxLength] /\ code \in [Symbols -> Nat]
  BY DEF BaseInv
<1>2. s \in Symbols /\ lengths[s] > 0
  BY DEF Used
<1>3. MaxLen \in Nat /\ lengths[s] \in 0 .. MaxLen
  BY <1>1, <1>2, MaxLenProperties, HuffmanTableAssumption DEF RedirectMarker
<1>4. Keys(lengths[s]) \in Nat \ {0} /\ Pow2(lengths[s]) \in Nat
  BY <1>1, <1>3, KeysProperties, Pow2Type
<1>5. code[s] \in Nat /\ code[s] + 1 <= Pow2(lengths[s])
  BY <1>1, <1>2 DEF CodesInv
<1> QED BY <1>2, <1>3, <1>4, <1>5

LEMMA DirectCovers ==
  ASSUME BaseInv, CodesInv, phase \in {"fill", "built"},
         NEW s \in Used, lengths[s] <= TopBits,
         NEW w, w = Pow2(TopBits - lengths[s]), NEW base, base = code[s] * w
  PROVE  /\ w \in Nat \ {0} /\ base \in Nat /\ base + w <= Pow2(TopBits)
         /\ \A key \in AllKeys : Covers(s, key) <=> Top0(key) \in base .. base + w - 1
<1> DEFINE l == lengths[s]
           c == code[s]
           b == Pow2(SubBits)
<1>1. /\ l \in 1 .. MaxLen /\ c \in Nat /\ c < Pow2(l)
      /\ lengths \in [Symbols -> 0 .. MaxLength] /\ TopBits \in Nat /\ SubBits \in Nat
      /\ TopBits + SubBits = MaxLen
  BY CodeFacts, KeyParts DEF BaseInv
<1>2. TopBits - l \in Nat /\ l \in Nat /\ MaxLen - l = (TopBits - l) + SubBits /\ TopBits = l + (TopBits - l)
  BY <1>1
<1>3. w \in Nat \ {0} /\ b \in Nat \ {0} /\ Pow2(l) \in Nat \ {0}
  BY <1>1, <1>2, Pow2Type
<1>4. Keys(l) = w * b
  BY <1>1, <1>2, Pow2Product DEF Keys
<1>5. Pow2(TopBits) = Pow2(l) * w
  BY <1>2, Pow2Product
<1>6. ASSUME NEW key \in AllKeys
      PROVE  Covers(s, key) <=> Top0(key) \in base .. base + w - 1
  <2> DEFINE p == Top0(key)
             r == Rest(key)
  <2>1. p \in Int /\ r \in 0 .. b - 1 /\ key = p * b + r
    <3>1. Pow2(TopBits) \in Nat
      BY <1>1, Pow2Type
    <3> QED BY <1>1, <1>3, <3>1, KeyParts
  <2>2. Covers(s, key) <=> c * (w * b) <= key /\ key < (c + 1) * (w * b)
    BY <1>4 DEF Covers, From, To
  <2> HIDE DEF l, c, b, p, r
  <2>3. base = c * w /\ base \in Int /\ base + w \in Int
    BY <1>1, <1>3 DEF c
  <2>4. c * (w * b) = base * b /\ (c + 1) * (w * b) = (base + w) * b
    <3>1. \A x, y, z \in Int : x * (y * z) = (x * y) * z /\ (x + 1) * y = x * y + y
      OBVIOUS
    <3>2. (c + 1) * w = base + w
      BY <1>1, <1>3, <2>3, <3>1
    <3> QED BY <1>1, <1>3, <2>3, <3>1, <3>2
  <2>5. /\ base * b <= p * b + r <=> base <= p
        /\ p * b + r < (base + w) * b <=> p < base + w
    BY <1>3, <2>1, <2>3, Multiples
  <2>6. Covers(s, key) <=> base <= p /\ p < base + w
    BY <2>1, <2>2, <2>4, <2>5
  <2> QED BY <1>3, <2>1, <2>3, <2>6 DEF p
<1>7. base \in Nat /\ base + w <= Pow2(TopBits)
  <2> HIDE DEF l, c
  <2>1. base = c * w
    BY DEF c
  <2>2. (c + 1) * w <= Pow2(l) * w /\ (c + 1) * w = c * w + w /\ c * w \in Nat
    BY <1>1, <1>3
  <2> QED BY <1>5, <2>1, <2>2
<1> QED BY <1>3, <1>6, <1>7

LEMMA DeferredCovers ==
  ASSUME BaseInv, CodesInv, phase \in {"fill", "built"},
         NEW s \in Used, lengths[s] > TopBits,
         NEW d, d = Pow2(lengths[s] - TopBits),
         NEW w, w = Pow2(SubBits - (lengths[s] - TopBits)),
         NEW prefix, prefix = code[s] \div d,
         NEW base, base = (code[s] % d) * w
  PROVE  /\ w \in Nat \ {0} /\ base \in Nat /\ base + w <= Pow2(SubBits)
         /\ prefix \in 0 .. Pow2(TopBits) - 1
         /\ \A key \in AllKeys :
              Covers(s, key) <=> Top0(key) = prefix /\ Rest(key) \in base .. base + w - 1
<1> DEFINE l == lengths[s]
           c == code[s]
           b == Pow2(SubBits)
           a == Pow2(TopBits)
           resid == c % d
<1>1. /\ l \in 1 .. MaxLen /\ c \in Nat /\ c < Pow2(l)
      /\ lengths \in [Symbols -> 0 .. MaxLength] /\ TopBits \in Nat /\ SubBits \in Nat
      /\ TopBits + SubBits = MaxLen
  BY CodeFacts, KeyParts DEF BaseInv
<1>2. /\ l - TopBits \in Nat /\ SubBits - (l - TopBits) \in Nat /\ l \in Nat
      /\ MaxLen - l = SubBits - (l - TopBits)
      /\ l = TopBits + (l - TopBits)
      /\ SubBits = (l - TopBits) + (SubBits - (l - TopBits))
  BY <1>1
<1>3. d \in Nat \ {0} /\ w \in Nat \ {0} /\ b \in Nat \ {0} /\ a \in Nat \ {0}
  BY <1>1, <1>2, Pow2Type
<1>4. Keys(l) = w /\ b = d * w /\ Pow2(l) = a * d
  <2>1. Keys(l) = w
    BY <1>2 DEF Keys
  <2>2. b = d * w
    BY <1>2, Pow2Product
  <2>3. Pow2(l) = a * d
    BY <1>1, <1>2, Pow2Product
  <2> QED BY <2>1, <2>2, <2>3
<1>5. prefix = c \div d /\ base = resid * w
  OBVIOUS
<1> HIDE DEF l, c, b, a
<1>6. prefix \in Nat /\ resid \in 0 .. d - 1 /\ c = prefix * d + resid
  <2>1. d \in Nat /\ d > 0 /\ c \in Nat
    BY <1>1, <1>3
  <2>2. prefix \in Nat /\ resid \in 0 .. d - 1 /\ c = d * prefix + resid
    <3>1. c \div d \in Nat /\ c % d \in 0 .. d - 1 /\ c = d * (c \div d) + (c % d)
      BY ONLY <2>1, CountOn
    <3> QED BY ONLY <1>5, <3>1
  <2>3. d * prefix = prefix * d
    BY <1>3, <2>2
  <2> QED BY <2>2, <2>3
<1> HIDE DEF resid
<1>7. base \in Nat /\ base + w <= b
  <2>1. (resid + 1) * w <= d * w /\ (resid + 1) * w = resid * w + w /\ resid * w \in Nat
    BY <1>3, <1>6
  <2> QED BY <1>4, <1>5, <2>1
<1>8. prefix \in 0 .. a - 1
  <2>1. c < a * d
    BY <1>1, <1>4
  <2>2. prefix * d + resid < a * d <=> prefix < a
    BY <1>3, <1>6, Multiples
  <2> QED BY <1>3, <1>6, <2>1, <2>2
<1>9. ASSUME NEW key \in AllKeys
      PROVE  Covers(s, key) <=> Top0(key) = prefix /\ Rest(key) \in base .. base + w - 1
  <2> DEFINE p == Top0(key)
             r == Rest(key)
  <2>1. p \in Int /\ r \in 0 .. b - 1 /\ key = p * b + r
    <3>1. p \in 0 .. a - 1 /\ r \in 0 .. b - 1 /\ key = p * b + r
      BY <1>1, KeyParts DEF a, b
    <3> QED BY <1>3, <3>1
  <2>2. Covers(s, key) <=> c * w <= key /\ key < (c + 1) * w
    BY <1>4 DEF Covers, From, To, l, c
  <2> HIDE DEF p, r
  <2>3. c * w = prefix * b + base /\ (c + 1) * w = prefix * b + base + w
    <3>1. \A x, y, z \in Int : (x * y + z) * w = x * (y * w) + z * w
      BY <1>3
    <3>2. c * w = prefix * (d * w) + resid * w
      <4>1. prefix \in Int /\ d \in Int /\ resid \in Int
        BY <1>3, <1>6
      <4>2. (prefix * d + resid) * w = prefix * (d * w) + resid * w
        BY ONLY <3>1, <4>1
      <4> QED BY <1>6, <4>2
    <3>3. (c + 1) * w = c * w + w
      BY <1>1, <1>3
    <3>4. prefix * b \in Int
      BY <1>3, <1>6
    <3> QED BY <1>3, <1>4, <1>5, <1>7, <3>2, <3>3, <3>4
  <2>4. prefix * b \in Int /\ p * b \in Int
    BY <1>3, <1>6, <2>1
  <2>5. CASE p = prefix
    BY <1>3, <1>7, <2>1, <2>2, <2>3, <2>4, <2>5 DEF p, r
  <2>6. CASE p # prefix
    <3>1. \A x, y \in Int : x < y => x * b + b <= y * b
      <4> SUFFICES ASSUME NEW x \in Int, NEW y \in Int, x < y PROVE x * b + b <= y * b
        OBVIOUS
      <4>1. (x + 1) * b <= y * b /\ (x + 1) * b = x * b + b
        BY <1>3
      <4> QED BY <4>1
    <3>2. p < prefix => p * b + b <= prefix * b
      BY <1>6, <2>1, <3>1
    <3>3. prefix < p => prefix * b + b <= p * b
      BY <1>6, <2>1, <3>1
    <3>4. base \in Nat /\ base + w <= b /\ r \in Nat /\ r < b /\ b \in Nat /\ w \in Nat
      BY <1>3, <1>7, <2>1
    <3>5. p < prefix => key < c * w
      BY ONLY <2>1, <2>3, <2>4, <3>2, <3>4
    <3>6. prefix < p => (c + 1) * w <= key
      BY ONLY <2>1, <2>3, <2>4, <3>3, <3>4
    <3>7. key \in Int /\ c * w \in Int /\ (c + 1) * w \in Int
      BY <1>3, <1>7, <2>1, <2>3, <2>4
    <3>8. p < prefix \/ prefix < p
      BY <1>6, <2>1, <2>6
    <3>9. ~ Covers(s, key)
      BY ONLY <2>2, <3>5, <3>6, <3>7, <3>8
    <3> QED BY <2>6, <3>9 DEF p
  <2> QED BY <2>5, <2>6
<1> QED BY <1>3, <1>7, <1>8, <1>9 DEF a, b

------------------------------------------------------------------------------
(* Filling.  One more symbol is done; the codes stay as they are.            *)
LEMMA FillFrame ==
  ASSUME Inv, ForSymbol("fill", "built"), UNCHANGED <<cur, code>>
  PROVE  /\ lengths \in [Symbols -> 0 .. MaxLength] /\ phase = "fill" /\ sym \in Symbols
         /\ BaseInv' /\ TierInv' /\ NumberInv' /\ CodesInv' /\ KraftDecides'
         /\ Done \subseteq Used /\ sym \notin Done
         /\ Done' = Done \cup (IF sym \in Used THEN {sym} ELSE {})
         /\ TopBits' = TopBits /\ SubBits' = SubBits /\ AllKeys' = AllKeys
         /\ \A key : Top0(key)' = Top0(key) /\ Rest(key)' = Rest(key)
         /\ \A s, key : Covers(s, key)' <=> Covers(s, key)
<1>1. /\ phase = "fill" /\ phase' = (IF sym = N - 1 THEN "built" ELSE "fill")
      /\ sym' = (IF sym = N - 1 THEN 0 ELSE sym + 1)
      /\ UNCHANGED <<lengths, tier, acc, cur, code>>
  BY DEF ForSymbol
<1>2. /\ lengths \in [Symbols -> 0 .. MaxLength] /\ MaxLen \in Nat
      /\ cur \in [0 .. MaxLen + 1 -> Nat] /\ code \in [Symbols -> Nat]
      /\ sym \in Symbols /\ N \in Nat \ {0} /\ tier \in 0 .. MaxLen /\ acc \in 0 .. AccSpace - 1
  BY MaxLenProperties, HuffmanTableAssumption DEF Inv, BaseInv, RedirectMarker
<1>3. /\ MaxLen' = MaxLen /\ TopBits' = TopBits /\ SubBits' = SubBits
      /\ Used' = Used /\ KraftSum' = KraftSum
      /\ \A t : Keys(t)' = Keys(t)
  BY <1>1, SameLengths
<1>4. BaseInv'
  <2>1. sym' \in Symbols /\ phase' \in {"fill", "built"}
    BY <1>1, <1>2 DEF Symbols
  <2> QED BY <1>1, <1>2, <1>3, <2>1 DEF BaseInv, Symbols
<1>5. TierInv' /\ NumberInv' /\ KraftDecides'
  BY <1>1, <1>3 DEF Inv, TierInv, NumberInv, KraftDecides
<1>6. \A s : From(s)' = From(s) /\ To(s)' = To(s)
  BY <1>1, <1>3 DEF From, To
<1>7. CodesInv'
  BY <1>1, <1>3, <1>6 DEF Inv, CodesInv
<1>8. \A s, key : Covers(s, key)' <=> Covers(s, key)
  BY <1>6 DEF Covers
<1>9. AllKeys' = AllKeys /\ \A key : Top0(key)' = Top0(key) /\ Rest(key)' = Rest(key)
  BY <1>3 DEF AllKeys, Top0, Rest
<1>10. Done = {s \in Used : s < sym} /\ Used \subseteq Symbols
  BY <1>1 DEF Done, Used
<1>11. Done \subseteq Used /\ sym \notin Done
  BY <1>2, <1>10 DEF Symbols
<1>12. Done' = {s \in Used : s < sym + 1}
  <2>1. CASE sym = N - 1
    <3>1. \A s \in Used : s < sym + 1
      BY <1>2, <1>10, <2>1 DEF Symbols
    <3> QED BY <1>1, <1>3, <2>1, <3>1 DEF Done
  <2>2. CASE sym # N - 1
    BY <1>1, <1>3, <2>2 DEF Done
  <2> QED BY <2>1, <2>2
<1>13. Done' = Done \cup (IF sym \in Used THEN {sym} ELSE {})
  <2>1. \A s \in Used : s < sym + 1 <=> s < sym \/ s = sym
    BY <1>2, <1>10 DEF Symbols
  <2>2. \A s : s \in Done' <=> s \in Used /\ (s < sym \/ s = sym)
    BY <1>12, <2>1
  <2>3. \A s : s \in Done <=> s \in Used /\ s < sym
    BY <1>10
  <2> QED BY ONLY <2>2, <2>3, Zenon
<1> QED BY <1>1, <1>2, <1>3, <1>4, <1>5, <1>7, <1>8, <1>9, <1>11, <1>13

(* Two symbols never cover the same key.                                     *)
LEMMA CoversOnce ==
  ASSUME BaseInv, CodesInv, phase \in {"fill", "built"},
         NEW s \in Used, NEW t \in Used, s # t, NEW key \in AllKeys, Covers(s, key)
  PROVE  ~ Covers(t, key)
<1>1. /\ From(s) \in Int /\ To(s) \in Int /\ From(t) \in Int /\ To(t) \in Int
  <2>1. code[s] \in Nat /\ code[t] \in Nat /\ Keys(lengths[s]) \in Nat /\ Keys(lengths[t]) \in Nat
    BY CodeFacts
  <2> QED BY <2>1 DEF From, To
<1>2. To(s) <= From(t) \/ To(t) <= From(s)
  BY DEF CodesInv
<1>3. key \in Int
  <2>1. MaxLen \in Nat
    BY MaxLenProperties, HuffmanTableAssumption DEF BaseInv, RedirectMarker
  <2>2. Pow2(MaxLen) \in Nat
    BY <2>1, Pow2Type
  <2> QED BY <2>2 DEF AllKeys
<1> QED BY <1>1, <1>2, <1>3 DEF Covers

(* A slot of the primary table a code is written to holds nothing yet.       *)
LEMMA DirectFresh ==
  ASSUME Inv, phase = "fill", sym \in Used, sym \notin Done, Done \subseteq Used,
         NEW p \in 0 .. Pow2(TopBits) - 1,
         \A key \in AllKeys : Top0(key) = p => Covers(sym, key)
  PROVE  primary[p] = ZeroEntry /\ subIdx[p] = -1
<1>1. BaseInv /\ CodesInv /\ phase \in {"fill", "built"} /\ FillInv
      /\ lengths \in [Symbols -> 0 .. MaxLength]
  BY DEF Inv, BaseInv
<1>2. ASSUME NEW s \in Done, NEW key \in AllKeys, Covers(s, key)
      PROVE  ~ Covers(sym, key)
  <2>1. s \in Used /\ s # sym
    OBVIOUS
  <2> QED BY <1>1, <1>2, <2>1, CoversOnce
<1>3. PICK key \in AllKeys : Top0(key) = p
  <2>1. 0 \in 0 .. Pow2(SubBits) - 1
    <3>1. Pow2(SubBits) \in Nat \ {0}
      BY <1>1, KeyParts, Pow2Type
    <3> QED BY <3>1
  <2> QED BY <1>1, <2>1, KeyParts
<1>4. ~ Direct(key)
  BY <1>2, <1>3 DEF Direct
<1>5. ~ Redirected(key)
  <2> SUFFICES ASSUME NEW s \in Done, lengths[s] > TopBits,
                      code[s] \div Pow2(lengths[s] - TopBits) = p
               PROVE  FALSE
    BY <1>3 DEF Redirected
  <2> DEFINE w == Pow2(SubBits - (lengths[s] - TopBits))
             base == (code[s] % Pow2(lengths[s] - TopBits)) * w
  <2>1. s \in Used
    OBVIOUS
  <2>2. /\ w \in Nat \ {0} /\ base \in Nat /\ base + w <= Pow2(SubBits)
        /\ \A k \in AllKeys : Covers(s, k) <=> Top0(k) = p /\ Rest(k) \in base .. base + w - 1
    BY <1>1, <2>1, DeferredCovers
  <2> HIDE DEF base, w
  <2>3. PICK k \in AllKeys : Top0(k) = p /\ Rest(k) = base
    <3>1. base \in 0 .. Pow2(SubBits) - 1
      <4>1. Pow2(SubBits) \in Nat
        BY <1>1, KeyParts, Pow2Type
      <4> QED BY <2>2, <4>1
    <3> QED BY <1>1, <3>1, KeyParts
  <2>4. Covers(s, k)
    BY <2>2, <2>3
  <2> QED BY <1>2, <2>3, <2>4
<1>6. Unset(key)
  BY <1>1, <1>4, <1>5 DEF FillInv
<1> QED BY <1>3, <1>6 DEF Unset

(* A key that the new code does not cover and whose slots stay as they are.  *)
LEMMA KeyKept ==
  ASSUME Inv, ForSymbol("fill", "built"), UNCHANGED <<cur, code>>,
         NEW key \in AllKeys, sym \in Used => ~ Covers(sym, key),
         primary'[Top0(key)] = primary[Top0(key)], subIdx'[Top0(key)] = subIdx[Top0(key)],
         subIdx[Top0(key)] \in 0 .. Len(secondary) - 1 =>
           /\ subIdx[Top0(key)] \in 0 .. Len(secondary') - 1
           /\ secondary'[subIdx[Top0(key)] + 1] = secondary[subIdx[Top0(key)] + 1]
  PROVE  /\ Unset(key) => Unset(key)'
         /\ Direct(key) => Direct(key)'
         /\ Redirected(key) => Redirected(key)'
<1>1. /\ Done' = Done \cup (IF sym \in Used THEN {sym} ELSE {}) /\ TopBits' = TopBits
      /\ Top0(key)' = Top0(key) /\ Rest(key)' = Rest(key)
      /\ \A s : Covers(s, key)' <=> Covers(s, key)
  BY FillFrame
<1>2. lengths' = lengths /\ code' = code
  BY DEF ForSymbol
<1>3. NoneCovers(key)' <=> NoneCovers(key)
  BY <1>1 DEF NoneCovers
<1>4. Unset(key) => Unset(key)'
  BY <1>1, <1>3 DEF Unset
<1>5. Direct(key) => Direct(key)'
  BY <1>1, <1>2 DEF Direct, Entry
<1>6. ASSUME Redirected(key) PROVE Redirected(key)'
  <2> DEFINE p == Top0(key)
  <2>1. /\ subIdx[p] \in 0 .. Len(secondary) - 1
        /\ primary[p] = Entry(subIdx[p], RedirectMarker)
        /\ Behind(secondary[subIdx[p] + 1], key)
    BY <1>6 DEF Redirected
  <2>2. PICK s \in Done : lengths[s] > TopBits /\ code[s] \div Pow2(lengths[s] - TopBits) = p
    BY <1>6 DEF Redirected
  <2>3. subIdx'[p] \in 0 .. Len(secondary') - 1 /\ primary'[p] = Entry(subIdx'[p], RedirectMarker)
        /\ secondary'[subIdx'[p] + 1] = secondary[subIdx[p] + 1]
    BY <2>1
  <2>4. \/ secondary[subIdx[p] + 1][Rest(key)] = ZeroEntry /\ NoneCovers(key)'
        \/ \E t \in Done' : /\ Covers(t, key)' /\ lengths'[t] > TopBits'
                           /\ secondary[subIdx[p] + 1][Rest(key)] = Entry(t, lengths'[t] - TopBits')
    BY <1>1, <1>2, <1>3, <2>1 DEF Behind
  <2>5. s \in Done' /\ lengths'[s] > TopBits' /\ code'[s] \div Pow2(lengths'[s] - TopBits') = p
    BY <1>1, <1>2, <2>2
  <2>6. Top0(key)' = p /\ Rest(key)' = Rest(key)
    BY <1>1
  <2>7. ZeroEntry' = ZeroEntry /\ \A x, y : Entry(x, y)' = Entry(x, y)
    BY DEF Entry, ZeroEntry
  <2> HIDE DEF p
  <2>8. \/ secondary'[subIdx'[p] + 1][Rest(key)'] = ZeroEntry /\ NoneCovers(key)'
        \/ \E t \in Done' : /\ Covers(t, key)' /\ lengths'[t] > TopBits'
                           /\ secondary'[subIdx'[p] + 1][Rest(key)'] = Entry(t, lengths'[t] - TopBits')
    BY <2>3, <2>4, <2>6, Zenon
  <2> QED BY <2>3, <2>5, <2>6, <2>8, Zenon DEF Redirected, Behind
<1> QED BY <1>4, <1>5, <1>6

LEMMA FillEntries ==
  ASSUME BaseInv, NEW s \in Used
  PROVE  /\ \A l \in 0 .. MaxLen : Entry(s, l) \in Entries
         /\ \A i \in Nat : Entry(i, RedirectMarker) \in Entries
         /\ ZeroEntry \in Entries
<1>1. s \in Nat /\ MaxLen <= MaxLength /\ MaxLength \in Nat /\ MaxLen \in Nat
  <2>1. s \in Nat
    BY HuffmanTableAssumption DEF Used, Symbols
  <2>2. lengths \in [Symbols -> 0 .. MaxLength] /\ MaxLength \in Nat
    BY HuffmanTableAssumption DEF BaseInv, RedirectMarker
  <2> QED BY <2>1, <2>2, MaxLenProperties
<1>2. \A l \in 0 .. MaxLen : l \in 0 .. MaxLength
  BY <1>1
<1> QED BY <1>1, <1>2 DEF Entry, Entries, ZeroEntry

LEMMA SkipStep == Inv /\ SkipUnused => Inv'
<1> SUFFICES ASSUME Inv, SkipUnused PROVE Inv'
  OBVIOUS
<1>1. /\ ForSymbol("fill", "built") /\ UNCHANGED <<cur, code>>
      /\ UNCHANGED <<primary, secondary, subIdx>> /\ lengths[sym] = 0 /\ sym \notin Used
  BY DEF SkipUnused, Used
<1>2. /\ BaseInv' /\ TierInv' /\ NumberInv' /\ CodesInv' /\ KraftDecides'
      /\ TopBits' = TopBits /\ SubBits' = SubBits /\ AllKeys' = AllKeys
      /\ \A key : Top0(key)' = Top0(key)
  BY <1>1, FillFrame
<1>3. FillInv
  BY DEF Inv
<1>4. ASSUME NEW key \in AllKeys
      PROVE  Unset(key)' \/ (Direct(key)' /\ subIdx'[Top0(key)'] = -1) \/ Redirected(key)'
  <2>1. Unset(key) \/ (Direct(key) /\ subIdx[Top0(key)] = -1) \/ Redirected(key)
    BY <1>3 DEF FillInv
  <2>2. /\ Unset(key) => Unset(key)'
        /\ Direct(key) => Direct(key)'
        /\ Redirected(key) => Redirected(key)'
    BY <1>1, KeyKept
  <2> QED BY <1>1, <1>2, <2>1, <2>2
<1>5. FillInv'
  <2>1. /\ primary \in Tables(TopBits) /\ secondary \in Seq(Tables(SubBits))
        /\ subIdx \in [0 .. Pow2(TopBits) - 1 -> Int]
        /\ \A p, q \in 0 .. Pow2(TopBits) - 1 : subIdx[p] = subIdx[q] /\ subIdx[p] >= 0 => p = q
    BY <1>3 DEF FillInv
  <2>2. Tables(TopBits)' = Tables(TopBits) /\ Tables(SubBits)' = Tables(SubBits)
    BY <1>2 DEF Tables
  <2> QED BY <1>1, <1>2, <1>4, <2>1, <2>2 DEF FillInv
<1> QED BY <1>2, <1>5 DEF Inv

(* A whole code: it is written to slots that held nothing. *)
LEMMA TerminalFacts ==
  ASSUME Inv, FillTerminal,
         NEW w, w = Pow2(TopBits - lengths[sym]), NEW base, base = code[sym] * w
  PROVE  /\ sym \in Used /\ sym \notin Done
         /\ w \in Nat \ {0} /\ base \in Nat /\ base + w <= Pow2(TopBits)
         /\ \A key \in AllKeys : Covers(sym, key) <=> Top0(key) \in base .. base + w - 1
         /\ \A p \in base .. base + w - 1 : primary[p] = ZeroEntry /\ subIdx[p] = -1
         /\ primary \in Tables(TopBits)
         /\ primary' = [p \in 0 .. Pow2(TopBits) - 1 |->
                          IF p \in base .. base + w - 1 THEN Entry(sym, lengths[sym]) ELSE primary[p]]
<1>1. /\ ForSymbol("fill", "built") /\ UNCHANGED <<cur, code>> /\ lengths[sym] \in 1 .. TopBits
      /\ primary' = Spread(primary, base, TopBits - lengths[sym], Entry(sym, lengths[sym]))
  BY DEF FillTerminal
<1>2. /\ lengths \in [Symbols -> 0 .. MaxLength] /\ phase = "fill" /\ sym \in Symbols
      /\ Done \subseteq Used /\ sym \notin Done
  BY <1>1, FillFrame
<1>3. TopBits \in Nat /\ Pow2(TopBits) \in Nat
  BY <1>2, KeyParts, Pow2Type
<1>4. sym \in Used /\ lengths[sym] <= TopBits
  BY <1>1, <1>2, <1>3 DEF Used
<1>5. /\ w \in Nat \ {0} /\ base \in Nat /\ base + w <= Pow2(TopBits)
      /\ \A key \in AllKeys : Covers(sym, key) <=> Top0(key) \in base .. base + w - 1
  BY <1>2, <1>4, DirectCovers DEF Inv
<1>6. ASSUME NEW p \in base .. base + w - 1 PROVE primary[p] = ZeroEntry /\ subIdx[p] = -1
  <2>1. p \in 0 .. Pow2(TopBits) - 1
    BY <1>3, <1>5
  <2>2. \A key \in AllKeys : Top0(key) = p => Covers(sym, key)
    BY <1>5
  <2> QED BY <1>2, <1>4, <2>1, <2>2, DirectFresh
<1>7. primary \in [0 .. Pow2(TopBits) - 1 -> Entries]
  BY DEF Inv, FillInv, Tables
<1>8. primary' = [p \in 0 .. Pow2(TopBits) - 1 |->
                    IF p \in base .. base + w - 1 THEN Entry(sym, lengths[sym]) ELSE primary[p]]
  <2>1. base \in Nat /\ w \in Nat /\ base + w <= Pow2(TopBits)
    BY <1>5
  <2>2. DOMAIN primary \cup base .. base + w - 1 = 0 .. Pow2(TopBits) - 1
    BY <1>3, <1>7, <2>1
  <2> QED BY <1>1, <2>2 DEF Spread
<1> QED BY <1>2, <1>4, <1>5, <1>6, <1>7, <1>8 DEF Tables

LEMMA TerminalStep == Inv /\ FillTerminal => Inv'
<1> SUFFICES ASSUME Inv, FillTerminal PROVE Inv'
  OBVIOUS
<1> DEFINE w == Pow2(TopBits - lengths[sym])
           base == code[sym] * w
           R == base .. base + w - 1
           e == Entry(sym, lengths[sym])
<1>1. /\ ForSymbol("fill", "built") /\ UNCHANGED <<cur, code>> /\ UNCHANGED <<secondary, subIdx>>
      /\ lengths[sym] \in 1 .. TopBits /\ lengths' = lengths
  BY DEF FillTerminal, ForSymbol
<1>2. /\ BaseInv' /\ TierInv' /\ NumberInv' /\ CodesInv' /\ KraftDecides'
      /\ lengths \in [Symbols -> 0 .. MaxLength]
      /\ Done' = Done \cup (IF sym \in Used THEN {sym} ELSE {})
      /\ TopBits' = TopBits /\ SubBits' = SubBits /\ AllKeys' = AllKeys
      /\ \A key : Top0(key)' = Top0(key) /\ Rest(key)' = Rest(key)
      /\ \A s, key : Covers(s, key)' <=> Covers(s, key)
  BY <1>1, FillFrame
<1>3. FillInv /\ BaseInv
  BY DEF Inv
<1>4. /\ sym \in Used /\ sym \notin Done
      /\ w \in Nat \ {0} /\ base \in Nat /\ base + w <= Pow2(TopBits)
      /\ \A key \in AllKeys : Covers(sym, key) <=> Top0(key) \in R
      /\ \A p \in R : primary[p] = ZeroEntry /\ subIdx[p] = -1
      /\ primary \in Tables(TopBits)
      /\ primary' = [p \in 0 .. Pow2(TopBits) - 1 |-> IF p \in R THEN e ELSE primary[p]]
  BY TerminalFacts
<1>5. TopBits \in Nat /\ TopBits <= MaxLen /\ MaxLen \in Nat
  BY <1>2, KeyParts
<1>6. e \in Entries
  BY <1>1, <1>3, <1>4, <1>5, FillEntries
<1> HIDE DEF w, base, R, e
<1>7. ASSUME NEW key \in AllKeys
      PROVE  Unset(key)' \/ (Direct(key)' /\ subIdx'[Top0(key)'] = -1) \/ Redirected(key)'
  <2> DEFINE p == Top0(key)
  <2>1. p \in 0 .. Pow2(TopBits) - 1
    BY <1>2, KeyParts
  <2>2. CASE p \in R
    <3>1. PICK s : s = sym
      OBVIOUS
    <3>2. Top0(key)' = p /\ primary'[p] = e /\ subIdx'[p] = -1 /\ Covers(s, key)' /\ s \in Done'
      BY <1>1, <1>2, <1>4, <2>1, <2>2, <3>1
    <3>3. primary'[Top0(key)'] = Entry(s, lengths'[s]) /\ subIdx'[Top0(key)'] = -1
      BY <1>1, <3>1, <3>2 DEF e
    <3>4. lengths'[s] <= TopBits'
      BY <1>1, <1>2, <1>5, <3>1
    <3>5. Direct(key)'
      BY <3>2, <3>3, <3>4 DEF Direct, Entry
    <3> QED BY <3>3, <3>5
  <2>3. CASE p \notin R
    <3>1. primary'[p] = primary[p] /\ ~ Covers(sym, key)
      BY <1>4, <2>1, <2>3
    <3>2. Unset(key) \/ (Direct(key) /\ subIdx[p] = -1) \/ Redirected(key)
      BY <1>3 DEF FillInv
    <3>3. /\ Unset(key) => Unset(key)'
          /\ Direct(key) => Direct(key)'
          /\ Redirected(key) => Redirected(key)'
      BY <1>1, <3>1, KeyKept
    <3> QED BY <1>1, <1>2, <3>2, <3>3
  <2> QED BY <2>2, <2>3
<1>8. FillInv'
  <2>1. /\ secondary \in Seq(Tables(SubBits))
        /\ subIdx \in [0 .. Pow2(TopBits) - 1 -> Int]
        /\ \A p, q \in 0 .. Pow2(TopBits) - 1 : subIdx[p] = subIdx[q] /\ subIdx[p] >= 0 => p = q
    BY <1>3 DEF FillInv
  <2>2. Tables(TopBits)' = Tables(TopBits) /\ Tables(SubBits)' = Tables(SubBits)
    BY <1>2 DEF Tables
  <2>3. primary' \in Tables(TopBits)
    BY <1>4, <1>6 DEF Tables
  <2> QED BY <1>1, <1>2, <1>7, <2>1, <2>2, <2>3 DEF FillInv
<1> QED BY <1>2, <1>8 DEF Inv

(* A prefix a longer code begins with either has no subtable and no entry,   *)
(* or redirects: no shorter code holds it.                                   *)
LEMMA PrefixState ==
  ASSUME Inv, phase = "fill", sym \in Used, sym \notin Done, Done \subseteq Used,
         NEW k \in AllKeys, Covers(sym, k), NEW p, Top0(k) = p
  PROVE  \/ /\ subIdx[p] = -1 /\ primary[p] = ZeroEntry
            /\ \A key \in AllKeys : Top0(key) = p => Unset(key)
         \/ /\ subIdx[p] \in 0 .. Len(secondary) - 1
            /\ primary[p] = Entry(subIdx[p], RedirectMarker)
            /\ \A key \in AllKeys : Top0(key) = p => Redirected(key)
<1>1. /\ BaseInv /\ CodesInv /\ phase \in {"fill", "built"} /\ FillInv
      /\ lengths \in [Symbols -> 0 .. MaxLength]
  BY DEF Inv, BaseInv
<1>2. ASSUME NEW key \in AllKeys, Top0(key) = p PROVE ~ Direct(key)
  <2> SUFFICES ASSUME NEW s \in Done, Covers(s, key), lengths[s] <= TopBits PROVE FALSE
    BY DEF Direct
  <2> DEFINE w == Pow2(TopBits - lengths[s])
             base == code[s] * w
  <2>1. s \in Used /\ s # sym
    OBVIOUS
  <2>2. \A x \in AllKeys : Covers(s, x) <=> Top0(x) \in base .. base + w - 1
    BY <1>1, <2>1, DirectCovers
  <2>3. Covers(s, k)
    BY <1>2, <2>2
  <2> QED BY <1>1, <2>1, <2>3, CoversOnce
<1>3. \A key \in AllKeys : Top0(key) = p => Unset(key) \/ Redirected(key)
  BY <1>1, <1>2 DEF FillInv
<1>4. ASSUME NEW key \in AllKeys, Top0(key) = p
      PROVE  /\ Unset(key) => subIdx[p] = -1 /\ primary[p] = ZeroEntry
             /\ Redirected(key) => /\ subIdx[p] \in 0 .. Len(secondary) - 1
                                   /\ primary[p] = Entry(subIdx[p], RedirectMarker)
  BY <1>4 DEF Unset, Redirected
<1>5. Len(secondary) \in Nat
  BY <1>1 DEF FillInv
<1>6. CASE Unset(k)
  <2>1. subIdx[p] = -1 /\ primary[p] = ZeroEntry
    BY <1>4, <1>6
  <2>2. \A key \in AllKeys : Top0(key) = p => Unset(key)
    BY <1>3, <1>4, <1>5, <2>1
  <2> QED BY <2>1, <2>2
<1>7. CASE Redirected(k)
  <2>1. subIdx[p] \in 0 .. Len(secondary) - 1 /\ primary[p] = Entry(subIdx[p], RedirectMarker)
    BY <1>4, <1>7
  <2>2. \A key \in AllKeys : Top0(key) = p => Redirected(key)
    BY <1>3, <1>4, <1>5, <2>1
  <2> QED BY <2>1, <2>2
<1> QED BY <1>3, <1>6, <1>7

(* Every subtable index is that of a subtable. *)
LEMMA SubIdxRange ==
  ASSUME BaseInv, FillInv
  PROVE  \A p \in 0 .. Pow2(TopBits) - 1 : subIdx[p] \in -1 .. Len(secondary) - 1
<1> SUFFICES ASSUME NEW p \in 0 .. Pow2(TopBits) - 1
             PROVE  subIdx[p] \in -1 .. Len(secondary) - 1
  OBVIOUS
<1>1. lengths \in [Symbols -> 0 .. MaxLength] /\ Len(secondary) \in Nat
  BY DEF BaseInv, FillInv
<1>2. PICK key \in AllKeys : Top0(key) = p
  <2>1. 0 \in 0 .. Pow2(SubBits) - 1
    <3>1. Pow2(SubBits) \in Nat \ {0}
      BY <1>1, KeyParts, Pow2Type
    <3> QED BY <3>1
  <2> QED BY <1>1, <2>1, KeyParts
<1>3. subIdx[p] = -1 \/ subIdx[p] \in 0 .. Len(secondary) - 1
  BY <1>2 DEF FillInv, Unset, Redirected
<1> QED BY <1>1, <1>3

(* A longer code: the subtable behind its prefix, with the slots of the      *)
(* code's other bits, which held nothing.                                    *)
LEMMA DeferredFacts ==
  ASSUME Inv, FillDeferred,
         NEW d, d = Pow2(lengths[sym] - TopBits),
         NEW w, w = Pow2(SubBits - (lengths[sym] - TopBits)),
         NEW prefix, prefix = code[sym] \div d,
         NEW base, base = (code[sym] % d) * w,
         NEW table, table = (IF subIdx[prefix] < 0 THEN Zeroed(SubBits)
                             ELSE secondary[subIdx[prefix] + 1]),
         NEW sub, sub = SubtableOf(prefix)
  PROVE  /\ sym \in Used /\ sym \notin Done /\ prefix \in 0 .. Pow2(TopBits) - 1
         /\ \A key \in AllKeys :
              Covers(sym, key) <=> Top0(key) = prefix /\ Rest(key) \in base .. base + w - 1
         /\ \/ /\ subIdx[prefix] = -1 /\ primary[prefix] = ZeroEntry /\ sub = Len(secondary)
               /\ \A key \in AllKeys : Top0(key) = prefix => Unset(key)
            \/ /\ subIdx[prefix] \in 0 .. Len(secondary) - 1 /\ sub = subIdx[prefix]
               /\ primary[prefix] = Entry(sub, RedirectMarker)
               /\ \A key \in AllKeys : Top0(key) = prefix => Redirected(key)
         /\ table \in Tables(SubBits)
         /\ \A r \in base .. base + w - 1 : r \in 0 .. Pow2(SubBits) - 1 /\ table[r] = ZeroEntry
         /\ secondary' \in Seq(Tables(SubBits)) /\ Len(secondary) <= Len(secondary')
         /\ sub \in 0 .. Len(secondary') - 1
         /\ \A i \in 1 .. Len(secondary) : i # sub + 1 => secondary'[i] = secondary[i]
         /\ secondary'[sub + 1] =
              [r \in 0 .. Pow2(SubBits) - 1 |->
                 IF r \in base .. base + w - 1 THEN Entry(sym, lengths[sym] - TopBits) ELSE table[r]]
<1> DEFINE e == Entry(sym, lengths[sym] - TopBits)
           R == base .. base + w - 1
           tables == IF sub = Len(secondary) THEN Append(secondary, Zeroed(SubBits)) ELSE secondary
           wider(t) == [r \in 0 .. Pow2(SubBits) - 1 |-> IF r \in R THEN e ELSE t[r]]
<1>1. /\ ForSymbol("fill", "built") /\ UNCHANGED <<cur, code>> /\ lengths[sym] > TopBits
      /\ secondary' = [tables EXCEPT
           ![sub + 1] = Spread(@, base, SubBits - (lengths[sym] - TopBits), e)]
  BY DEF FillDeferred
<1>2. /\ lengths \in [Symbols -> 0 .. MaxLength] /\ phase = "fill" /\ sym \in Symbols
      /\ Done \subseteq Used /\ sym \notin Done
  BY <1>1, FillFrame
<1>3. /\ TopBits \in Nat /\ SubBits \in Nat /\ TopBits + SubBits = MaxLen
      /\ Pow2(TopBits) \in Nat /\ Pow2(SubBits) \in Nat \ {0}
  BY <1>2, KeyParts, Pow2Type
<1>4. /\ BaseInv /\ CodesInv /\ FillInv /\ phase \in {"fill", "built"}
      /\ secondary \in Seq(Tables(SubBits)) /\ Len(secondary) \in Nat
  BY <1>2 DEF Inv, FillInv
<1>5. sym \in Used /\ lengths[sym] \in Nat /\ lengths[sym] <= MaxLen
  BY <1>1, <1>2, <1>3, MaxLenProperties DEF Used
<1>6. /\ w \in Nat \ {0} /\ base \in Nat /\ base + w <= Pow2(SubBits)
      /\ prefix \in 0 .. Pow2(TopBits) - 1
      /\ \A key \in AllKeys : Covers(sym, key) <=> Top0(key) = prefix /\ Rest(key) \in R
  BY <1>1, <1>4, <1>5, DeferredCovers
<1>7. R \subseteq 0 .. Pow2(SubBits) - 1 /\ base \in R
  BY <1>3, <1>6
<1>8. ASSUME NEW r \in R
      PROVE  LET key == prefix * Pow2(SubBits) + r
             IN  key \in AllKeys /\ Top0(key) = prefix /\ Rest(key) = r /\ Covers(sym, key)
  <2>1. r \in 0 .. Pow2(SubBits) - 1
    BY <1>7
  <2> QED BY <1>2, <1>6, <2>1, KeyParts
<1>9. \/ /\ subIdx[prefix] = -1 /\ primary[prefix] = ZeroEntry
         /\ \A key \in AllKeys : Top0(key) = prefix => Unset(key)
      \/ /\ subIdx[prefix] \in 0 .. Len(secondary) - 1
         /\ primary[prefix] = Entry(subIdx[prefix], RedirectMarker)
         /\ \A key \in AllKeys : Top0(key) = prefix => Redirected(key)
  <2>1. PICK k \in AllKeys : Top0(k) = prefix /\ Covers(sym, k)
    BY <1>7, <1>8
  <2> QED BY <1>2, <1>5, <2>1, PrefixState
<1>10. \/ /\ subIdx[prefix] = -1 /\ primary[prefix] = ZeroEntry /\ sub = Len(secondary)
          /\ \A key \in AllKeys : Top0(key) = prefix => Unset(key)
       \/ /\ subIdx[prefix] \in 0 .. Len(secondary) - 1 /\ sub = subIdx[prefix]
          /\ primary[prefix] = Entry(sub, RedirectMarker)
          /\ \A key \in AllKeys : Top0(key) = prefix => Redirected(key)
  <2>1. subIdx[prefix] = -1 => sub = Len(secondary)
    BY DEF SubtableOf
  <2>2. subIdx[prefix] \in 0 .. Len(secondary) - 1 => sub = subIdx[prefix]
    BY <1>4 DEF SubtableOf
  <2> QED BY <1>9, <2>1, <2>2
<1>11. Zeroed(SubBits) \in Tables(SubBits)
  BY <1>4, <1>5, FillEntries DEF Zeroed, Tables
<1>12. table \in Tables(SubBits)
  <2>1. CASE subIdx[prefix] = -1
    BY <1>11, <2>1
  <2>2. CASE subIdx[prefix] \in 0 .. Len(secondary) - 1
    <3>1. table = secondary[subIdx[prefix] + 1] /\ subIdx[prefix] + 1 \in 1 .. Len(secondary)
      BY <1>4, <2>2
    <3> QED BY <1>4, <3>1
  <2> QED BY <1>10, <2>1, <2>2
<1>13. ASSUME NEW r \in R PROVE table[r] = ZeroEntry
  <2> DEFINE key == prefix * Pow2(SubBits) + r
  <2>1. key \in AllKeys /\ Top0(key) = prefix /\ Rest(key) = r /\ Covers(sym, key)
    BY <1>8
  <2>2. r \in 0 .. Pow2(SubBits) - 1
    BY <1>7
  <2> HIDE DEF key
  <2>3. CASE subIdx[prefix] = -1
    BY <2>2, <2>3 DEF Zeroed
  <2>4. CASE subIdx[prefix] \in 0 .. Len(secondary) - 1
    <3>1. Redirected(key) /\ table = secondary[subIdx[prefix] + 1]
      BY <1>4, <1>10, <2>1, <2>4
    <3>2. Behind(table, key)
      BY <2>1, <3>1 DEF Redirected
    <3>3. ASSUME NEW s \in Done PROVE ~ Covers(s, key)
      <4>1. s \in Used /\ s # sym
        BY <1>2
      <4> QED BY <1>4, <1>5, <2>1, <4>1, CoversOnce
    <3> QED BY <2>1, <3>2, <3>3 DEF Behind
  <2> QED BY <1>10, <2>3, <2>4
<1>14. /\ tables \in Seq(Tables(SubBits)) /\ Len(secondary) <= Len(tables)
       /\ sub \in 0 .. Len(tables) - 1 /\ tables[sub + 1] = table
       /\ \A i \in 1 .. Len(secondary) : i # sub + 1 => tables[i] = secondary[i]
  <2>1. CASE sub = Len(secondary)
    <3>1. tables = Append(secondary, Zeroed(SubBits)) /\ table = Zeroed(SubBits)
      BY <1>4, <1>10, <2>1
    <3> HIDE DEF tables
    <3> QED BY <1>4, <1>11, <2>1, <3>1
  <2>2. CASE sub # Len(secondary)
    <3>1. tables = secondary /\ table = secondary[sub + 1] /\ sub \in 0 .. Len(secondary) - 1
      BY <1>4, <1>10, <2>2
    <3> HIDE DEF tables
    <3> QED BY <1>4, <3>1
  <2> QED BY <2>1, <2>2
<1>15. Spread(table, base, SubBits - (lengths[sym] - TopBits), e) = wider(table)
  <2>1. DOMAIN table \cup R = 0 .. Pow2(SubBits) - 1
    BY <1>7, <1>12 DEF Tables
  <2> QED BY <2>1 DEF Spread
<1>16. wider(table) \in Tables(SubBits)
  <2>1. lengths[sym] - TopBits \in 0 .. MaxLen
    <3>1. lengths[sym] > TopBits
      BY <1>1
    <3>2. lengths[sym] \in Nat /\ lengths[sym] <= MaxLen
      BY <1>5
    <3>3. TopBits \in Nat /\ SubBits \in Nat /\ TopBits + SubBits = MaxLen
      BY <1>3
    <3> QED BY ONLY <3>1, <3>2, <3>3
  <2>2. e \in Entries
    BY <1>4, <1>5, <2>1, FillEntries
  <2> HIDE DEF e, R
  <2> QED BY <1>12, <2>2 DEF Tables
<1>17. secondary' = [tables EXCEPT ![sub + 1] = wider(table)]
  BY <1>1, <1>14, <1>15
<1> HIDE DEF tables, wider
<1>18. /\ secondary' \in Seq(Tables(SubBits)) /\ Len(secondary') = Len(tables)
       /\ secondary'[sub + 1] = wider(table)
       /\ \A i \in 1 .. Len(secondary) : i # sub + 1 => secondary'[i] = secondary[i]
  BY <1>4, <1>14, <1>16, <1>17
<1> QED BY <1>2, <1>5, <1>6, <1>7, <1>10, <1>12, <1>13, <1>14, <1>18 DEF wider, e

LEMMA DeferredStep == Inv /\ FillDeferred => Inv'
<1> SUFFICES ASSUME Inv, FillDeferred PROVE Inv'
  OBVIOUS
<1> DEFINE d == Pow2(lengths[sym] - TopBits)
           w == Pow2(SubBits - (lengths[sym] - TopBits))
           prefix == code[sym] \div d
           base == (code[sym] % d) * w
           R == base .. base + w - 1
           table == IF subIdx[prefix] < 0 THEN Zeroed(SubBits) ELSE secondary[subIdx[prefix] + 1]
           sub == SubtableOf(prefix)
           e == Entry(sym, lengths[sym] - TopBits)
<1>1. /\ ForSymbol("fill", "built") /\ UNCHANGED <<cur, code>>
      /\ lengths[sym] > TopBits /\ lengths' = lengths /\ code' = code
      /\ primary' = [primary EXCEPT ![prefix] = Entry(sub, RedirectMarker)]
      /\ subIdx' = [subIdx EXCEPT ![prefix] = sub]
  BY DEF FillDeferred, ForSymbol
<1>2. /\ BaseInv' /\ TierInv' /\ NumberInv' /\ CodesInv' /\ KraftDecides'
      /\ lengths \in [Symbols -> 0 .. MaxLength]
      /\ Done' = Done \cup (IF sym \in Used THEN {sym} ELSE {})
      /\ TopBits' = TopBits /\ SubBits' = SubBits /\ AllKeys' = AllKeys
      /\ \A key : Top0(key)' = Top0(key) /\ Rest(key)' = Rest(key)
      /\ \A s, key : Covers(s, key)' <=> Covers(s, key)
  BY <1>1, FillFrame
<1>3. /\ FillInv /\ BaseInv
      /\ primary \in Tables(TopBits) /\ secondary \in Seq(Tables(SubBits)) /\ Len(secondary) \in Nat
      /\ subIdx \in [0 .. Pow2(TopBits) - 1 -> Int]
      /\ \A p, q \in 0 .. Pow2(TopBits) - 1 : subIdx[p] = subIdx[q] /\ subIdx[p] >= 0 => p = q
  BY DEF Inv, FillInv
<1>4. /\ sym \in Used /\ sym \notin Done /\ prefix \in 0 .. Pow2(TopBits) - 1
      /\ \A key \in AllKeys : Covers(sym, key) <=> Top0(key) = prefix /\ Rest(key) \in R
      /\ \/ /\ subIdx[prefix] = -1 /\ primary[prefix] = ZeroEntry /\ sub = Len(secondary)
            /\ \A key \in AllKeys : Top0(key) = prefix => Unset(key)
         \/ /\ subIdx[prefix] \in 0 .. Len(secondary) - 1 /\ sub = subIdx[prefix]
            /\ primary[prefix] = Entry(sub, RedirectMarker)
            /\ \A key \in AllKeys : Top0(key) = prefix => Redirected(key)
      /\ table \in Tables(SubBits)
      /\ \A r \in R : r \in 0 .. Pow2(SubBits) - 1 /\ table[r] = ZeroEntry
      /\ secondary' \in Seq(Tables(SubBits)) /\ Len(secondary) <= Len(secondary')
      /\ sub \in 0 .. Len(secondary') - 1
      /\ \A i \in 1 .. Len(secondary) : i # sub + 1 => secondary'[i] = secondary[i]
      /\ secondary'[sub + 1] =
           [r \in 0 .. Pow2(SubBits) - 1 |-> IF r \in R THEN e ELSE table[r]]
  BY DeferredFacts
<1>5. \A p \in 0 .. Pow2(TopBits) - 1 : subIdx[p] \in -1 .. Len(secondary) - 1
  BY <1>3, SubIdxRange
<1>6. subIdx[prefix] = -1 => table = Zeroed(SubBits)
  OBVIOUS
<1>7. subIdx[prefix] \in 0 .. Len(secondary) - 1 => table = secondary[subIdx[prefix] + 1]
  BY <1>3
<1>8. e = Entry(sym, lengths[sym] - TopBits) /\ prefix = code[sym] \div Pow2(lengths[sym] - TopBits)
  OBVIOUS
<1> HIDE DEF d, w, prefix, base, R, table, sub, e
<1>9. \A p \in 0 .. Pow2(TopBits) - 1 : p # prefix => subIdx[p] # sub
  BY <1>3, <1>4, <1>5
<1>10. /\ subIdx' \in [0 .. Pow2(TopBits) - 1 -> Int]
       /\ subIdx'[prefix] = sub
       /\ \A p \in 0 .. Pow2(TopBits) - 1 : p # prefix => subIdx'[p] = subIdx[p]
  <2>1. sub \in Int
    BY <1>4
  <2> QED BY <1>1, <1>3, <1>4, <2>1
<1>11. /\ primary' \in Tables(TopBits)
       /\ primary'[prefix] = Entry(sub, RedirectMarker)
       /\ \A p \in 0 .. Pow2(TopBits) - 1 : p # prefix => primary'[p] = primary[p]
  <2>1. sub \in Nat
    BY <1>4
  <2>2. Entry(sub, RedirectMarker) \in Entries
    BY <1>3, <1>4, <2>1, FillEntries
  <2> QED BY <1>1, <1>3, <1>4, <2>2 DEF Tables
<1>12. \A p, q \in 0 .. Pow2(TopBits) - 1 : subIdx'[p] = subIdx'[q] /\ subIdx'[p] >= 0 => p = q
  BY <1>3, <1>9, <1>10
<1>13. ASSUME NEW key \in AllKeys, Top0(key) # prefix
       PROVE  Unset(key)' \/ (Direct(key)' /\ subIdx'[Top0(key)'] = -1) \/ Redirected(key)'
  <2> DEFINE p == Top0(key)
  <2>1. p \in 0 .. Pow2(TopBits) - 1 /\ p # prefix
    BY <1>2, <1>13, KeyParts
  <2>2. ~ Covers(sym, key) /\ primary'[p] = primary[p] /\ subIdx'[p] = subIdx[p]
    BY <1>4, <1>10, <1>11, <2>1
  <2>3. subIdx[p] \in 0 .. Len(secondary) - 1 =>
          /\ subIdx[p] \in 0 .. Len(secondary') - 1
          /\ secondary'[subIdx[p] + 1] = secondary[subIdx[p] + 1]
    <3> SUFFICES ASSUME subIdx[p] \in 0 .. Len(secondary) - 1
                 PROVE  /\ subIdx[p] \in 0 .. Len(secondary') - 1
                        /\ secondary'[subIdx[p] + 1] = secondary[subIdx[p] + 1]
      OBVIOUS
    <3>1. subIdx[p] # sub
      BY <1>9, <2>1
    <3>2. Len(secondary') \in Nat /\ sub \in Int
      BY <1>4
    <3>3. subIdx[p] + 1 \in 1 .. Len(secondary) /\ subIdx[p] + 1 # sub + 1
      BY <1>3, <3>1, <3>2
    <3> QED BY <1>3, <1>4, <3>2, <3>3
  <2>4. Unset(key) \/ (Direct(key) /\ subIdx[p] = -1) \/ Redirected(key)
    BY <1>3 DEF FillInv
  <2>5. /\ Unset(key) => Unset(key)'
        /\ Direct(key) => Direct(key)'
        /\ Redirected(key) => Redirected(key)'
    BY <1>1, <2>2, <2>3, KeyKept
  <2> QED BY <1>2, <2>2, <2>4, <2>5
<1>14. ASSUME NEW key \in AllKeys, Top0(key) = prefix PROVE Redirected(key)'
  <2>1. PICK s : s = sym
    OBVIOUS
  <2>2. PICK p : p = prefix
    OBVIOUS
  <2>3. PICK r \in 0 .. Pow2(SubBits) - 1 : r = Rest(key)
    BY <1>2, KeyParts
  <2>4. /\ s \in Done' /\ lengths'[s] > TopBits'
        /\ code'[s] \div Pow2(lengths'[s] - TopBits') = p
    BY <1>1, <1>2, <1>4, <1>8, <2>1, <2>2
  <2>5. /\ Top0(key)' = p /\ Rest(key)' = r
        /\ subIdx'[p] \in 0 .. Len(secondary') - 1
        /\ primary'[p] = Entry(subIdx'[p], RedirectMarker)
    BY <1>2, <1>4, <1>10, <1>11, <1>14, <2>2, <2>3
  <2>6. secondary'[subIdx'[p] + 1][r] = IF r \in R THEN e ELSE table[r]
    BY <1>4, <1>10, <2>2, <2>3
  <2>7. \/ secondary'[subIdx'[p] + 1][r] = ZeroEntry /\ NoneCovers(key)'
        \/ \E t \in Done' : /\ Covers(t, key)' /\ lengths'[t] > TopBits'
                            /\ secondary'[subIdx'[p] + 1][r] = Entry(t, lengths'[t] - TopBits')
    <3>1. CASE r \in R
      <4>1. Covers(s, key)'
        BY <1>2, <1>4, <1>14, <2>1, <2>3, <3>1
      <4>2. secondary'[subIdx'[p] + 1][r] = Entry(s, lengths'[s] - TopBits')
        BY <1>1, <1>2, <1>8, <2>1, <2>6, <3>1
      <4> QED BY <2>4, <4>1, <4>2
    <3>2. CASE r \notin R
      <4>1. secondary'[subIdx'[p] + 1][r] = table[r] /\ ~ Covers(sym, key)
        BY <1>4, <2>3, <2>6, <3>2
      <4>2. NoneCovers(key)' <=> NoneCovers(key)
        BY <1>2, <4>1 DEF NoneCovers
      <4>3. CASE Unset(key)
        <5>1. subIdx[prefix] = -1 /\ NoneCovers(key)
          BY <1>14, <4>3 DEF Unset
        <5>2. table[r] = ZeroEntry
          BY <1>6, <5>1 DEF Zeroed
        <5> QED BY <4>1, <4>2, <5>1, <5>2
      <4>4. CASE Redirected(key)
        <5>1. Behind(table, key)
          BY <1>7, <1>14, <4>4 DEF Redirected
        <5>2. \/ table[r] = ZeroEntry /\ NoneCovers(key)
              \/ \E t \in Done : /\ Covers(t, key) /\ lengths[t] > TopBits
                                 /\ table[r] = Entry(t, lengths[t] - TopBits)
          BY <2>3, <5>1 DEF Behind
        <5> QED BY <1>1, <1>2, <4>1, <4>2, <5>2
      <4> QED BY <1>4, <1>14, <4>3, <4>4
    <3> QED BY <3>1, <3>2
  <2> QED BY <2>4, <2>5, <2>7, Zenon DEF Redirected, Behind
<1>15. FillInv'
  <2>1. \A key \in AllKeys :
          Unset(key)' \/ (Direct(key)' /\ subIdx'[Top0(key)'] = -1) \/ Redirected(key)'
    BY <1>13, <1>14
  <2>2. Tables(TopBits)' = Tables(TopBits) /\ Tables(SubBits)' = Tables(SubBits)
    BY <1>2 DEF Tables
  <2> QED BY <1>2, <1>4, <1>10, <1>11, <1>12, <2>1, <2>2 DEF FillInv
<1> QED BY <1>2, <1>15 DEF Inv

(* A stutter. *)
LEMMA StutterStep == Inv /\ UNCHANGED vars => Inv'
<1> SUFFICES ASSUME Inv, UNCHANGED vars PROVE Inv'
  OBVIOUS
<1>1. UNCHANGED <<lengths, phase, tier, acc, cur, sym, code, primary, secondary, subIdx>>
  BY DEF vars
<1>2. /\ MaxLen' = MaxLen /\ TopBits' = TopBits /\ SubBits' = SubBits
      /\ Used' = Used /\ KraftSum' = KraftSum
      /\ \A l : BlCount(l)' = BlCount(l)
      /\ \A l, k : CountBelow(l, k)' = CountBelow(l, k)
      /\ \A t : Keys(t)' = Keys(t)
      /\ \A t : TakenAbove(t)' = TakenAbove(t)
  BY <1>1, SameLengths
<1>3. /\ Signed' = Signed /\ (\A t : End(cur, t)' = End(cur, t))
      /\ \A start, t : End(start, t)' = End(start, t)
  BY <1>1, <1>2 DEF Signed, End
<1>4. (\A lo : Placed(cur, lo)' <=> Placed(cur, lo)) /\ (\A start, lo : Placed(start, lo)' <=> Placed(start, lo))
  BY <1>1, <1>2, <1>3 DEF Placed
<1>5. (\A s : From(s)' = From(s) /\ To(s)' = To(s)) /\ Done' = Done
  BY <1>1, <1>2 DEF From, To, Done
<1>6. (\A s, key : Covers(s, key)' <=> Covers(s, key)) /\ (\A key : NoneCovers(key)' <=> NoneCovers(key))
  BY <1>5 DEF Covers, NoneCovers
<1>7. AllKeys' = AllKeys /\ \A key : Top0(key)' = Top0(key) /\ Rest(key)' = Rest(key)
  BY <1>2 DEF AllKeys, Top0, Rest
<1>8. BaseInv' /\ TierInv' /\ CodesInv' /\ KraftDecides'
  BY <1>1, <1>2, <1>3, <1>4, <1>5 DEF Inv, BaseInv, TierInv, CodesInv, KraftDecides
<1>9. NumberInv'
  BY <1>1, <1>2, <1>4 DEF Inv, NumberInv
<1>10. ASSUME NEW key \in AllKeys
       PROVE  Unset(key)' \/ (Direct(key)' /\ subIdx'[Top0(key)'] = -1) \/ Redirected(key)'
  <2>1. Unset(key)' <=> Unset(key)
    BY <1>1, <1>6, <1>7 DEF Unset
  <2>2. Direct(key)' <=> Direct(key)
    BY <1>1, <1>2, <1>5, <1>6, <1>7 DEF Direct
  <2>3. Redirected(key)' <=> Redirected(key)
    BY <1>1, <1>2, <1>5, <1>6, <1>7 DEF Redirected, Behind
  <2> QED BY <1>1, <1>7, <2>1, <2>2, <2>3 DEF Inv, FillInv
<1>11. FillInv'
  <2>1. Tables(TopBits)' = Tables(TopBits) /\ Tables(SubBits)' = Tables(SubBits)
    BY <1>2 DEF Tables
  <2> QED BY <1>1, <1>2, <1>7, <1>10, <2>1 DEF Inv, FillInv
<1> QED BY <1>8, <1>9, <1>11 DEF Inv

LEMMA InvStep == Inv /\ [Next]_vars => Inv'
<1> SUFFICES ASSUME Inv, [Next]_vars PROVE Inv'
  OBVIOUS
<1>1. CASE Tier
  BY <1>1, TierStep
<1>2. CASE AssignCode
  BY <1>2, AssignCodeStep
<1>3. CASE SkipUnused
  BY <1>3, SkipStep
<1>4. CASE FillTerminal
  BY <1>4, TerminalStep
<1>5. CASE FillDeferred
  BY <1>5, DeferredStep
<1>6. CASE UNCHANGED vars
  BY <1>6, StutterStep
<1> QED BY <1>1, <1>2, <1>3, <1>4, <1>5, <1>6 DEF Next

LEMMA InvCorrect == Spec => []Inv
<1> QED BY InitInv, InvStep, PTL DEF Spec

------------------------------------------------------------------------------
(* What the invariant says of the runs' properties.                          *)
LEMMA CodeBound == Inv => \A s \in Used : code[s] \in 0 .. Pow2(lengths[s]) - 1
<1> SUFFICES ASSUME Inv, NEW s \in Used PROVE code[s] \in 0 .. Pow2(lengths[s]) - 1
  OBVIOUS
<1>1. /\ lengths \in [Symbols -> 0 .. MaxLength] /\ code \in [Symbols -> Nat] /\ s \in Symbols
      /\ phase \in {"tiers", "codes", "fill", "built", "overfull"}
      /\ sym \in Symbols
  BY DEF Inv, BaseInv, Used
<1>2. lengths[s] \in 1 .. MaxLen /\ lengths[s] \in Nat /\ N \in Nat \ {0} /\ MaxLen \in Nat
  <2>1. MaxLength \in Nat /\ N \in Nat \ {0}
    BY HuffmanTableAssumption DEF RedirectMarker
  <2> QED BY <1>1, <2>1, MaxLenProperties DEF Used
<1>3. Pow2(lengths[s]) \in Nat \ {0} /\ code[s] \in Nat
  BY <1>1, <1>2, Pow2Type
<1>4. CASE code[s] = 0
  BY <1>3, <1>4
<1>5. CASE phase \in {"tiers", "overfull"}
  BY <1>1, <1>3, <1>5 DEF Inv, BaseInv
<1>6. CASE phase \in {"fill", "built"}
  BY <1>3, <1>6 DEF Inv, CodesInv
<1>7. CASE phase = "codes" /\ s >= sym
  BY <1>1, <1>3, <1>7 DEF Inv, BaseInv
<1>8. CASE phase = "codes" /\ s < sym
  <2> DEFINE l == lengths[s]
  <2>1. PICK start \in [0 .. MaxLen + 1 -> Nat] :
          Placed(start, 0) /\ code[s] = start[l] + CountBelow(l, s)
    BY <1>8 DEF Inv, NumberInv
  <2>2. start[l] + BlCount(l) <= Pow2(l) /\ start[l] \in Nat
    <3>1. l \in 0 + 1 .. MaxLen /\ l \in 0 .. MaxLen + 1
      BY <1>2
    <3> QED BY <2>1, <3>1 DEF Placed
  <2>3. CountBelow(l, s + 1) = CountBelow(l, s) + 1
    BY <1>1, CountProperties
  <2>4. s + 1 \in 0 .. N /\ N \in 0 .. N /\ s + 1 <= N /\ s \in 0 .. N
    BY <1>1, <1>2 DEF Symbols
  <2>5. CountBelow(l, s + 1) <= CountBelow(l, N) /\ CountBelow(l, N) = BlCount(l)
        /\ CountBelow(l, s) \in Nat /\ CountBelow(l, N) \in Nat
    BY <1>1, <2>4, CountProperties
  <2> HIDE DEF l
  <2>6. code[s] + 1 <= Pow2(l)
    BY <1>3, <2>1, <2>2, <2>3, <2>5 DEF l
  <2> QED BY <1>3, <2>6 DEF l
<1> QED BY <1>1, <1>2, <1>5, <1>6, <1>7, <1>8 DEF Symbols

LEMMA InvType == Inv => TypeOK
<1> SUFFICES ASSUME Inv PROVE TypeOK
  OBVIOUS
<1>1. BaseInv /\ FillInv
  BY DEF Inv
<1>2. \A s \in Used : code[s] \in 0 .. Pow2(lengths[s]) - 1
  BY CodeBound
<1>3. DOMAIN primary = 0 .. Pow2(TopBits) - 1 /\ Range(primary) \subseteq Entries
  BY <1>1 DEF FillInv, Tables, Range
<1>4. ASSUME NEW i \in DOMAIN secondary
      PROVE  DOMAIN secondary[i] = 0 .. Pow2(SubBits) - 1 /\ Range(secondary[i]) \subseteq Entries
  <2>1. secondary[i] \in Tables(SubBits)
    BY <1>1 DEF FillInv
  <2> QED BY <2>1 DEF Tables, Range
<1>5. subIdx \in [DOMAIN primary -> -1 .. Len(secondary) - 1]
  <2>1. \A p \in 0 .. Pow2(TopBits) - 1 : subIdx[p] \in -1 .. Len(secondary) - 1
    BY <1>1, SubIdxRange
  <2> QED BY <1>1, <1>3, <2>1 DEF FillInv
<1> QED BY <1>1, <1>2, <1>3, <1>4, <1>5 DEF BaseInv, TypeOK

(* A step writes only slots that held nothing, or writes a redirect again.   *)
LEMMA StepKeeps ==
  ASSUME Inv, Next
  PROVE  Keeps(primary, primary') /\ \A i \in DOMAIN secondary : Keeps(secondary[i], secondary'[i])
<1>1. CASE UNCHANGED <<primary, secondary>>
  BY <1>1 DEF Keeps
<1>2. CASE FillTerminal
  <2>1. PICK w : w = Pow2(TopBits - lengths[sym])
    OBVIOUS
  <2>2. PICK base : base = code[sym] * w
    OBVIOUS
  <2>3. /\ \A p \in base .. base + w - 1 : primary[p] = ZeroEntry
        /\ primary \in Tables(TopBits)
        /\ primary' = [p \in 0 .. Pow2(TopBits) - 1 |->
             IF p \in base .. base + w - 1 THEN Entry(sym, lengths[sym]) ELSE primary[p]]
    BY <1>2, <2>1, <2>2, TerminalFacts
  <2>4. Keeps(primary, primary')
    BY <2>3 DEF Keeps, Tables
  <2>5. secondary' = secondary
    BY <1>2 DEF FillTerminal
  <2> QED BY <2>4, <2>5 DEF Keeps
<1>3. CASE FillDeferred
  <2>1. PICK d, w : d = Pow2(lengths[sym] - TopBits) /\ w = Pow2(SubBits - (lengths[sym] - TopBits))
    OBVIOUS
  <2>2. PICK prefix, base : prefix = code[sym] \div d /\ base = (code[sym] % d) * w
    OBVIOUS
  <2>3. PICK table, sub : /\ table = (IF subIdx[prefix] < 0 THEN Zeroed(SubBits)
                                      ELSE secondary[subIdx[prefix] + 1])
                          /\ sub = SubtableOf(prefix)
    OBVIOUS
  <2> DEFINE R == base .. base + w - 1
             e == Entry(sym, lengths[sym] - TopBits)
  <2>4. /\ prefix \in 0 .. Pow2(TopBits) - 1
        /\ \/ subIdx[prefix] = -1 /\ primary[prefix] = ZeroEntry /\ sub = Len(secondary)
           \/ /\ subIdx[prefix] \in 0 .. Len(secondary) - 1 /\ sub = subIdx[prefix]
              /\ primary[prefix] = Entry(sub, RedirectMarker)
        /\ table \in Tables(SubBits)
        /\ \A r \in R : table[r] = ZeroEntry
        /\ \A i \in 1 .. Len(secondary) : i # sub + 1 => secondary'[i] = secondary[i]
        /\ secondary'[sub + 1] = [r \in 0 .. Pow2(SubBits) - 1 |-> IF r \in R THEN e ELSE table[r]]
    BY <1>3, <2>1, <2>2, <2>3, DeferredFacts
  <2>5. primary' = [primary EXCEPT ![prefix] = Entry(sub, RedirectMarker)]
    BY <1>3, <2>1, <2>2, <2>3 DEF FillDeferred
  <2>6. primary \in Tables(TopBits) /\ secondary \in Seq(Tables(SubBits)) /\ Len(secondary) \in Nat
    BY DEF Inv, FillInv
  <2>7. Keeps(primary, primary')
    BY <2>4, <2>5, <2>6 DEF Keeps, Tables
  <2>8. ASSUME NEW i \in DOMAIN secondary PROVE Keeps(secondary[i], secondary'[i])
    <3>1. i \in 1 .. Len(secondary)
      BY <2>6
    <3>2. CASE i # sub + 1
      BY <2>4, <3>1, <3>2 DEF Keeps
    <3>3. CASE i = sub + 1
      <4>1. subIdx[prefix] \in 0 .. Len(secondary) - 1 /\ sub = subIdx[prefix]
        BY <2>4, <2>6, <3>1, <3>3
      <4>2. table = secondary[i]
        BY <2>3, <2>6, <3>3, <4>1
      <4> HIDE DEF R, e
      <4> QED BY <2>4, <3>3, <4>2 DEF Keeps, Tables
    <3> QED BY <3>2, <3>3
  <2> QED BY <2>7, <2>8
<1>4. Tier \/ AssignCode \/ SkipUnused => UNCHANGED <<primary, secondary>>
  BY DEF Tier, AssignCode, SkipUnused
<1> QED BY <1>1, <1>2, <1>3, <1>4 DEF Next

(* A key begins with a code exactly when it is one of the code's keys.       *)
LEMMA HeadsCovers ==
  ASSUME BaseInv, CodesInv, phase \in {"fill", "built"}, NEW s \in Used, NEW key \in AllKeys
  PROVE  Heads(s, key) <=> Covers(s, key)
<1> DEFINE b == Keys(lengths[s])
           c == code[s]
           q == key \div b
           r == key % b
<1>1. c \in Nat /\ b \in Nat \ {0} /\ lengths[s] \in Nat
  BY CodeFacts
<1>2. key \in Nat
  <2>1. MaxLen \in Nat
    BY MaxLenProperties, HuffmanTableAssumption DEF BaseInv, RedirectMarker
  <2>2. Pow2(MaxLen) \in Nat
    BY <2>1, Pow2Type
  <2> QED BY <2>2 DEF AllKeys
<1>3. (Heads(s, key) <=> c = q) /\ (Covers(s, key) <=> c * b <= key /\ key < (c + 1) * b)
  BY DEF Heads, Covers, From, To, Keys
<1> HIDE DEF b, c
<1>4. q \in Nat /\ r \in 0 .. b - 1 /\ key = q * b + r
  BY <1>1, <1>2
<1> HIDE DEF q, r
<1>5. (c * b <= key <=> c <= q) /\ (key < (c + 1) * b <=> q < c + 1)
  BY <1>1, <1>4, Multiples
<1> QED BY <1>1, <1>3, <1>4, <1>5

(* A lookup finds the symbol that covers the key, if there is one.           *)
LEMMA LookupFinds ==
  ASSUME Inv, phase = "built", NEW key \in AllKeys, NEW d, d = Decode(key)
  PROVE  \/ d.valid = FALSE /\ NoneCovers(key)
         \/ \E s \in Used : d = Decoded(s, lengths[s], TRUE) /\ Covers(s, key)
<1>1. /\ BaseInv /\ CodesInv /\ FillInv /\ phase \in {"fill", "built"}
      /\ lengths \in [Symbols -> 0 .. MaxLength] /\ Done = Used
  BY DEF Inv, BaseInv, Done
<1>4. MaxLen \in 0 .. RedirectMarker - 1 /\ TopBits \in Nat
      /\ \A s \in Used : lengths[s] \in 1 .. MaxLen
  <2>1. MaxLen \in 0 .. RedirectMarker - 1
    BY <1>1, MaxLenProperties, HuffmanTableAssumption DEF RedirectMarker
  <2>2. TopBits \in Nat
    BY <1>1, KeyParts
  <2>3. \A s \in Used : lengths[s] \in 1 .. MaxLen
    BY <1>1, <2>1, MaxLenProperties DEF RedirectMarker, Used
  <2> QED BY <2>1, <2>2, <2>3
<1>5. CASE MaxLen = 0
  <2>1. Used = {} /\ d = Decoded(0, 0, FALSE)
    BY <1>4, <1>5 DEF Decode
  <2> QED BY <1>1, <2>1 DEF NoneCovers, Decoded
<1>6. CASE MaxLen # 0
  <2> DEFINE e == primary[Top0(key)]
  <2>1. d = IF e.len = RedirectMarker THEN LookupSub(e.value, key)
            ELSE Decoded(e.value, e.len, e.len # 0)
    BY <1>6 DEF Decode, Top0
  <2>2. CASE Unset(key)
    <3>1. e.value = 0 /\ e.len = 0 /\ NoneCovers(key)
      BY <2>2 DEF Unset, ZeroEntry, Entry
    <3>2. e.len # RedirectMarker /\ (e.len # 0) = FALSE
      BY <3>1 DEF RedirectMarker
    <3>3. d = Decoded(0, 0, FALSE)
      BY <2>1, <3>1, <3>2, Zenon
    <3> QED BY <3>1, <3>3 DEF Decoded
  <2>3. CASE Direct(key)
    <3>1. PICK s \in Used : Covers(s, key) /\ e = Entry(s, lengths[s])
      BY <1>1, <2>3 DEF Direct
    <3>2. e.value = s /\ e.len = lengths[s] /\ e.len # 0 /\ e.len # RedirectMarker
      BY <1>4, <3>1 DEF Entry, RedirectMarker
    <3> QED BY <2>1, <3>1, <3>2
  <2>4. CASE Redirected(key)
    <3> DEFINE i == subIdx[Top0(key)]
               f == secondary[i + 1][Rest(key)]
    <3>1. e = Entry(i, RedirectMarker) /\ Behind(secondary[i + 1], key)
      BY <2>4 DEF Redirected
    <3>2. d = Decoded(f.value, TopBits + f.len, f.len # 0)
      BY <2>1, <3>1 DEF LookupSub, Entry, Rest
    <3>3. CASE f = ZeroEntry /\ NoneCovers(key)
      <4>1. (f.len # 0) = FALSE
        BY <3>3 DEF ZeroEntry, Entry
      <4>2. d = Decoded(f.value, TopBits + f.len, FALSE)
        BY <3>2, <4>1, Zenon
      <4> QED BY <3>3, <4>2 DEF Decoded
    <3>4. CASE \E s \in Used : /\ Covers(s, key) /\ lengths[s] > TopBits
                               /\ f = Entry(s, lengths[s] - TopBits)
      <4>1. PICK s \in Used : /\ Covers(s, key) /\ lengths[s] > TopBits
                              /\ f = Entry(s, lengths[s] - TopBits)
        BY <3>4
      <4>2. f.value = s /\ f.len = lengths[s] - TopBits
        BY <4>1 DEF Entry
      <4>3. TopBits + f.len = lengths[s] /\ f.len # 0
        BY <1>4, <4>1, <4>2
      <4> QED BY <3>2, <4>1, <4>2, <4>3
    <3> QED BY <1>1, <3>1, <3>3, <3>4 DEF Behind
  <2> QED BY <1>1, <2>2, <2>3, <2>4 DEF FillInv
<1> QED BY <1>5, <1>6

LEMMA InvDecodes == Inv => DecodeExact
<1> SUFFICES ASSUME Inv, phase = "built", NEW key \in AllKeys, NEW d, d = Decode(key)
             PROVE  /\ d.valid <=> \E s \in Used : Heads(s, key)
                    /\ d.valid => d.sym \in Used /\ Heads(d.sym, key) /\ d.len = lengths[d.sym]
  BY DEF DecodeExact, AllKeys
<1>1. Done = Used /\ \A s \in Used : Heads(s, key) <=> Covers(s, key)
  BY HeadsCovers DEF Inv, Done
<1>2. CASE d.valid = FALSE /\ NoneCovers(key)
  BY <1>1, <1>2 DEF NoneCovers
<1>3. CASE \E s \in Used : d = Decoded(s, lengths[s], TRUE) /\ Covers(s, key)
  BY <1>1, <1>3 DEF Decoded
<1> QED BY <1>2, <1>3, LookupFinds

------------------------------------------------------------------------------
(* The encoder's numbers.  Its accumulator at length l is the beginning of a *)
(* function from the longest length down.                                    *)
Falls(f, l) ==
  f = [k \in l .. MaxLen |->
         IF k = MaxLen THEN AccSpace - 1 ELSE ((f[k + 1] + BlCount(k + 1)) % AccSpace) \div 2]

EncAcc(l) == (CHOOSE f : Falls(f, l))[l]

LEMMA FallsExist ==
  ASSUME MaxLen \in Nat, NEW l \in 0 .. MaxLen
  PROVE  \E f : Falls(f, l)
<1> DEFINE S == {j \in Nat : j <= MaxLen => \E f : Falls(f, MaxLen - j)}
           X(a, k) == ((a + BlCount(k + 1)) % AccSpace) \div 2
<1>1. 0 \in S
  <2> DEFINE g == [k \in MaxLen .. MaxLen |-> AccSpace - 1]
  <2>1. g = [k \in MaxLen - 0 .. MaxLen |->
               IF k = MaxLen THEN AccSpace - 1 ELSE ((g[k + 1] + BlCount(k + 1)) % AccSpace) \div 2]
    <3> HIDE DEF g
    <3>1. MaxLen - 0 = MaxLen /\ \A k \in MaxLen .. MaxLen : k = MaxLen
      OBVIOUS
    <3> QED BY <3>1 DEF g
  <2> HIDE DEF g
  <2>2. Falls(g, MaxLen - 0)
    BY <2>1 DEF Falls
  <2> QED BY <2>2
<1>2. ASSUME NEW j \in S PROVE j + 1 \in S
  <2> SUFFICES ASSUME j + 1 <= MaxLen PROVE \E f : Falls(f, MaxLen - (j + 1))
    OBVIOUS
  <2>1. PICK g : Falls(g, MaxLen - j)
    OBVIOUS
  <2> DEFINE m == MaxLen - (j + 1)
             h == [k \in m .. MaxLen |-> IF k = m THEN X(g[m + 1], m) ELSE g[k]]
  <2>2. m \in Int /\ m + 1 = MaxLen - j /\ m # MaxLen
    OBVIOUS
  <2> HIDE DEF X, S, m
  <2>3. ASSUME NEW k \in m .. MaxLen
        PROVE  h[k] = IF k = MaxLen THEN AccSpace - 1 ELSE X(h[k + 1], k)
    <3>1. CASE k = m
      <4>1. m + 1 \in m .. MaxLen /\ m + 1 # m
        BY <2>2, <3>1
      <4> QED BY <2>2, <3>1, <4>1
    <3>2. CASE k # m
      <4>1. k \in m + 1 .. MaxLen /\ k \in MaxLen - j .. MaxLen
        BY <2>2, <3>2
      <4>2. g[k] = IF k = MaxLen THEN AccSpace - 1 ELSE X(g[k + 1], k)
        BY <2>1, <4>1 DEF Falls, X
      <4>3. k # MaxLen => k + 1 \in m .. MaxLen /\ k + 1 # m
        BY <2>2, <4>1
      <4> QED BY <3>2, <4>2, <4>3
    <3> QED BY <3>1, <3>2
  <2>4. h = [k \in m .. MaxLen |-> h[k]]
    OBVIOUS
  <2> HIDE DEF h
  <2>5. Falls(h, m)
    BY <2>3, <2>4 DEF Falls, X
  <2> QED BY <2>5 DEF m
<1>3. S = Nat
  <2> HIDE DEF S
  <2>1. S \in SUBSET Nat
    BY DEF S
  <2> QED BY <1>1, <1>2, <2>1, NatSetInduction
<1> HIDE DEF S
<1>4. MaxLen - l \in S /\ MaxLen - (MaxLen - l) = l /\ MaxLen - l <= MaxLen
  BY <1>3
<1> QED BY <1>4 DEF S

LEMMA FallsAgree ==
  ASSUME MaxLen \in Nat, NEW l \in Nat, NEW m \in Nat, NEW f, NEW g, Falls(f, l), Falls(g, m),
         NEW k \in Nat, l <= k, m <= k, k <= MaxLen
  PROVE  f[k] = g[k]
<1> DEFINE S == {j \in Nat : l <= MaxLen - j /\ m <= MaxLen - j => f[MaxLen - j] = g[MaxLen - j]}
<1>1. 0 \in S
  <2> SUFFICES ASSUME l <= MaxLen - 0, m <= MaxLen - 0 PROVE f[MaxLen - 0] = g[MaxLen - 0]
    OBVIOUS
  <2>1. MaxLen - 0 = MaxLen /\ MaxLen \in l .. MaxLen /\ MaxLen \in m .. MaxLen
    OBVIOUS
  <2> QED BY <2>1 DEF Falls
<1>2. ASSUME NEW j \in S PROVE j + 1 \in S
  <2> DEFINE n == MaxLen - (j + 1)
  <2> SUFFICES ASSUME l <= n, m <= n PROVE f[n] = g[n]
    OBVIOUS
  <2>1. n \in l .. MaxLen /\ n \in m .. MaxLen /\ n # MaxLen /\ n + 1 = MaxLen - j
    OBVIOUS
  <2>2. f[n + 1] = g[n + 1]
    BY <2>1
  <2> HIDE DEF n, S
  <2>3. f[n] = ((f[n + 1] + BlCount(n + 1)) % AccSpace) \div 2
        /\ g[n] = ((g[n + 1] + BlCount(n + 1)) % AccSpace) \div 2
    BY <2>1 DEF Falls
  <2> QED BY <2>2, <2>3
<1>3. S = Nat
  <2> HIDE DEF S
  <2>1. S \in SUBSET Nat
    BY DEF S
  <2> QED BY <1>1, <1>2, <2>1, NatSetInduction
<1> HIDE DEF S
<1>4. MaxLen - k \in S /\ MaxLen - (MaxLen - k) = k
  BY <1>3
<1> QED BY <1>4 DEF S

(* The encoder starts a tier where the decoder does. *)
LEMMA EncStarts ==
  ASSUME lengths \in [Symbols -> 0 .. MaxLength]
  PROVE  /\ \A l \in 0 .. MaxLen : StartCode(l) = (EncAcc(l) + 1) % AccSpace
         /\ EncAcc(MaxLen) = AccSpace - 1
         /\ \A l \in 1 .. MaxLen :
              EncAcc(l - 1) = ((EncAcc(l) + BlCount(l)) % AccSpace) \div 2
<1>1. MaxLen \in Nat /\ DOMAIN lengths = Symbols
  BY MaxLenProperties, HuffmanTableAssumption DEF RedirectMarker
<1> DEFINE G(l) == CHOOSE f : Falls(f, l)
<1>2. \A l \in 0 .. MaxLen : Falls(G(l), l)
  BY <1>1, FallsExist
<1>4. ASSUME NEW l \in 0 .. MaxLen
      PROVE  StartCode(l) = (G(l)[l] + 1) % AccSpace
  BY DEF StartCode, Falls
<1>5. \A l : EncAcc(l) = G(l)[l]
  BY DEF EncAcc
<1> HIDE DEF G
<1>6. G(MaxLen)[MaxLen] = AccSpace - 1
  <2>1. MaxLen \in 0 .. MaxLen /\ MaxLen \in MaxLen .. MaxLen
    BY <1>1
  <2> QED BY <1>2, <2>1 DEF Falls
<1>7. ASSUME NEW l \in 1 .. MaxLen
      PROVE  G(l - 1)[l - 1] = ((G(l)[l] + BlCount(l)) % AccSpace) \div 2
  <2>1. /\ l - 1 \in 0 .. MaxLen /\ l - 1 \in l - 1 .. MaxLen /\ l - 1 # MaxLen /\ (l - 1) + 1 = l
        /\ l \in 0 .. MaxLen /\ l \in Nat /\ l - 1 \in Nat /\ l - 1 <= l /\ l <= l /\ l <= MaxLen
    BY <1>1
  <2>2. Falls(G(l - 1), l - 1) /\ Falls(G(l), l)
    BY <1>2, <2>1
  <2>3. G(l - 1)[l - 1] = ((G(l - 1)[l] + BlCount(l)) % AccSpace) \div 2
    BY <2>1, <2>2 DEF Falls
  <2>4. G(l - 1)[l] = G(l)[l]
    BY <1>1, <2>1, <2>2, FallsAgree
  <2> QED BY <2>3, <2>4
<1> QED BY <1>4, <1>5, <1>6, <1>7

LEMMA EncCode ==
  ASSUME lengths \in [Symbols -> 0 .. MaxLength], NEW s \in Symbols
  PROVE  Code(s) = StartCode(lengths[s]) + CountBelow(lengths[s], s)
<1> DEFINE l == lengths[s]
           A == {t \in Symbols : t < s /\ lengths[t] = l}
           f == Indicator(l)
<1>1. N \in Nat \ {0} /\ s \in Nat /\ s < N /\ DOMAIN lengths = Symbols
  BY HuffmanTableAssumption DEF Symbols
<1>2. A \in SUBSET (0 .. s - 1)
  BY <1>1 DEF Symbols
<1>3. ASSUME NEW i \in 1 .. s PROVE f[i] = IF i - 1 \in A THEN 1 ELSE 0
  <2>1. i \in 1 .. N /\ i - 1 \in Symbols /\ i - 1 < s
    BY <1>1 DEF Symbols
  <2> QED BY <2>1 DEF Indicator
<1> HIDE DEF A, f
<1>4. Cardinality(A) = Sum(f, s)
  BY <1>1, <1>2, <1>3, CountAsSum
<1> QED BY <1>1, <1>4 DEF Code, A, f, CountBelow

(* The decoder's accumulator, first codes and codes are the encoder's. *)
SameCodes ==
  /\ phase = "tiers" =>
       acc = EncAcc(tier) /\ \A t \in tier + 1 .. MaxLen : cur[t] = StartCode(t)
  /\ phase = "codes" =>
       /\ \A t \in 1 .. MaxLen : cur[t] = StartCode(t) + CountBelow(t, sym)
       /\ \A s \in Used : s < sym => code[s] = Code(s)
  /\ phase \in {"fill", "built"} => \A s \in Used : code[s] = Code(s)

LEMMA InitSameCodes == Init => SameCodes
<1> SUFFICES ASSUME Init PROVE SameCodes
  OBVIOUS
<1>1. lengths \in [Symbols -> 0 .. MaxLength]
  BY DEF Init
<1>2. MaxLen \in Nat
  BY <1>1, MaxLenProperties, HuffmanTableAssumption DEF RedirectMarker
<1>3. \A t : ~ (t \in MaxLen + 1 .. MaxLen)
  BY <1>2
<1>4. phase = "tiers" => acc = EncAcc(tier) /\ tier = MaxLen
  BY <1>1, EncStarts DEF Init
<1>5. phase = "built" => Used = {}
  <2>1. MaxLen = 0 => Used = {}
    BY <1>1, MaxLenProperties DEF Used
  <2> QED BY <2>1 DEF Init
<1>6. phase \in {"tiers", "built"}
  BY DEF Init
<1> QED BY <1>3, <1>4, <1>5, <1>6 DEF SameCodes

LEMMA EncSame ==
  ASSUME UNCHANGED lengths
  PROVE  /\ \A l : EncAcc(l)' = EncAcc(l)
         /\ \A l : StartCode(l)' = StartCode(l)
         /\ \A s : Code(s)' = Code(s)
<1>1. MaxLen' = MaxLen /\ \A k : BlCount(k)' = BlCount(k)
  BY DEF MaxLen, BlCount
<1>2. \A l : EncAcc(l)' = EncAcc(l)
  BY <1>1 DEF EncAcc, Falls
<1>3. \A l : StartCode(l)' = StartCode(l)
  BY <1>1 DEF StartCode
<1>4. \A s : Code(s)' = Code(s)
  <2>1. \A l : StartCode(l)' = StartCode(l)
    BY <1>3
  <2> QED BY <2>1 DEF Code
<1> QED BY <1>2, <1>3, <1>4

LEMMA EncStartType ==
  ASSUME lengths \in [Symbols -> 0 .. MaxLength]
  PROVE  \A l \in 0 .. MaxLen : StartCode(l) \in Nat
<1> DEFINE S == {j \in Nat : j <= MaxLen => EncAcc(MaxLen - j) \in Nat}
<1>0. MaxLen \in Nat /\ AccSpace \in Nat \ {0} /\ N \in Nat
  <2>1. MaxLength \in Nat /\ N \in Nat /\ AccSpace \in Nat
    BY HuffmanTableAssumption DEF RedirectMarker
  <2>2. Pow2(MaxLength) \in Nat /\ AccSpace > N + Pow2(MaxLength)
    BY <2>1, Pow2Type, HuffmanTableAssumption
  <2> QED BY <2>1, <2>2, MaxLenProperties
<1>1. 0 \in S
  BY <1>0, EncStarts
<1>2. ASSUME NEW j \in S PROVE j + 1 \in S
  <2> SUFFICES ASSUME j + 1 <= MaxLen PROVE EncAcc(MaxLen - (j + 1)) \in Nat
    OBVIOUS
  <2>1. PICK l \in 1 .. MaxLen : l = MaxLen - j
    BY <1>0
  <2>2. EncAcc(l) \in Nat /\ BlCount(l) \in Nat /\ MaxLen - (j + 1) = l - 1
    BY <1>0, <2>1, CountProperties
  <2>3. EncAcc(l - 1) = ((EncAcc(l) + BlCount(l)) % AccSpace) \div 2
    BY EncStarts
  <2> QED BY <1>0, <2>2, <2>3
<1>3. S = Nat
  <2> HIDE DEF S
  <2>1. S \in SUBSET Nat
    BY DEF S
  <2> QED BY <1>1, <1>2, <2>1, NatSetInduction
<1>4. ASSUME NEW l \in 0 .. MaxLen PROVE StartCode(l) \in Nat
  <2> HIDE DEF S
  <2>1. MaxLen - l \in S /\ MaxLen - (MaxLen - l) = l /\ MaxLen - l <= MaxLen
    BY <1>0, <1>3
  <2>2. EncAcc(l) \in Nat
    BY <2>1 DEF S
  <2> QED BY <1>0, <2>2, EncStarts
<1> QED BY <1>4

LEMMA StepSameCodes == Inv /\ Inv' /\ SameCodes /\ [Next]_vars => SameCodes'
<1> SUFFICES ASSUME Inv, Inv', SameCodes, [Next]_vars PROVE SameCodes'
  OBVIOUS
<1>1. /\ lengths \in [Symbols -> 0 .. MaxLength] /\ MaxLen \in Nat
      /\ cur \in [0 .. MaxLen + 1 -> Nat] /\ code \in [Symbols -> Nat]
      /\ sym \in Symbols /\ N \in Nat \ {0} /\ tier \in 0 .. MaxLen
  <2>1. lengths \in [Symbols -> 0 .. MaxLength] /\ MaxLength \in Nat /\ N \in Nat \ {0}
    BY HuffmanTableAssumption DEF Inv, BaseInv, RedirectMarker
  <2>2. MaxLen \in Nat
    BY <2>1, MaxLenProperties
  <2> QED BY <2>1, <2>2 DEF Inv, BaseInv
<1>2. lengths' = lengths
  BY DEF Next, Tier, AssignCode, SkipUnused, FillTerminal, FillDeferred, ForSymbol, vars
<1>3. /\ MaxLen' = MaxLen /\ Used' = Used
      /\ \A l : BlCount(l)' = BlCount(l)
      /\ \A l, k : CountBelow(l, k)' = CountBelow(l, k)
      /\ \A l : EncAcc(l)' = EncAcc(l)
      /\ \A l : StartCode(l)' = StartCode(l)
      /\ \A s : Code(s)' = Code(s)
  BY <1>2, SameLengths, EncSame
<1>4. /\ \A l \in 0 .. MaxLen : StartCode(l) = (EncAcc(l) + 1) % AccSpace
      /\ \A l \in 1 .. MaxLen : EncAcc(l - 1) = ((EncAcc(l) + BlCount(l)) % AccSpace) \div 2
  BY <1>1, EncStarts
<1>5. CASE Tier
  <2>1. /\ phase = "tiers" /\ tier \in 1 .. MaxLen /\ sym = 0
        /\ acc = EncAcc(tier) /\ \A t \in tier + 1 .. MaxLen : cur[t] = StartCode(t)
    BY <1>5 DEF Inv, TierInv, BaseInv, SameCodes, Tier
  <2>2. tier \in 0 .. MaxLen + 1 /\ cur' = [cur EXCEPT ![tier] = (acc + 1) % AccSpace]
    BY <1>1, <1>5 DEF Tier
  <2>3. \A t \in tier .. MaxLen : cur'[t] = StartCode(t)
    <3> SUFFICES ASSUME NEW t \in tier .. MaxLen PROVE cur'[t] = StartCode(t)
      OBVIOUS
    <3>1. t \in 0 .. MaxLen + 1 /\ t \in 0 .. MaxLen
      BY <1>1
    <3>2. CASE t = tier
      BY <1>1, <1>4, <2>1, <2>2, <3>1, <3>2
    <3>3. CASE t # tier
      <4>1. t \in tier + 1 .. MaxLen
        BY <1>1, <3>3
      <4> QED BY <1>1, <2>1, <2>2, <3>1, <3>3, <4>1
    <3> QED BY <3>2, <3>3
  <2>4. CASE phase' = "overfull"
    BY <2>4 DEF SameCodes
  <2>5. CASE phase' # "overfull"
    <3>1. /\ acc' = ((acc + BlCount(tier)) % AccSpace) \div 2 /\ tier' = tier - 1 /\ sym' = sym
          /\ phase' = IF tier = 1 THEN "codes" ELSE "tiers"
      BY <1>5, <2>5 DEF Tier, NextAcc
    <3>2. acc' = EncAcc(tier - 1)
      BY <1>4, <2>1, <3>1
    <3>3. CASE tier # 1
      <4>1. PICK u : u = tier - 1
        OBVIOUS
      <4>2. phase' = "tiers" /\ tier' = u /\ u + 1 = tier
        BY <1>1, <2>1, <3>1, <3>3, <4>1
      <4>3. acc' = EncAcc(u)'
        BY <1>3, <3>2, <4>1
      <4>4. acc' = EncAcc(tier)'
        BY <4>2, <4>3
      <4>5. \A t \in tier' + 1 .. MaxLen' : cur'[t] = StartCode(t)'
        BY <1>2, <1>3, <2>3, <4>2
      <4> QED BY <4>2, <4>4, <4>5 DEF SameCodes
    <3>4. CASE tier = 1
      <4>1. phase' = "codes" /\ sym' = 0
        BY <2>1, <3>1, <3>4
      <4>2. \A t \in 1 .. MaxLen : cur'[t] = StartCode(t) + CountBelow(t, 0)
        <5> SUFFICES ASSUME NEW t \in 1 .. MaxLen
                     PROVE  cur'[t] = StartCode(t) + CountBelow(t, 0)
          OBVIOUS
        <5>1. cur'[t] = StartCode(t) /\ CountBelow(t, 0) = 0
          BY <1>1, <2>3, <3>4, CountProperties
        <5>2. cur'[t] \in Nat
          <6>1. cur' \in [0 .. MaxLen' + 1 -> Nat]
            BY DEF Inv, BaseInv
          <6>2. t \in 0 .. MaxLen' + 1
            BY <1>1, <1>3
          <6> QED BY <6>1, <6>2
        <5> QED BY <5>1, <5>2
      <4>3. \A s \in Used : ~ (s < 0)
        BY <1>1 DEF Used, Symbols
      <4> QED BY <1>2, <1>3, <4>1, <4>2, <4>3 DEF SameCodes
    <3> QED BY <3>3, <3>4
  <2> QED BY <2>4, <2>5
<1>6. CASE AssignCode
  <2> DEFINE l == lengths[sym]
  <2>1. /\ phase = "codes"
        /\ phase' = IF sym = N - 1 THEN "fill" ELSE "codes"
        /\ sym' = IF sym = N - 1 THEN 0 ELSE sym + 1
        /\ l = 0 => UNCHANGED <<code, cur>>
        /\ l # 0 => /\ code' = [code EXCEPT ![sym] = cur[l]]
                    /\ cur' = [cur EXCEPT ![l] = cur[l] + 1]
    BY <1>6 DEF AssignCode, ForSymbol
  <2>2. /\ \A t \in 1 .. MaxLen : cur[t] = StartCode(t) + CountBelow(t, sym)
        /\ \A s \in Used : s < sym => code[s] = Code(s)
    BY <2>1 DEF SameCodes
  <2>3. l \in 0 .. MaxLen /\ sym \in Nat
    BY <1>1, MaxLenProperties DEF Symbols
  <2> HIDE DEF l
  <2>4. \A t \in 1 .. MaxLen : cur'[t] = StartCode(t) + CountBelow(t, sym + 1)
    <3> SUFFICES ASSUME NEW t \in 1 .. MaxLen
                 PROVE  cur'[t] = StartCode(t) + CountBelow(t, sym + 1)
      OBVIOUS
    <3>1. CountBelow(t, sym + 1) = CountBelow(t, sym) + (IF l = t THEN 1 ELSE 0)
      BY <1>1, CountProperties DEF l
    <3>2. cur[t] = StartCode(t) + CountBelow(t, sym) /\ cur[t] \in Nat
      <4>1. t \in 0 .. MaxLen + 1
        BY <1>1
      <4> QED BY <1>1, <2>2, <4>1
    <3>3. StartCode(t) \in Int /\ CountBelow(t, sym) \in Int
      <4>1. StartCode(t) \in Nat
        BY <1>1, EncStartType
      <4>2. sym \in 0 .. N
        BY <1>1 DEF Symbols
      <4> QED BY <1>1, <1>4, <4>1, <4>2, CountProperties
    <3>4. cur'[t] = cur[t] + (IF l = t THEN 1 ELSE 0)
      <4>1. CASE l = 0
        BY <2>1, <3>2, <4>1
      <4>2. CASE l # 0
        <5>1. cur' = [cur EXCEPT ![l] = cur[l] + 1] /\ t \in 0 .. MaxLen + 1
          BY <1>1, <2>1, <4>2
        <5> QED BY <1>1, <3>2, <5>1
      <4> QED BY <4>1, <4>2
    <3> QED BY <3>1, <3>2, <3>3, <3>4
  <2>5. \A s \in Used : s < sym + 1 => code'[s] = Code(s)
    <3> SUFFICES ASSUME NEW s \in Used, s < sym + 1 PROVE code'[s] = Code(s)
      OBVIOUS
    <3>1. s \in Symbols /\ lengths[s] > 0 /\ s \in Nat
      BY <1>1 DEF Used, Symbols
    <3>2. CASE s = sym
      <4>1. l # 0 /\ l \in 1 .. MaxLen
        BY <1>1, <2>3, <3>1, <3>2 DEF l
      <4>2. code'[s] = cur[l]
        BY <1>1, <2>1, <3>2, <4>1
      <4>3. Code(s) = StartCode(l) + CountBelow(l, s)
        BY <1>1, <3>1, <3>2, EncCode DEF l
      <4> QED BY <2>2, <3>2, <4>1, <4>2, <4>3
    <3>3. CASE s # sym
      <4>1. s < sym
        BY <2>3, <3>1, <3>3
      <4>2. code'[s] = code[s]
        BY <1>1, <2>1, <2>3, <3>1, <3>3
      <4> QED BY <2>2, <4>1, <4>2
    <3> QED BY <3>2, <3>3
  <2>6. CASE sym = N - 1
    <3>1. phase' = "fill" /\ \A s \in Used : s < sym + 1
      BY <1>1, <2>1, <2>6 DEF Used, Symbols
    <3> QED BY <1>2, <1>3, <2>5, <3>1 DEF SameCodes
  <2>7. CASE sym # N - 1
    BY <1>2, <1>3, <2>1, <2>4, <2>5, <2>7 DEF SameCodes
  <2> QED BY <2>6, <2>7
<1>7. CASE SkipUnused \/ FillTerminal \/ FillDeferred
  <2>1. phase = "fill" /\ phase' \in {"fill", "built"} /\ code' = code
    BY <1>7 DEF SkipUnused, FillTerminal, FillDeferred, ForSymbol
  <2> QED BY <1>2, <1>3, <2>1 DEF SameCodes
<1>8. CASE UNCHANGED vars
  <2>1. UNCHANGED <<phase, tier, acc, cur, sym, code>>
    BY <1>8 DEF vars
  <2> QED BY <1>2, <1>3, <2>1 DEF SameCodes
<1> QED BY <1>5, <1>6, <1>7, <1>8 DEF Next

LEMMA SameCodesRoundTrip == Inv /\ SameCodes => CodesRoundTrip
<1> SUFFICES ASSUME Inv, SameCodes, phase = "built", NEW s \in Used,
                    NEW rest \in 0 .. Pow2(MaxLen - lengths[s]) - 1
             PROVE  Decode(Code(s) * Pow2(MaxLen - lengths[s]) + rest)
                      = Decoded(s, lengths[s], TRUE)
  BY DEF CodesRoundTrip
<1> DEFINE b == Keys(lengths[s])
           key == code[s] * b + rest
<1>1. /\ BaseInv /\ CodesInv /\ phase \in {"fill", "built"} /\ Done = Used
      /\ lengths \in [Symbols -> 0 .. MaxLength]
  BY DEF Inv, BaseInv, Done
<1>2. code[s] = Code(s)
  BY DEF SameCodes
<1>3. /\ lengths[s] \in 1 .. MaxLen /\ code[s] \in Nat /\ code[s] < Pow2(lengths[s])
      /\ b \in Nat \ {0} /\ rest \in 0 .. b - 1
  BY <1>1, CodeFacts DEF Keys
<1>4. Pow2(lengths[s]) * b = Pow2(MaxLen) /\ Pow2(lengths[s]) \in Nat
  <2>1. lengths[s] \in 0 .. MaxLen /\ lengths[s] \in Nat
    BY <1>1, <1>3, MaxLenProperties, HuffmanTableAssumption DEF RedirectMarker
  <2> QED BY <1>1, <2>1, KeysProperties, Pow2Type
<1>5. (code[s] + 1) * b <= Pow2(lengths[s]) * b /\ (code[s] + 1) * b = code[s] * b + b
      /\ code[s] * b \in Nat
  <2> HIDE DEF b
  <2> QED BY <1>3, <1>4
<1>6. key \in AllKeys /\ Covers(s, key)
  <2>1. (Covers(s, key) <=> code[s] * b <= key /\ key < (code[s] + 1) * b)
        /\ AllKeys = 0 .. Pow2(MaxLen) - 1
    BY DEF Covers, From, To, AllKeys
  <2> HIDE DEF b
  <2> QED BY <1>3, <1>4, <1>5, <2>1
<1>7. Decode(key) = Decoded(s, lengths[s], TRUE)
  <2> HIDE DEF key
  <2>1. ~ NoneCovers(key)
    BY <1>1, <1>6 DEF NoneCovers
  <2>2. PICK t \in Used : Decode(key) = Decoded(t, lengths[t], TRUE) /\ Covers(t, key)
    BY <1>6, <2>1, LookupFinds
  <2>3. t = s
    BY <1>1, <1>6, <2>2, CoversOnce
  <2> QED BY <2>2, <2>3
<1> QED BY <1>2, <1>7 DEF Keys

------------------------------------------------------------------------------
(* A table whose lengths the encoder computed.                               *)
LEMMA EncodedLengths ==
  ASSUME lengths \in [Symbols -> 0 .. MaxLength], FromEncoder
  PROVE  /\ IsHistogram(hist, N) /\ cap \in Nat \ {0} /\ Used = Active(hist)
         /\ N \in Nat /\ Used \in SUBSET (0 .. N - 1) /\ Leaves(hist) = Cardinality(Used)
         /\ \A s \in Symbols : lengths[s] <= cap /\ (lengths[s] = 0 <=> hist[s] = 0)
         /\ \A s \in Used : lengths[s] \in 1 .. cap /\ hist[s] \in Nat
         /\ Leaves(hist) = 1 \/ 2 <= Leaves(hist)
         /\ Leaves(hist) = 1 => \A s \in Used : lengths[s] = 1
         /\ 2 <= Leaves(hist) => Space(lengths, Used, cap, N) = Pow2(cap)
         /\ \A other : /\ \A s \in Used : other[s] \in 1 .. cap
                       /\ Space(other, Used, cap, N) <= Pow2(cap)
                       => Cost(hist, lengths, N) <= Cost(hist, other, N)
<1>1. /\ hist \in [Symbols -> Nat] /\ cap \in 1 .. MaxLength /\ MaxLength \in Nat
      /\ N \in Nat /\ N <= FirstTag /\ FirstTag \in Nat
  BY HuffmanTableAssumption, EncodedTableAssumption DEF FromEncoder, RedirectMarker
<1>2. IsHistogram(hist, N) /\ cap \in Nat \ {0} /\ DOMAIN hist = 0 .. N - 1
  BY <1>1 DEF IsHistogram, Symbols
<1>3. Leaves(hist) \in Nat /\ Leaves(hist) \in 1 .. Pow2(cap) /\ Active(hist) \in SUBSET (0 .. N - 1)
  BY <1>2, ActiveFacts DEF FromEncoder, Leaves
<1>4. 1 <= Leaves(hist) /\ Leaves(hist) <= Pow2(cap) /\ lengths = CanonicalHuffmanLengths(hist, cap)
  <2>1. Pow2(cap) \in Nat
    BY <1>2, Pow2Type
  <2> QED BY <1>3, <2>1 DEF FromEncoder
<1>5. /\ \A s \in 0 .. N - 1 : s \notin Active(hist) => lengths[s] = 0
      /\ \A s \in Active(hist) : lengths[s] \in 1 .. cap
      /\ Leaves(hist) = 1 => \A s \in Active(hist) : lengths[s] = 1
      /\ 2 <= Leaves(hist) => Space(lengths, Active(hist), cap, N) = Pow2(cap)
      /\ \A other : /\ \A s \in Active(hist) : other[s] \in 1 .. cap
                    /\ Space(other, Active(hist), cap, N) <= Pow2(cap)
                    => Cost(hist, lengths, N) <= Cost(hist, other, N)
  BY ONLY <1>1, <1>2, <1>4, CanonicalBest
<1>6. \A s \in 0 .. N - 1 : s \in Active(hist) <=> hist[s] # 0
  BY <1>1, <1>2 DEF Active, Symbols
<1>7. \A s \in 0 .. N - 1 : lengths[s] \in 0 .. cap /\ (lengths[s] > 0 <=> s \in Active(hist))
  BY <1>2, <1>5
<1>8. Used = Active(hist)
  BY <1>3, <1>7 DEF Used, Symbols
<1>9. Leaves(hist) = 1 \/ 2 <= Leaves(hist)
  BY <1>3, <1>4
<1>10. Leaves(hist) = Cardinality(Used)
  BY <1>8 DEF Leaves
<1>11. \A s \in Symbols : lengths[s] <= cap /\ (lengths[s] = 0 <=> hist[s] = 0)
  <2> SUFFICES ASSUME NEW s \in Symbols PROVE lengths[s] <= cap /\ (lengths[s] = 0 <=> hist[s] = 0)
    OBVIOUS
  <2>1. s \in 0 .. N - 1
    BY DEF Symbols
  <2> QED BY <1>2, <1>6, <1>7, <2>1
<1>12. \A s \in Used : lengths[s] \in 1 .. cap /\ hist[s] \in Nat
  BY <1>1, <1>3, <1>5, <1>8 DEF Symbols
<1> QED BY <1>1, <1>2, <1>3, <1>5, <1>8, <1>9, <1>10, <1>11, <1>12

(* Kraft's sum, as build's check has it.                                     *)
LEMMA KraftSpace ==
  ASSUME lengths \in [Symbols -> 0 .. MaxLength]
  PROVE  KraftSum = Space(lengths, Used, MaxLen, N)
<1> DEFINE f == [s \in Used |-> Pow2(MaxLen - lengths[s])]
           x == [i \in 1 .. N |-> Share(i - 1)]
           y == Picked(f, Used, N)
<1>1. N \in Nat
  BY HuffmanTableAssumption
<1>2. ASSUME NEW i \in 1 .. N PROVE x[i] = y[i]
  <2>1. i - 1 \in Symbols /\ lengths[i - 1] \in Nat
    <3>1. i - 1 \in Symbols
      BY <1>1 DEF Symbols
    <3>2. MaxLength \in Nat
      BY HuffmanTableAssumption DEF RedirectMarker
    <3> QED BY <3>1, <3>2
  <2>2. i - 1 \in Used <=> lengths[i - 1] # 0
    BY <2>1 DEF Used
  <2>3. x[i] = Share(i - 1) /\ y[i] = IF i - 1 \in Used THEN f[i - 1] ELSE 0
    BY DEF Picked
  <2> QED BY <2>2, <2>3 DEF Share
<1>3. KraftSum = Sum(x, N) /\ Space(lengths, Used, MaxLen, N) = Sum(y, N)
  BY DEF KraftSum, Space, Over
<1> HIDE DEF x, y
<1> QED BY <1>1, <1>2, <1>3, SumSame

LEMMA EncodedKraft ==
  ASSUME lengths \in [Symbols -> 0 .. MaxLength], FromEncoder
  PROVE  KraftSum = IF Cardinality(Used) = 1 THEN 1 ELSE Pow2(MaxLen)
<1>1. /\ cap \in Nat /\ N \in Nat /\ Used \in SUBSET (0 .. N - 1)
      /\ Cardinality(Used) = 1 \/ 2 <= Cardinality(Used)
      /\ Cardinality(Used) = 1 => \A s \in Used : lengths[s] = 1
      /\ 2 <= Cardinality(Used) => Space(lengths, Used, cap, N) = Pow2(cap)
      /\ \A s \in Used : lengths[s] \in 1 .. cap
  BY EncodedLengths
<1>2. MaxLen \in Nat /\ \A s \in Used : lengths[s] \in 0 .. MaxLen
  <2>1. MaxLength \in Nat
    BY HuffmanTableAssumption DEF RedirectMarker
  <2> QED BY <2>1, MaxLenProperties DEF Used
<1>3. CASE Cardinality(Used) = 1
  <2>1. PICK s : Used = {s}
    <3>1. IsFiniteSet(Used)
      BY <1>1, FiniteBelow
    <3> QED BY <1>3, <3>1, FS_Singleton
  <2>2. lengths[s] = 1 /\ s \in 0 .. N - 1 /\ s \in Symbols
    BY <1>1, <1>3, <2>1 DEF Symbols
  <2>3. MaxLen = 1
    <3>1. PICK t \in Symbols : lengths[t] = MaxLen
      BY MaxLenProperties
    <3>2. MaxLen >= 1
      BY <1>1, <1>2, <2>1, <2>2
    <3>3. t \in Used
      BY <3>1, <3>2 DEF Used
    <3> QED BY <2>1, <2>2, <3>1, <3>3
  <2> DEFINE f == [t \in {s} |-> Pow2(MaxLen - lengths[t])]
  <2>4. f[s] = 1
    <3>1. MaxLen - lengths[s] = 0
      BY <2>2, <2>3
    <3> QED BY <3>1, Pow2Equations
  <2>5. Space(lengths, {s}, MaxLen, N) = Over(f, {s}, N)
    BY DEF Space
  <2> HIDE DEF f
  <2>6. Over(f, {s}, N) = f[s]
    <3>1. f[s] \in Nat
      BY <2>4
    <3> QED BY ONLY <1>1, <2>2, <3>1, OverSingle
  <2>7. KraftSum = 1
    BY <2>1, <2>4, <2>5, <2>6, KraftSpace
  <2> QED BY <1>3, <2>7
<1>4. CASE 2 <= Cardinality(Used)
  <2>1. \A s \in Used : lengths[s] \in 0 .. MaxLen /\ lengths[s] \in 0 .. cap
    BY <1>1, <1>2
  <2>2. Space(lengths, Used, cap, N) = Pow2(cap)
    BY <1>1, <1>4
  <2>3. Space(lengths, Used, MaxLen, N) = Pow2(MaxLen)
    BY ONLY <1>1, <1>2, <2>1, <2>2, SpaceBound
  <2>4. Cardinality(Used) # 1
    BY <1>4
  <2> QED BY <2>3, <2>4, KraftSpace
<1> QED BY <1>1, <1>3, <1>4

LEMMA EncodedValid == Inv /\ (FromEncoder \/ FromElsewhere) => LengthsValid
<1> SUFFICES ASSUME Inv, FromEncoder
             PROVE  /\ \A s \in Symbols : (lengths[s] = 0 <=> hist[s] = 0) /\ lengths[s] <= cap
                    /\ KraftSum = IF Cardinality(Used) = 1 THEN 1 ELSE Pow2(MaxLen)
                    /\ phase # "overfull"
  BY DEF LengthsValid, Encoded, FromElsewhere
<1>1. lengths \in [Symbols -> 0 .. MaxLength] /\ KraftDecides
  BY DEF Inv, BaseInv
<1>2. KraftSum = IF Cardinality(Used) = 1 THEN 1 ELSE Pow2(MaxLen)
  BY <1>1, EncodedKraft
<1>3. phase # "overfull"
  <2>1. MaxLen \in Nat
    <3>1. MaxLength \in Nat
      BY HuffmanTableAssumption DEF RedirectMarker
    <3> QED BY <1>1, <3>1, MaxLenProperties
  <2>2. Pow2(MaxLen) \in Nat \ {0}
    BY <2>1, Pow2Type
  <2>3. ~ (KraftSum > Pow2(MaxLen))
    BY <1>2, <2>2
  <2> QED BY <1>1, <2>3 DEF KraftDecides
<1> QED BY <1>1, <1>2, <1>3, EncodedLengths

(* The sums of LengthsOptimal.                                               *)
LEMMA EncodedSums ==
  ASSUME Used = Active(hist), NEW l
  PROVE  /\ Bits(l) = Cost(hist, l, N)
         /\ KraftFits(l) <=> Space(l, Used, cap, N) <= Pow2(cap)
<1>1. N \in Nat
  BY HuffmanTableAssumption
<1>2. Bits(l) = Cost(hist, l, N)
  <2> DEFINE f == [s \in Used |-> hist[s] * l[s]]
             x == [i \in 1 .. N |-> IF i - 1 \in Used THEN hist[i - 1] * l[i - 1] ELSE 0]
             y == Picked(f, Used, N)
  <2>1. \A i \in 1 .. N : x[i] = y[i]
    BY DEF Picked
  <2>2. Bits(l) = Sum(x, N) /\ Cost(hist, l, N) = Sum(y, N)
    BY DEF Bits, Cost, Over
  <2> HIDE DEF x, y
  <2> QED BY <1>1, <2>1, <2>2, SumSame
<1>3. KraftFits(l) <=> Space(l, Used, cap, N) <= Pow2(cap)
  <2> DEFINE f == [s \in Used |-> Pow2(cap - l[s])]
             x == [i \in 1 .. N |-> IF i - 1 \in Used THEN Pow2(cap - l[i - 1]) ELSE 0]
             y == Picked(f, Used, N)
  <2>1. \A i \in 1 .. N : x[i] = y[i]
    BY DEF Picked
  <2>2. (KraftFits(l) <=> Sum(x, N) <= Pow2(cap)) /\ Space(l, Used, cap, N) = Sum(y, N)
    BY DEF KraftFits, Space, Over
  <2> HIDE DEF x, y
  <2>3. Sum(x, N) = Sum(y, N)
    BY <1>1, <2>1, SumSame
  <2> QED BY <2>2, <2>3
<1> QED BY <1>2, <1>3

LEMMA EncodedOptimal == Inv /\ (FromEncoder \/ FromElsewhere) => LengthsOptimal
<1> SUFFICES ASSUME Inv, FromEncoder, NEW other \in [Used -> 1 .. cap], KraftFits(other)
             PROVE  Bits(lengths) <= Bits(other)
  BY DEF LengthsOptimal, Encoded, FromElsewhere
<1>1. lengths \in [Symbols -> 0 .. MaxLength]
  BY DEF Inv, BaseInv
<1>2. /\ Used = Active(hist)
      /\ \A l : /\ \A s \in Used : l[s] \in 1 .. cap
                /\ Space(l, Used, cap, N) <= Pow2(cap)
                => Cost(hist, lengths, N) <= Cost(hist, l, N)
  BY <1>1, EncodedLengths
<1>3. Space(other, Used, cap, N) <= Pow2(cap)
  BY <1>2, EncodedSums
<1>4. Cost(hist, lengths, N) <= Cost(hist, other, N)
  BY <1>2, <1>3
<1> QED BY <1>2, <1>4, EncodedSums

------------------------------------------------------------------------------
(* Every state of build is well typed: no code outgrows its length, so no    *)
(* write of the fill loops is past the end of a table.                       *)
THEOREM TypeCorrect == Spec => []TypeOK
<1> QED BY InvCorrect, InvType, PTL

(* build refuses lengths whose shares of the code space exceed it, and no    *)
(* others: the rounding of the accumulator between tiers and its start at -1 *)
(* modulo 2^32 never change the answer.                                      *)
THEOREM KraftCorrect == Spec => []KraftDecides
<1>1. Inv => KraftDecides
  BY DEF Inv
<1> QED BY <1>1, InvCorrect, PTL

(* The fill loops of build never take back a slot that a symbol or a         *)
(* redirect was written to.                                                  *)
THEOREM WrittenOnceCorrect == Spec => WrittenOnce
<1>1. Inv /\ [Next]_vars =>
        [/\ Keeps(primary, primary')
         /\ \A i \in DOMAIN secondary : Keeps(secondary[i], secondary'[i])]_vars
  BY StepKeeps
<1> QED BY <1>1, InvCorrect, PTL DEF Spec, WrittenOnce

(* The lookups over a table that build returned find, for every string of    *)
(* bits, the symbol whose code it begins with and that code's length, and    *)
(* flag exactly the strings that begin with no code.                         *)
THEOREM DecodeCorrect == Spec => []DecodeExact
<1> QED BY InvCorrect, InvDecodes, PTL

(* A residual written with the encoder's code is read back as that residual, *)
(* and exactly the bits written are consumed, whatever bits follow: the two  *)
(* loops that number the codes, one in build_from_histogram and one in       *)
(* build, agree on every table of lengths.                                   *)
THEOREM CodesRoundTripCorrect == EncodedSpec => []CodesRoundTrip
<1>1. EncodedInit => Init
  BY DEF EncodedInit
<1>2. [EncodedNext]_encodedVars => [Next]_vars
  BY DEF EncodedNext, encodedVars
<1>3. EncodedSpec => Spec
  BY <1>1, <1>2, PTL DEF EncodedSpec, Spec
<1>4. Spec => []SameCodes
  BY InitSameCodes, StepSameCodes, InvCorrect, PTL DEF Spec
<1> QED BY <1>3, <1>4, InvCorrect, SameCodesRoundTrip, PTL

(* build runs on the lengths it is given: in every state they are still the  *)
(* encoder's, or no encoder's.                                               *)
LEMMA OriginKept ==
  /\ EncodedInit => FromEncoder \/ FromElsewhere
  /\ (FromEncoder \/ FromElsewhere) /\ [EncodedNext]_encodedVars => (FromEncoder \/ FromElsewhere)'
<1>1. ASSUME [EncodedNext]_encodedVars PROVE lengths' = lengths /\ hist' = hist /\ cap' = cap
  BY <1>1 DEF EncodedNext, encodedVars, Next, Tier, AssignCode, SkipUnused, FillTerminal,
              FillDeferred, ForSymbol, vars
<1>2. ASSUME FromEncoder, lengths' = lengths, hist' = hist, cap' = cap PROVE FromEncoder'
  BY <1>2 DEF FromEncoder
<1>3. ASSUME FromElsewhere, hist' = hist, cap' = cap PROVE FromElsewhere'
  BY <1>3 DEF FromElsewhere, Symbols
<1> QED BY <1>1, <1>2, <1>3 DEF EncodedInit

(* Whatever the histogram, canonical_huffman_lengths gives a code of 1 to    *)
(* cap bits to exactly the symbols that occur and fills the code space       *)
(* exactly (one symbol alone has one bit), so build never finds the table    *)
(* over-full.                                                                *)
THEOREM LengthsValidCorrect == EncodedSpec => []LengthsValid
<1>1. EncodedInit => Init
  BY DEF EncodedInit
<1>2. [EncodedNext]_encodedVars => [Next]_vars
  BY DEF EncodedNext, encodedVars
<1>3. EncodedSpec => Spec
  BY <1>1, <1>2, PTL DEF EncodedSpec, Spec
<1>4. EncodedSpec => [](FromEncoder \/ FromElsewhere)
  BY OriginKept, PTL DEF EncodedSpec
<1> QED BY <1>3, <1>4, InvCorrect, EncodedValid, PTL

(* And it is optimal: no prefix code with lengths up to cap packs the plane  *)
(* into fewer bits, neither when the tree was kept nor after package-merge.  *)
THEOREM LengthsOptimalCorrect == EncodedSpec => []LengthsOptimal
<1>1. EncodedInit => Init
  BY DEF EncodedInit
<1>2. [EncodedNext]_encodedVars => [Next]_vars
  BY DEF EncodedNext, encodedVars
<1>3. EncodedSpec => Spec
  BY <1>1, <1>2, PTL DEF EncodedSpec, Spec
<1>4. EncodedSpec => [](FromEncoder \/ FromElsewhere)
  BY OriginKept, PTL DEF EncodedSpec
<1> QED BY <1>3, <1>4, InvCorrect, EncodedOptimal, PTL
==============================================================================
