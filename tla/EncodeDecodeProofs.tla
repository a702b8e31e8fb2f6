-------------------------- MODULE EncodeDecodeProofs --------------------------
(***************************************************************************)
(* Proofs about EncodeDecode, for every set of requests and tables and     *)
(* every size: the blocks of the encoder, its choice of Auto, and that the *)
(* decoder accepts and finds what the encoder has put together.            *)
(***************************************************************************)
EXTENDS EncodeDecode, Lemmas

Stages == {"check", "residuals", "tables", "payloads", "assemble", "returned"}

(* What the input checks leave of a request. *)
Shaped ==
  /\ req.width % req.rec.subX = 0
  /\ req.height % req.rec.subY = 0
  /\ req.sliceHeight % req.rec.subY = 0
  /\ req.sliceHeight # 0

Running == stage \in {"residuals", "tables", "payloads", "assemble"}

(* Past the checks. *)
Taken == Running \/ verdict = "Ok"

Marked(k, kind) == [slice |-> k, kind |-> kind]

Residuals == [slice : Nat, kind : Kinds]

PayloadRecords ==
  [raw : BOOLEAN, kind : Kinds, block : Seq(Residuals), body : Nat,
   asHuffman : Nat, asRaw : Nat]

(* The residuals of slice s are where its row numbers say.                   *)
BlockDone(s) ==
  LET p == PlaneOf(s)
      k == IndexOf(s)
      w == Dims(p).width
  IN  /\ RowEnd(Dims(p), k) * w <= Len(residuals[p])
      /\ \A j \in RowStart(Dims(p), k) * w + 1 .. RowEnd(Dims(p), k) * w :
           residuals[p][j] = Marked(k, predictors[s + 1])

(* The residual loop: the slices done are in place, the plane it writes to   *)
(* ends where the next slice starts, and later planes are empty.             *)
ResidualsInv ==
  /\ predictors \in Seq(Kinds)
  /\ residuals \in [Planes(req.rec) -> Seq(Residuals)]
  /\ stage = "residuals" => Len(predictors) < TotalSlices
  /\ stage # "residuals" => Len(predictors) = TotalSlices
  /\ \A s \in 0 .. Len(predictors) - 1 : BlockDone(s)
  /\ Len(predictors) < TotalSlices =>
       LET p == PlaneOf(Len(predictors))
       IN  /\ Len(residuals[p]) = RowStart(Dims(p), IndexOf(Len(predictors))) * Dims(p).width
           /\ \A q \in Planes(req.rec) : q > p => residuals[q] = << >>

(* One table per plane, none with codes longer than the format allows. *)
HuffsInv ==
  /\ huffs \in Seq(Tables)
  /\ stage = "residuals" => huffs = << >>
  /\ stage = "tables" => Len(huffs) < req.rec.planes
  /\ stage \notin {"residuals", "tables"} => Len(huffs) = req.rec.planes
  /\ \A p \in DOMAIN huffs : huffs[p].maxLen <= MaxHuffLenFor(req.rec.depth)

(* A payload carries its slice's residuals, in the smaller form in Auto; a   *)
(* Huffman payload has room for the shortest code of every residual.         *)
PayloadGood(i) ==
  LET samples == SamplesOf(PlaneOf(i - 1), IndexOf(i - 1))
      y == payloads[i]
  IN  /\ samples \in Nat
      /\ Len(y.block) = samples
      /\ DOMAIN y.block = 1 .. samples
      /\ \A j \in 1 .. samples : y.block[j] = Marked(IndexOf(i - 1), y.kind)
      /\ y.asRaw = CeilDiv(samples * req.rec.depth, 8)
      /\ y.asHuffman >= CeilDiv(samples * huffs[PlaneOf(i - 1) + 1].minLen, 8)
      /\ y.body = IF y.raw THEN y.asRaw ELSE y.asHuffman
      /\ req.mode = "Auto" => (y.raw <=> y.asHuffman > y.asRaw)

PayloadsInv ==
  /\ payloads \in Seq(PayloadRecords)
  /\ stage \in {"residuals", "tables"} => payloads = << >>
  /\ stage = "payloads" => Len(payloads) < TotalSlices
  /\ stage \in {"assemble", "returned"} => Len(payloads) = TotalSlices
  /\ \A i \in 1 .. Len(payloads) : PayloadGood(i)

Assembled ==
  [len     |-> EvenUp(EncHeaderSize + PayloadOffset(TotalSlices)),
   entries |-> [s \in 1 .. TotalSlices |-> EntryOf(PayloadOffset(s - 1))],
   indexes |-> [s \in 1 .. TotalSlices |-> PlaneIndexByte(s - 1)],
   at      |-> [s \in 1 .. TotalSlices + 1 |-> EncHeaderSize + PayloadOffset(s - 1)]]

EncInv ==
  /\ stage \in Stages
  /\ req \in Requests
  /\ Running => verdict = "none"
  /\ verdict = "Ok" => stage = "returned" /\ packet = Assembled
  /\ ~ Taken => payloads = << >>
  /\ stage = "check" => /\ residuals = << >> /\ predictors = << >> /\ huffs = << >>
                        /\ verdict = "none"
  /\ Taken => Shaped /\ ResidualsInv /\ HuffsInv /\ PayloadsInv

------------------------------------------------------------------------------
(* The geometry of a request. *)

LEMMA RequestTyped ==
  ASSUME req \in Requests
  PROVE  req \in RequestRecords
BY EncoderAssumption

(* Its numbers of planes and slices. *)
LEMMA Counts ==
  ASSUME req \in Requests, Shaped
  PROVE  /\ req.rec.planes \in Nat /\ req.rec.planes >= 1
         /\ SlicesPerPlane \in Nat /\ SlicesPerPlane >= 1
         /\ TotalSlices \in Nat /\ TotalSlices >= 1
         /\ TotalSlices = req.rec.planes * SlicesPerPlane
<1>1. req \in RequestRecords
  BY RequestTyped
<1>2. req.rec.planes \in {1, 3, 4}
  BY <1>1 DEF RequestRecords, FourccRecords
<1>3. SlicesPerPlane \in Nat /\ SlicesPerPlane >= 1
  <2>1. req.height \in Nat /\ req.height > 0 /\ req.sliceHeight \in Nat /\ req.sliceHeight > 0
    BY <1>1 DEF RequestRecords, Shaped
  <2> QED BY <2>1, CeilDivNat DEF SlicesPerPlane
<1> QED BY <1>2, <1>3 DEF TotalSlices

(* A plane's slices have rows and follow each other. *)
LEMMA PlaneTiles ==
  ASSUME req \in Requests, Shaped, NEW p
  PROVE  /\ Dims(p).width \in Nat \ {0}
         /\ \A k \in 0 .. SlicesPerPlane - 1 :
              /\ RowStart(Dims(p), k) \in Nat /\ RowEnd(Dims(p), k) \in Nat
              /\ RowStart(Dims(p), k) < RowEnd(Dims(p), k)
              /\ RowStart(Dims(p), 0) = 0
              /\ k + 1 < SlicesPerPlane => RowEnd(Dims(p), k) = RowStart(Dims(p), k + 1)
<1> DEFINE g == Dims(p)
<1>1. /\ req.rec \in FourccRecords
      /\ req.width \in Nat \ {0} /\ req.height \in Nat \ {0} /\ req.sliceHeight \in Nat \ {0}
  BY RequestTyped DEF RequestRecords, Shaped
<1>2. /\ g.width \in Nat \ {0} /\ g.height \in Nat \ {0} /\ g.sliceHeight \in Nat \ {0}
      /\ \A k \in Nat : k < SlicesPerPlane <=> k * g.sliceHeight < g.height
  BY <1>1, PlaneShape DEF Dims, SlicesPerPlane, Shaped
<1> HIDE DEF g
<1>3. \A k \in 0 .. SlicesPerPlane - 1 :
              /\ RowStart(g, k) \in Nat /\ RowEnd(g, k) \in Nat
              /\ RowStart(g, k) < RowEnd(g, k)
              /\ RowStart(g, 0) = 0
              /\ k + 1 < SlicesPerPlane => RowEnd(g, k) = RowStart(g, k + 1)
  BY <1>2, Counts, SliceTiles
<1> QED BY <1>2, <1>3 DEF g

(* The place of a slice, and of the one after it. *)
LEMMA Places ==
  ASSUME req \in Requests, Shaped, NEW s \in Nat, s < TotalSlices
  PROVE  /\ PlaneOf(s) \in Planes(req.rec)
         /\ PlaneOf(s) \in Nat
         /\ IndexOf(s) \in 0 .. SlicesPerPlane - 1
         /\ s = SlicesPerPlane * PlaneOf(s) + IndexOf(s)
         /\ IndexOf(s) + 1 < SlicesPerPlane =>
              PlaneOf(s + 1) = PlaneOf(s) /\ IndexOf(s + 1) = IndexOf(s) + 1
         /\ IndexOf(s) + 1 = SlicesPerPlane =>
              PlaneOf(s + 1) = PlaneOf(s) + 1 /\ IndexOf(s + 1) = 0
<1> DEFINE n == SlicesPerPlane
           c == req.rec.planes
           q == PlaneOf(s)
<1>1. n \in Nat /\ n >= 1 /\ c \in Nat /\ TotalSlices = c * n
  BY Counts
<1> HIDE DEF n, c
<1>2. /\ s \div n \in Nat /\ s % n \in 0 .. n - 1
      /\ s = n * (s \div n) + (s % n)
      /\ (s % n) + 1 < n => (s + 1) \div n = s \div n /\ (s + 1) % n = (s % n) + 1
      /\ (s % n) + 1 = n => (s + 1) \div n = (s \div n) + 1 /\ (s + 1) % n = 0
  BY <1>1, CountOn
<1>3. q = s \div n /\ IndexOf(s) = s % n
      /\ PlaneOf(s + 1) = (s + 1) \div n /\ IndexOf(s + 1) = (s + 1) % n
  BY DEF PlaneOf, IndexOf, n
<1> HIDE DEF q
<1>4. q < c
  <2>1. q \in Nat /\ n * q <= s /\ s < c * n
    BY <1>1, <1>2, <1>3
  <2> SUFFICES ASSUME q >= c PROVE FALSE
    BY <1>1, <2>1
  <2>2. c * n <= q * n
    BY <1>1, <2>1
  <2> QED BY <1>1, <2>1, <2>2
<1>5. q \in Planes(req.rec)
  BY <1>1, <1>2, <1>3, <1>4 DEF Planes, c
<1> QED BY <1>2, <1>3, <1>5 DEF q, n

(* Samples of a slice, a plane's width times its rows. *)
LEMMA SamplesNat ==
  ASSUME req \in Requests, Shaped, NEW s \in Nat, s < TotalSlices
  PROVE  SamplesOf(PlaneOf(s), IndexOf(s)) \in Nat
<1>1. IndexOf(s) \in 0 .. SlicesPerPlane - 1
  BY Places
<1>2. /\ Dims(PlaneOf(s)).width \in Nat
      /\ RowStart(Dims(PlaneOf(s)), IndexOf(s)) \in Nat
      /\ RowEnd(Dims(PlaneOf(s)), IndexOf(s)) \in Nat
      /\ RowStart(Dims(PlaneOf(s)), IndexOf(s)) < RowEnd(Dims(PlaneOf(s)), IndexOf(s))
  BY <1>1, PlaneTiles
<1> QED BY <1>2 DEF SamplesOf

(* The arguments do not change, nor does what is computed from them alone.   *)
LEMMA RequestKept ==
  ASSUME UNCHANGED req
  PROVE  /\ SlicesPerPlane' = SlicesPerPlane /\ TotalSlices' = TotalSlices
         /\ Shaped' = Shaped
         /\ \A s : PlaneOf(s)' = PlaneOf(s) /\ IndexOf(s)' = IndexOf(s)
         /\ \A p : Dims(p)' = Dims(p)
         /\ \A p, k : SamplesOf(p, k)' = SamplesOf(p, k)
BY DEF SlicesPerPlane, TotalSlices, Shaped, PlaneOf, IndexOf, Dims, SamplesOf

------------------------------------------------------------------------------
(* The encoder's invariant. *)

LEMMA InitEnc == Init => EncInv
BY DEF Init, EncInv, Stages, Running, Taken

LEMMA ChecksShape ==
  ASSUME {i \in DOMAIN InputChecks : InputChecks[i].fails} = {}
  PROVE  Shaped
<1>1. \A i \in 1 .. 7 : i \in DOMAIN InputChecks
  BY DEF InputChecks
<1>2. ~ InputChecks[1].fails /\ ~ InputChecks[2].fails /\ ~ InputChecks[3].fails
      /\ ~ InputChecks[5].fails
  BY <1>1
<1> QED BY <1>2 DEF InputChecks, Shaped

LEMMA ChecksRefuse ==
  ASSUME NEW i \in DOMAIN InputChecks
  PROVE  InputChecks[i].error \notin {"none", "Ok"}
<1>1. i \in 1 .. 7
  BY DEF InputChecks
<1>2. i = 1 \/ i = 2 \/ i = 3 \/ i = 4 \/ i = 5 \/ i = 6 \/ i = 7
  BY <1>1
<1>3. CASE i = 1 BY <1>3 DEF InputChecks
<1>4. CASE i = 2 BY <1>4 DEF InputChecks
<1>5. CASE i = 3 BY <1>5 DEF InputChecks
<1>6. CASE i = 4 BY <1>6 DEF InputChecks
<1>7. CASE i = 5 BY <1>7 DEF InputChecks
<1>8. CASE i = 6 BY <1>8 DEF InputChecks
<1>9. CASE i = 7 BY <1>9 DEF InputChecks
<1> QED BY <1>2, <1>3, <1>4, <1>5, <1>6, <1>7, <1>8, <1>9

LEMMA CheckInputInv ==
  ASSUME EncInv, CheckInput
  PROVE  EncInv'
<1> DEFINE failing == {i \in DOMAIN InputChecks : InputChecks[i].fails}
<1>1. /\ stage = "check" /\ req' = req /\ req \in Requests
      /\ predictors' = << >> /\ huffs' = << >> /\ payloads' = << >>
      /\ verdict = "none"
  BY DEF EncInv, CheckInput, Taken, Running
<1>2. CASE failing = {}
  <2>1. /\ stage' = "residuals" /\ verdict' = "none"
        /\ residuals' = [p \in Planes(req.rec) |-> << >>]
    BY <1>1, <1>2 DEF CheckInput
  <2>2. Shaped
    BY <1>2, ChecksShape
  <2>3. /\ SlicesPerPlane \in Nat /\ SlicesPerPlane >= 1
        /\ TotalSlices \in Nat /\ TotalSlices >= 1
    BY <1>1, <2>2, Counts
  <2>4. PlaneOf(0) \in Planes(req.rec) /\ IndexOf(0) = 0
    BY <1>1, <2>2, <2>3, Places
  <2>5. RowStart(Dims(PlaneOf(0)), 0) = 0 /\ Dims(PlaneOf(0)).width \in Nat
    BY <1>1, <2>2, <2>3, PlaneTiles
  <2>6. ResidualsInv'
    <3>1. Len(predictors') = 0 /\ predictors' \in Seq(Kinds)
      BY <1>1
    <3>2. residuals' \in [Planes(req.rec) -> Seq(Residuals)]
      BY <2>1
    <3>3. \A p \in Planes(req.rec) : residuals'[p] = << >> /\ Len(residuals'[p]) = 0
      BY <2>1
    <3>4. Len(residuals'[PlaneOf(0)]) = RowStart(Dims(PlaneOf(0)), 0) * Dims(PlaneOf(0)).width
      BY <2>4, <2>5, <3>3
    <3> QED BY <1>1, <2>1, <2>3, <2>4, <3>1, <3>2, <3>3, <3>4, RequestKept DEF ResidualsInv
  <2>7. HuffsInv' /\ PayloadsInv'
    BY <1>1, <2>1 DEF HuffsInv, PayloadsInv
  <2> QED BY <1>1, <2>1, <2>2, <2>6, <2>7, RequestKept DEF EncInv, Stages, Running, Taken
<1>3. CASE failing # {}
  <2>1. stage' = "returned" /\ \E i \in failing : verdict' = InputChecks[i].error
    BY <1>1, <1>3 DEF CheckInput
  <2>2. verdict' # "Ok"
    BY <2>1, ChecksRefuse
  <2> QED BY <1>1, <2>1, <2>2 DEF EncInv, Stages, Running, Taken
<1> QED BY <1>2, <1>3

(* Appending a slice's residuals leaves the earlier ones where they are and  *)
(* puts its own where its row numbers say.                                   *)
LEMMA BuildSliceResidualsInv ==
  ASSUME EncInv, NEW kind \in Kinds, BuildSliceResiduals(kind)
  PROVE  EncInv'
<1>1. /\ stage = "residuals" /\ req \in Requests /\ req' = req /\ verdict = "none"
      /\ Shaped /\ ResidualsInv /\ HuffsInv /\ PayloadsInv
      /\ verdict' = verdict /\ huffs' = huffs /\ payloads' = payloads
  BY DEF EncInv, BuildSliceResiduals, Running, Taken
<1>2. PICK s \in Nat : s = Len(predictors)
  BY <1>1 DEF ResidualsInv
<1>3. PICK p, k : p = PlaneOf(s) /\ k = IndexOf(s)
  OBVIOUS
<1>4. s < TotalSlices
  BY <1>2 DEF BuildSliceResiduals
<1>5. /\ SlicesPerPlane \in Nat /\ SlicesPerPlane >= 1
      /\ TotalSlices \in Nat /\ TotalSlices = req.rec.planes * SlicesPerPlane
      /\ req.rec.planes \in Nat
  BY <1>1, Counts
<1>6. /\ p \in Planes(req.rec) /\ p \in Nat /\ k \in 0 .. SlicesPerPlane - 1
      /\ k + 1 < SlicesPerPlane => PlaneOf(s + 1) = p /\ IndexOf(s + 1) = k + 1
      /\ k + 1 = SlicesPerPlane => PlaneOf(s + 1) = p + 1 /\ IndexOf(s + 1) = 0
  BY <1>1, <1>3, <1>4, Places
<1>7. PICK w, lo, hi : w = Dims(p).width /\ lo = RowStart(Dims(p), k) /\ hi = RowEnd(Dims(p), k)
  OBVIOUS
<1>8. /\ w \in Nat \ {0} /\ lo \in Nat /\ hi \in Nat /\ lo < hi
      /\ k + 1 < SlicesPerPlane => hi = RowStart(Dims(p), k + 1)
  BY <1>1, <1>6, <1>7, PlaneTiles
<1>9. PICK a, b, c : a = lo * w /\ b = hi * w /\ c = SamplesOf(p, k)
  OBVIOUS
<1>10. a \in Nat /\ b \in Nat /\ c \in Nat /\ b = a + c
  <2>1. c = w * (hi - lo)
    BY <1>7, <1>9 DEF SamplesOf
  <2>2. w * (hi - lo) = hi * w - lo * w /\ w * (hi - lo) \in Nat
    BY <1>8
  <2>3. lo * w \in Nat /\ hi * w \in Nat
    BY <1>8
  <2> QED BY <1>9, <2>1, <2>2, <2>3
<1>11. PICK old : old = residuals[p]
  OBVIOUS
<1>12. old \in Seq(Residuals) /\ Len(old) = a
  BY <1>1, <1>2, <1>3, <1>4, <1>6, <1>7, <1>9, <1>11 DEF ResidualsInv
<1>13. PICK block : block = [i \in 1 .. c |-> Marked(k, kind)]
  OBVIOUS
<1>14. block \in Seq(Residuals) /\ Len(block) = c
  <2>1. Marked(k, kind) \in Residuals
    BY <1>5, <1>6 DEF Marked, Residuals
  <2> QED BY <1>10, <1>13, <2>1
<1>15. PICK new : new = old \o block
  OBVIOUS
<1>16. /\ new \in Seq(Residuals) /\ Len(new) = b
       /\ \A j \in 1 .. a : new[j] = old[j]
       /\ \A j \in a + 1 .. b : new[j] = Marked(k, kind)
  <2>1. /\ new \in Seq(Residuals) /\ Len(new) = a + c
        /\ \A j \in 1 .. a : new[j] = old[j]
        /\ \A i \in 1 .. c : new[a + i] = block[i]
    <3> DEFINE S == Residuals
    <3>1. old \in Seq(S) /\ block \in Seq(S)
      BY <1>12, <1>14
    <3> HIDE DEF S
    <3>2. /\ old \o block \in Seq(S) /\ Len(old \o block) = Len(old) + Len(block)
          /\ \A i \in 1 .. Len(old) : (old \o block)[i] = old[i]
          /\ \A i \in 1 .. Len(block) : (old \o block)[Len(old) + i] = block[i]
      BY <3>1, Concatenated
    <3> QED BY <1>12, <1>14, <1>15, <3>2 DEF S
  <2>2. ASSUME NEW j \in a + 1 .. b PROVE new[j] = Marked(k, kind)
    <3>1. j - a \in 1 .. c /\ j = a + (j - a)
      BY <1>10
    <3>2. new[j] = block[j - a]
      BY <2>1, <3>1
    <3> QED BY <1>13, <3>1, <3>2
  <2> QED BY <1>10, <2>1, <2>2
<1>17. /\ residuals \in [Planes(req.rec) -> Seq(Residuals)]
       /\ residuals' = [residuals EXCEPT ![p] = new]
       /\ predictors' = Append(predictors, kind) /\ predictors \in Seq(Kinds)
       /\ stage' = IF s + 1 = TotalSlices THEN "tables" ELSE "residuals"
  <2>1. residuals' = [residuals EXCEPT ![p] =
                        @ \o [i \in 1 .. SamplesOf(p, k) |-> [slice |-> k, kind |-> kind]]]
    BY <1>2, <1>3 DEF BuildSliceResiduals
  <2> QED BY <1>1, <1>2, <1>9, <1>11, <1>13, <1>15, <2>1
          DEF BuildSliceResiduals, ResidualsInv, Marked
<1>18. /\ residuals'[p] = new
       /\ \A q \in Planes(req.rec) : q # p => residuals'[q] = residuals[q]
       /\ residuals' \in [Planes(req.rec) -> Seq(Residuals)]
  BY <1>6, <1>16, <1>17
<1>19. /\ predictors' \in Seq(Kinds) /\ Len(predictors') = s + 1
       /\ predictors'[s + 1] = kind
       /\ \A i \in 1 .. s : predictors'[i] = predictors[i]
  BY <1>2, <1>17
<1>20. ASSUME NEW t \in 0 .. s PROVE BlockDone(t)'
  <2>1. CASE t = s
    BY <1>3, <1>7, <1>9, <1>10, <1>16, <1>18, <1>19, <2>1, RequestKept, <1>1 DEF BlockDone
  <2>2. CASE t # s
    <3>1. t \in Nat /\ t < TotalSlices /\ t \in 0 .. Len(predictors) - 1 /\ t + 1 \in 1 .. s
      BY <1>2, <1>4, <1>5, <2>2
    <3>2. BlockDone(t)
      BY <1>1, <3>1 DEF ResidualsInv
    <3>3. PICK q, i : q = PlaneOf(t) /\ i = IndexOf(t)
      OBVIOUS
    <3>4. q \in Planes(req.rec) /\ i \in 0 .. SlicesPerPlane - 1
      BY <1>1, <3>1, <3>3, Places
    <3>5. PICK v, d, e : v = Dims(q).width /\ d = RowStart(Dims(q), i) * v
                           /\ e = RowEnd(Dims(q), i) * v
      OBVIOUS
    <3>6. d \in Nat /\ e \in Nat
      BY <1>1, <3>4, <3>5, PlaneTiles
    <3>7. e <= Len(residuals[q]) /\ \A j \in d + 1 .. e : residuals[q][j] = Marked(i, predictors[t + 1])
      BY <3>2, <3>3, <3>5 DEF BlockDone
    <3>8. e <= Len(residuals'[q]) /\ \A j \in d + 1 .. e : residuals'[q][j] = residuals[q][j]
      <4>1. CASE q = p
        <5>1. e <= a
          BY <1>11, <1>12, <3>7, <4>1
        <5>2. ASSUME NEW j \in d + 1 .. e PROVE new[j] = old[j]
          <6>1. j \in 1 .. a
            BY <1>10, <3>6, <5>1
          <6> QED BY <1>16, <6>1
        <5> QED BY <1>10, <1>11, <1>16, <1>18, <3>6, <4>1, <5>1, <5>2
      <4>2. CASE q # p
        BY <1>18, <3>4, <3>7, <4>2
      <4> QED BY <4>1, <4>2
    <3>9. \A j \in d + 1 .. e : residuals'[q][j] = Marked(i, predictors'[t + 1])
      BY <1>19, <3>1, <3>7, <3>8
    <3> QED BY <1>1, <3>3, <3>5, <3>8, <3>9, RequestKept DEF BlockDone
  <2> QED BY <2>1, <2>2
<1>21. ASSUME s + 1 < TotalSlices
       PROVE  /\ Len(residuals'[PlaneOf(s + 1)])
                   = RowStart(Dims(PlaneOf(s + 1)), IndexOf(s + 1)) * Dims(PlaneOf(s + 1)).width
              /\ \A q \in Planes(req.rec) : q > PlaneOf(s + 1) => residuals'[q] = << >>
  <2>1. \A q \in Planes(req.rec) : q \in Nat /\ (q > p => residuals[q] = << >>)
    BY <1>1, <1>2, <1>3, <1>4 DEF ResidualsInv, Planes
  <2>2. CASE k + 1 < SlicesPerPlane
    <3>1. PlaneOf(s + 1) = p /\ IndexOf(s + 1) = k + 1
      BY <1>6, <2>2
    <3>2. Len(residuals'[p]) = RowStart(Dims(p), k + 1) * Dims(p).width
      BY <1>7, <1>8, <1>9, <1>16, <1>18, <2>2
    <3>3. \A q \in Planes(req.rec) : q > p => residuals'[q] = << >>
      <4>1. ASSUME NEW q \in Planes(req.rec), q > p PROVE residuals'[q] = << >>
        <5>1. residuals[q] = << >>
          BY <2>1, <4>1
        <5>2. q # p
          BY <1>6, <4>1
        <5> QED BY <1>18, <5>1, <5>2
      <4> QED BY <4>1
    <3> QED BY <3>1, <3>2, <3>3
  <2>3. CASE k + 1 = SlicesPerPlane
    <3>1. PlaneOf(s + 1) = p + 1 /\ IndexOf(s + 1) = 0
      BY <1>6, <2>3
    <3>2. p + 1 \in Planes(req.rec)
      BY <1>1, <1>2, <1>21, <3>1, Places
    <3>3. residuals'[p + 1] = << >>
      BY <1>6, <1>18, <2>1, <3>2
    <3>4. RowStart(Dims(p + 1), 0) = 0 /\ Dims(p + 1).width \in Nat
      BY <1>1, <1>5, PlaneTiles
    <3>5. \A q \in Planes(req.rec) : q > p + 1 => residuals'[q] = << >>
      <4>1. ASSUME NEW q \in Planes(req.rec), q > p + 1 PROVE residuals'[q] = << >>
        <5>1. q \in Nat
          BY <2>1
        <5>2. q > p /\ q # p
          BY <1>6, <4>1, <5>1
        <5>3. residuals[q] = << >>
          BY <2>1, <5>2
        <5> QED BY <1>18, <5>2, <5>3
      <4> QED BY <4>1
    <3> QED BY <3>1, <3>3, <3>4, <3>5
  <2> QED BY <1>5, <1>6, <2>2, <2>3
<1>22. ResidualsInv'
  <2>1. /\ stage' = "residuals" => Len(predictors') < TotalSlices
        /\ stage' # "residuals" => Len(predictors') = TotalSlices
    BY <1>4, <1>5, <1>17, <1>19
  <2>2. \A t \in 0 .. Len(predictors') - 1 : BlockDone(t)'
    BY <1>19, <1>20
  <2> QED BY <1>1, <1>18, <1>19, <1>21, <2>1, <2>2, RequestKept DEF ResidualsInv
<1>23. HuffsInv'
  <2>1. huffs = << >>
    BY <1>1 DEF HuffsInv
  <2> QED BY <1>1, <1>5, <1>17, <2>1, Counts DEF HuffsInv
<1>24. PayloadsInv'
  <2>1. payloads = << >>
    BY <1>1 DEF PayloadsInv
  <2> QED BY <1>1, <1>17, <2>1 DEF PayloadsInv
<1> QED BY <1>1, <1>17, <1>22, <1>23, <1>24, RequestKept DEF EncInv, Stages, Running, Taken

LEMMA BuildPlaneHuffInv ==
  ASSUME EncInv, NEW t \in Tables, BuildPlaneHuff(t)
  PROVE  EncInv'
<1>1. /\ stage = "tables" /\ req \in Requests /\ req' = req /\ verdict = "none"
      /\ Shaped /\ ResidualsInv /\ HuffsInv /\ PayloadsInv
      /\ verdict' = verdict /\ payloads' = payloads
      /\ residuals' = residuals /\ predictors' = predictors
      /\ huffs' = Append(huffs, t) /\ huffs \in Seq(Tables)
      /\ t.maxLen <= MaxHuffLenFor(req.rec.depth)
      /\ stage' = IF Len(huffs) + 1 = req.rec.planes THEN "payloads" ELSE "tables"
  BY DEF EncInv, BuildPlaneHuff, Running, Taken, HuffsInv
<1>2. req.rec.planes \in Nat /\ TotalSlices \in Nat /\ TotalSlices >= 1
  BY <1>1, Counts
<1>3. \A s : BlockDone(s)' = BlockDone(s)
  BY <1>1, RequestKept DEF BlockDone
<1>4. ResidualsInv'
  BY <1>1, <1>3, RequestKept DEF ResidualsInv
<1>5. HuffsInv'
  <2>1. PICK n \in Nat : n = Len(huffs)
    BY <1>1
  <2>2. /\ huffs' \in Seq(Tables) /\ Len(huffs') = n + 1 /\ huffs'[n + 1] = t
        /\ \A i \in 1 .. n : huffs'[i] = huffs[i]
    BY <1>1, <2>1
  <2>3. n < req.rec.planes
    BY <1>1, <2>1 DEF HuffsInv
  <2>4. ASSUME NEW p \in 1 .. n + 1 PROVE huffs'[p].maxLen <= MaxHuffLenFor(req.rec.depth)
    <3>1. CASE p = n + 1
      BY <1>1, <2>2, <3>1
    <3>2. CASE p # n + 1
      <4>1. p \in 1 .. n
        BY <3>2
      <4>2. p \in DOMAIN huffs
        BY <1>1, <2>1, <4>1
      <4> QED BY <1>1, <2>2, <4>1, <4>2 DEF HuffsInv
    <3> QED BY <3>1, <3>2
  <2>5. DOMAIN huffs' = 1 .. n + 1
    BY <2>2
  <2>6. \A p \in DOMAIN huffs' : huffs'[p].maxLen <= MaxHuffLenFor(req'.rec.depth)
    BY <1>1, <2>4, <2>5
  <2>7. stage' = IF n + 1 = req.rec.planes THEN "payloads" ELSE "tables"
    BY <1>1, <2>1
  <2> QED BY <1>1, <1>2, <2>2, <2>3, <2>6, <2>7 DEF HuffsInv
<1>6. PayloadsInv'
  <2>1. payloads = << >>
    BY <1>1 DEF PayloadsInv
  <2> QED BY <1>1, <1>2, <2>1, RequestKept DEF PayloadsInv
<1> QED BY <1>1, <1>4, <1>5, <1>6, RequestKept DEF EncInv, Stages, Running, Taken

(* Sizes of payloads. *)
LEMMA PackedMonotone ==
  ASSUME NEW x \in Nat, NEW y \in Nat, x <= y
  PROVE  CeilDiv(x, 8) \in Nat /\ CeilDiv(x, 8) <= CeilDiv(y, 8)
BY DEF CeilDiv

(* What is cut out of the plane again is the slice's residuals.              *)
LEMMA WritePayloadInv ==
  ASSUME EncInv, NEW extra \in ExtraBits, WritePayload(extra)
  PROVE  EncInv'
<1>1. /\ stage = "payloads" /\ req \in Requests /\ req' = req /\ verdict = "none"
      /\ Shaped /\ ResidualsInv /\ HuffsInv /\ PayloadsInv
      /\ verdict' = verdict /\ huffs' = huffs
      /\ residuals' = residuals /\ predictors' = predictors
  BY DEF EncInv, WritePayload, Running, Taken
<1>2. PICK s \in Nat : s = Len(payloads)
  BY <1>1 DEF PayloadsInv
<1>3. /\ s < TotalSlices /\ Len(predictors) = TotalSlices
      /\ TotalSlices \in Nat /\ req.rec.planes \in Nat
  BY <1>1, <1>2, Counts DEF PayloadsInv, ResidualsInv
<1>4. PICK p, k : p = PlaneOf(s) /\ k = IndexOf(s)
  OBVIOUS
<1>5. p \in Planes(req.rec) /\ p \in Nat /\ k \in 0 .. SlicesPerPlane - 1
  BY <1>1, <1>3, <1>4, Places
<1>6. PICK w, lo, hi : w = Dims(p).width /\ lo = RowStart(Dims(p), k) /\ hi = RowEnd(Dims(p), k)
  OBVIOUS
<1>7. w \in Nat /\ lo \in Nat /\ hi \in Nat /\ lo < hi
  BY <1>1, <1>5, <1>6, PlaneTiles
<1>8. PICK a, b, c : a = lo * w /\ b = hi * w /\ c = SamplesOf(p, k)
  OBVIOUS
<1>9. a \in Nat /\ b \in Nat /\ c \in Nat /\ b - a = c /\ a <= b
  <2>1. c = w * (hi - lo)
    BY <1>6, <1>8 DEF SamplesOf
  <2>2. w * (hi - lo) = hi * w - lo * w /\ w * (hi - lo) \in Nat
    BY <1>7
  <2>3. lo * w \in Nat /\ hi * w \in Nat
    BY <1>7
  <2> QED BY <1>8, <2>1, <2>2, <2>3
<1>10. PICK block : block = SubSeq(residuals[p], a + 1, b)
  OBVIOUS
<1>11. ResBlock(s) = block
  BY <1>4, <1>6, <1>8, <1>10 DEF ResBlock
<1>12. /\ Len(block) = c /\ DOMAIN block = 1 .. c /\ block \in Seq(Residuals)
       /\ \A j \in 1 .. c : block[j] = Marked(k, predictors[s + 1])
  <2>1. BlockDone(s)
    <3>1. s \in 0 .. Len(predictors) - 1
      BY <1>3
    <3> QED BY <1>1, <3>1 DEF ResidualsInv
  <2>2. b <= Len(residuals[p]) /\ \A j \in a + 1 .. b : residuals[p][j] = Marked(k, predictors[s + 1])
    BY <1>4, <1>6, <1>8, <2>1 DEF BlockDone
  <2>3. residuals[p] \in Seq(Residuals)
    BY <1>1, <1>5 DEF ResidualsInv
  <2>4. /\ block \in Seq(Residuals) /\ Len(block) = b - a
        /\ \A j \in 1 .. b - a : block[j] = residuals[p][a + j]
    BY <1>9, <1>10, <2>2, <2>3, CutOut
  <2>5. ASSUME NEW j \in 1 .. c PROVE block[j] = Marked(k, predictors[s + 1])
    <3>1. a + j \in a + 1 .. b
      BY <1>9
    <3> QED BY <1>9, <2>2, <2>4, <3>1
  <2> QED BY <1>9, <2>4, <2>5
<1>13. PICK t : t = huffs[p + 1]
  OBVIOUS
<1>14. t \in Tables /\ t.minLen \in Nat
  <2>1. Len(huffs) = req.rec.planes /\ huffs \in Seq(Tables)
    BY <1>1 DEF HuffsInv
  <2>2. p + 1 \in 1 .. Len(huffs)
    BY <1>3, <1>5, <2>1 DEF Planes
  <2> QED BY <1>13, <2>1, <2>2, ElementOfSeq, EncoderAssumption DEF TableRecords
<1>15. PICK bits, raw : bits = c * t.minLen + extra /\ raw = ChoosesRaw(c, PackedBytes(bits))
  OBVIOUS
<1>16. PICK y : y = [raw |-> raw, kind |-> predictors[s + 1], block |-> block,
            body |-> IF raw THEN PackedBytes(c * req.rec.depth) ELSE PackedBytes(bits),
            asHuffman |-> PackedBytes(bits), asRaw |-> PackedBytes(c * req.rec.depth)]
  OBVIOUS
<1>17. /\ payloads' = Append(payloads, y)
       /\ stage' = IF s + 1 = TotalSlices THEN "assemble" ELSE "payloads"
  BY <1>2, <1>4, <1>11, <1>12, <1>13, <1>15, <1>16 DEF WritePayload
<1>18. /\ c * t.minLen \in Nat /\ bits \in Nat /\ c * t.minLen <= bits
       /\ c * req.rec.depth \in Nat
  <2>1. req.rec.depth \in Nat /\ extra \in Nat
    BY <1>1, RequestTyped, EncoderAssumption DEF RequestRecords, FourccRecords
  <2>2. c * t.minLen \in Nat /\ c * req.rec.depth \in Nat
    BY <1>9, <1>14, <2>1
  <2> QED BY <1>15, <2>1, <2>2
<1>19. /\ PackedBytes(bits) \in Nat /\ PackedBytes(bits) >= CeilDiv(c * t.minLen, 8)
       /\ CeilDiv(c * t.minLen, 8) \in Nat
       /\ CeilDiv(c * req.rec.depth, 8) \in Nat
  <2>1. CeilDiv(c * t.minLen, 8) \in Nat /\ CeilDiv(c * t.minLen, 8) <= CeilDiv(bits, 8)
    BY <1>18, PackedMonotone
  <2>2. CeilDiv(c * req.rec.depth, 8) \in Nat /\ CeilDiv(bits, 8) \in Nat
    BY <1>18, PackedMonotone
  <2> QED BY <2>1, <2>2 DEF PackedBytes
<1>20. /\ raw \in BOOLEAN
       /\ req.mode = "Auto" => (raw <=> PackedBytes(bits) > CeilDiv(c * req.rec.depth, 8))
  <2>1. req.mode \in {"Huffman", "Raw", "Auto"}
    BY <1>1, RequestTyped DEF RequestRecords
  <2>2. CASE req.mode = "Huffman"
    BY <1>15, <2>2 DEF ChoosesRaw
  <2>3. CASE req.mode = "Raw"
    BY <1>15, <2>3 DEF ChoosesRaw
  <2>4. CASE req.mode = "Auto"
    <3>1. ChoosesRaw(c, PackedBytes(bits)) = (PackedBytes(bits) > RawSize(c))
      BY <2>4 DEF ChoosesRaw
    <3>2. RawSize(c) = CeilDiv(c * req.rec.depth, 8)
      BY DEF RawSize
    <3>3. raw = (PackedBytes(bits) > CeilDiv(c * req.rec.depth, 8))
      BY <1>15, <3>1, <3>2
    <3>4. (PackedBytes(bits) > CeilDiv(c * req.rec.depth, 8)) \in BOOLEAN
      BY <1>19
    <3> QED BY <2>4, <3>3, <3>4, Zenon
  <2> QED BY <2>1, <2>2, <2>3, <2>4
<1>21. /\ payloads' \in Seq(PayloadRecords) /\ Len(payloads') = s + 1
       /\ payloads'[s + 1] = y
       /\ \A i \in 1 .. s : payloads'[i] = payloads[i]
  <2>1. predictors[s + 1] \in Kinds
    <3>1. predictors \in Seq(Kinds) /\ s + 1 \in 1 .. Len(predictors)
      BY <1>1, <1>3 DEF ResidualsInv
    <3> QED BY <3>1, ElementOfSeq
  <2>2. /\ PackedBytes(c * req.rec.depth) \in Nat
        /\ (IF raw THEN PackedBytes(c * req.rec.depth) ELSE PackedBytes(bits)) \in Nat
    BY <1>19, <1>20 DEF PackedBytes
  <2>3. y \in PayloadRecords
    BY <1>12, <1>16, <1>19, <1>20, <2>1, <2>2 DEF PayloadRecords
  <2>4. payloads \in Seq(PayloadRecords)
    BY <1>1 DEF PayloadsInv
  <2> QED BY <1>2, <1>17, <2>3, <2>4
<1>22. PayloadGood(s + 1)'
  <2>1. (s + 1) - 1 = s
    OBVIOUS
  <2> QED BY <1>1, <1>4, <1>8, <1>9, <1>12, <1>13, <1>16, <1>19, <1>20, <1>21, <2>1, RequestKept
          DEF PayloadGood, PackedBytes
<1>23. ASSUME NEW i \in 1 .. s PROVE PayloadGood(i)'
  <2>1. PayloadGood(i)
    BY <1>1, <1>2 DEF PayloadsInv
  <2> QED BY <1>1, <1>21, <2>1, RequestKept DEF PayloadGood
<1>24. PayloadsInv'
  <2>1. ASSUME NEW i \in 1 .. s + 1 PROVE PayloadGood(i)'
    <3>1. i = s + 1 \/ i \in 1 .. s
      OBVIOUS
    <3> QED BY <1>22, <1>23, <3>1
  <2>2. \A i \in 1 .. Len(payloads') : PayloadGood(i)'
    BY <1>21, <2>1
  <2> QED BY <1>1, <1>3, <1>17, <1>21, <2>2, RequestKept DEF PayloadsInv
<1>25. \A i : BlockDone(i)' = BlockDone(i)
  BY <1>1, RequestKept DEF BlockDone
<1>26. ResidualsInv' /\ HuffsInv'
  BY <1>1, <1>17, <1>25, RequestKept DEF ResidualsInv, HuffsInv
<1> QED BY <1>1, <1>17, <1>24, <1>26, RequestKept DEF EncInv, Stages, Running, Taken

LEMMA AssembleInv ==
  ASSUME EncInv, Assemble
  PROVE  EncInv'
<1>1. /\ stage = "assemble" /\ req \in Requests /\ req' = req
      /\ Shaped /\ ResidualsInv /\ HuffsInv /\ PayloadsInv
      /\ payloads' = payloads /\ huffs' = huffs
      /\ residuals' = residuals /\ predictors' = predictors
      /\ stage' = "returned" /\ verdict' = "Ok" /\ packet' = Assembled
  BY DEF EncInv, Assemble, Running, Taken, Assembled
<1>2. Assembled' = Assembled
  BY <1>1 DEF Assembled, TotalSlices, SlicesPerPlane, PayloadOffset, TableBytes,
              DescriptorBytes, PlaneIndexByte, PlaneOf
<1>3. \A i : BlockDone(i)' = BlockDone(i)
  BY <1>1, RequestKept DEF BlockDone
<1>4. ResidualsInv' /\ HuffsInv'
  BY <1>1, <1>3, RequestKept DEF ResidualsInv, HuffsInv
<1>5. \A i \in 1 .. Len(payloads) : PayloadGood(i)' = PayloadGood(i)
  BY <1>1, RequestKept DEF PayloadGood
<1>6. PayloadsInv'
  BY <1>1, <1>5, RequestKept DEF PayloadsInv
<1> QED BY <1>1, <1>2, <1>4, <1>6, RequestKept DEF EncInv, Stages, Running, Taken

LEMMA EncStutter ==
  ASSUME EncInv, UNCHANGED encoderVars
  PROVE  EncInv'
<1>1. /\ stage' = stage /\ req' = req /\ verdict' = verdict /\ residuals' = residuals
      /\ predictors' = predictors /\ huffs' = huffs /\ payloads' = payloads
      /\ packet' = packet
  BY DEF encoderVars
<1>2. Assembled' = Assembled
  BY <1>1 DEF Assembled, TotalSlices, SlicesPerPlane, PayloadOffset, TableBytes,
              DescriptorBytes, PlaneIndexByte, PlaneOf
<1>3. \A i : BlockDone(i)' = BlockDone(i)
  BY <1>1, RequestKept DEF BlockDone
<1>4. ResidualsInv' = ResidualsInv /\ HuffsInv' = HuffsInv
  BY <1>1, <1>3, RequestKept DEF ResidualsInv, HuffsInv
<1>5. \A i \in 1 .. Len(payloads) : PayloadGood(i)' = PayloadGood(i)
  BY <1>1, RequestKept DEF PayloadGood
<1>6. PayloadsInv' = PayloadsInv
  BY <1>1, <1>5, RequestKept DEF PayloadsInv
<1> QED BY <1>1, <1>2, <1>4, <1>6, RequestKept DEF EncInv, Stages, Running, Taken

LEMMA EncNext == EncInv /\ [Next]_encoderVars => EncInv'
<1> SUFFICES ASSUME EncInv, [Next]_encoderVars PROVE EncInv'
  OBVIOUS
<1>1. CASE CheckInput
  BY <1>1, CheckInputInv
<1>2. CASE \E kind \in Kinds : BuildSliceResiduals(kind)
  BY <1>2, BuildSliceResidualsInv
<1>3. CASE \E t \in Tables : BuildPlaneHuff(t)
  BY <1>3, BuildPlaneHuffInv
<1>4. CASE \E extra \in ExtraBits : WritePayload(extra)
  BY <1>4, WritePayloadInv
<1>5. CASE Assemble
  BY <1>5, AssembleInv
<1>6. CASE UNCHANGED encoderVars
  BY <1>6, EncStutter
<1> QED BY <1>1, <1>2, <1>3, <1>4, <1>5, <1>6 DEF Next

(* The decoder leaves the encoder's state alone. *)
LEMMA PairEncInv == PairSpec => []EncInv
<1>1. PairInit => EncInv
  BY InitEnc DEF PairInit
<1>2. [PairNext]_pairVars => [Next]_encoderVars
  BY DEF PairNext, pairVars, Encode, Decode, Rest
<1> QED BY <1>1, <1>2, EncNext, PTL DEF PairSpec

------------------------------------------------------------------------------
(* Theorems about the encoder. *)

(* What a payload carries is the residuals of its own slice, all of them,    *)
(* made by the predictor whose id it carries (encoder.rs 1224 and 1670), for *)
(* every format, size and slice height the checks let through.               *)
THEOREM BlocksCorrect == PairSpec => []BlocksIntact
<1>1. ASSUME EncInv PROVE BlocksIntact
  <2> SUFFICES ASSUME NEW i \in DOMAIN payloads
               PROVE  /\ Len(payloads[i].block) = SamplesOf(PlaneOf(i - 1), IndexOf(i - 1))
                      /\ \A j \in DOMAIN payloads[i].block :
                           payloads[i].block[j] = [slice |-> IndexOf(i - 1), kind |-> payloads[i].kind]
    BY DEF BlocksIntact
  <2>1. Taken
    BY <1>1 DEF EncInv
  <2>2. PayloadsInv
    BY <1>1, <2>1 DEF EncInv
  <2>3. i \in 1 .. Len(payloads)
    BY <2>2 DEF PayloadsInv
  <2> QED BY <2>2, <2>3 DEF PayloadsInv, PayloadGood, Marked
<1> QED BY <1>1, PairEncInv, PTL

(* Where the payloads of a finished frame begin: each two prefix bytes and   *)
(* its body after the one before.                                            *)
LEMMA OffsetsOf ==
  ASSUME EncInv, verdict = "Ok"
  PROVE  /\ DescriptorBytes \in Nat
         /\ PayloadOffset(0) = 4 * (TotalSlices + 1) + 1 + TotalSlices + DescriptorBytes
         /\ \A s \in 0 .. TotalSlices : /\ PayloadOffset(s) \in Nat
                                        /\ PayloadOffset(0) <= PayloadOffset(s)
                                        /\ PayloadOffset(s) <= PayloadOffset(TotalSlices)
         /\ \A i \in 1 .. TotalSlices : /\ payloads[i].body \in Nat
                                        /\ PayloadOffset(i)
                                             = PayloadOffset(i - 1) + 2 + payloads[i].body
<1> DEFINE f == [i \in DOMAIN payloads |-> 2 + payloads[i].body]
           d == [p \in DOMAIN huffs |-> huffs[p].size]
<1>1. /\ req \in Requests /\ Shaped /\ HuffsInv /\ PayloadsInv
      /\ Len(payloads) = TotalSlices
  BY DEF EncInv, Taken, Running, PayloadsInv
<1>2. TotalSlices \in Nat
  BY <1>1, Counts
<1>3. \A i \in 1 .. TotalSlices : payloads[i].body \in Nat /\ i \in DOMAIN payloads
  <2> SUFFICES ASSUME NEW i \in 1 .. TotalSlices
               PROVE  payloads[i].body \in Nat /\ i \in DOMAIN payloads
    OBVIOUS
  <2>1. payloads \in Seq(PayloadRecords) /\ i \in 1 .. Len(payloads)
    BY <1>1 DEF PayloadsInv
  <2>2. payloads[i] \in PayloadRecords
    BY <2>1, ElementOfSeq
  <2> QED BY <2>1, <2>2 DEF PayloadRecords
<1>4. \A i \in 1 .. TotalSlices : f[i] = 2 + payloads[i].body /\ f[i] \in Nat
  BY <1>3
<1>5. DescriptorBytes \in Nat
  <2>1. huffs \in Seq(Tables) /\ Len(huffs) \in Nat
    BY <1>1 DEF HuffsInv
  <2>2. \A p \in 1 .. Len(huffs) : d[p] \in Nat
    <3> SUFFICES ASSUME NEW p \in 1 .. Len(huffs) PROVE d[p] \in Nat
      OBVIOUS
    <3>1. huffs[p] \in Tables /\ p \in DOMAIN huffs
      BY <2>1, ElementOfSeq
    <3> QED BY <3>1, EncoderAssumption DEF TableRecords
  <2> HIDE DEF d
  <2>3. Sum(d, Len(huffs)) \in Nat
    BY <2>1, <2>2, SumNat
  <2> QED BY <2>3 DEF DescriptorBytes, d
<1> DEFINE base == TableBytes + 1 + TotalSlices + DescriptorBytes
<1>6. base \in Nat /\ base = 4 * (TotalSlices + 1) + 1 + TotalSlices + DescriptorBytes
  BY <1>2, <1>5 DEF TableBytes
<1>7. \A s : PayloadOffset(s) = base + Sum(f, s)
  BY DEF PayloadOffset
<1> HIDE DEF f, base
<1>8. Sum(f, 0) = 0 /\ \A i \in 1 .. TotalSlices : Sum(f, i) = Sum(f, i - 1) + f[i]
  <2>1. \A n \in Nat : Sum(f, n + 1) = Sum(f, n) + f[n + 1]
    BY SumEquations
  <2>2. ASSUME NEW i \in 1 .. TotalSlices PROVE Sum(f, i) = Sum(f, i - 1) + f[i]
    <3>1. i - 1 \in Nat /\ (i - 1) + 1 = i
      BY <1>2
    <3> QED BY <2>1, <3>1
  <2> QED BY <2>2, SumEquations
<1>9. \A s \in 0 .. TotalSlices : Sum(f, s) \in Nat /\ Sum(f, s) <= Sum(f, TotalSlices)
  BY <1>2, <1>4, SumNat, SumGrows
<1>10. PayloadOffset(0) = base
  BY <1>6, <1>7, <1>8
<1>11. ASSUME NEW s \in 0 .. TotalSlices
       PROVE  /\ PayloadOffset(s) \in Nat /\ PayloadOffset(0) <= PayloadOffset(s)
              /\ PayloadOffset(s) <= PayloadOffset(TotalSlices)
  <2>1. Sum(f, s) \in Nat /\ Sum(f, TotalSlices) \in Nat /\ Sum(f, s) <= Sum(f, TotalSlices)
    BY <1>2, <1>9
  <2> QED BY <1>6, <1>7, <1>10, <2>1
<1>12. ASSUME NEW i \in 1 .. TotalSlices
       PROVE  PayloadOffset(i) = PayloadOffset(i - 1) + 2 + payloads[i].body
  <2>1. i - 1 \in 0 .. TotalSlices
    BY <1>2
  <2>2. Sum(f, i - 1) \in Nat /\ payloads[i].body \in Nat
    BY <1>3, <1>9, <2>1
  <2> QED BY <1>4, <1>6, <1>7, <1>8, <2>2
<1> QED BY <1>3, <1>5, <1>6, <1>10, <1>11, <1>12

LEMMA EvenUpMonotone ==
  ASSUME NEW m \in Nat, NEW n \in Nat
  PROVE  /\ EvenUp(m) \in Nat /\ m <= EvenUp(m)
         /\ m <= n => EvenUp(m) <= EvenUp(n)
<1>1. PICK a \in Nat, b \in {0, 1} : m = 2 * a + b /\ m % 2 = b
  OBVIOUS
<1>2. PICK c \in Nat, d \in {0, 1} : n = 2 * c + d /\ n % 2 = d
  OBVIOUS
<1> QED BY <1>1, <1>2 DEF EvenUp

(* No payload bodies each at least as long make a shorter frame.             *)
LEMMA LengthMonotone ==
  ASSUME EncInv, verdict = "Ok", NEW bodies, DOMAIN bodies = DOMAIN payloads,
         \A i \in 1 .. TotalSlices : bodies[i] \in Nat /\ payloads[i].body <= bodies[i]
  PROVE  packet.len <= FrameLength(bodies)
<1> DEFINE f == [i \in DOMAIN payloads |-> 2 + payloads[i].body]
           g == [i \in DOMAIN bodies |-> 2 + bodies[i]]
           t == TotalSlices
<1>1. /\ t \in Nat /\ Len(payloads) = t /\ DOMAIN payloads = 1 .. t
      /\ packet.len = EvenUp(EncHeaderSize + PayloadOffset(t))
  <2>1. PayloadsInv /\ Shaped /\ req \in Requests /\ stage = "returned" /\ packet = Assembled
    BY DEF EncInv, Taken
  <2> QED BY <2>1, Counts DEF PayloadsInv, Assembled
<1>2. \A i \in 1 .. t : f[i] \in Nat /\ g[i] \in Nat /\ f[i] <= g[i]
  <2> SUFFICES ASSUME NEW i \in 1 .. t PROVE f[i] \in Nat /\ g[i] \in Nat /\ f[i] <= g[i]
    OBVIOUS
  <2>1. payloads[i].body \in Nat /\ bodies[i] \in Nat /\ payloads[i].body <= bodies[i]
    BY OffsetsOf
  <2>2. f[i] = 2 + payloads[i].body /\ g[i] = 2 + bodies[i]
    BY <1>1
  <2> HIDE DEF f, g
  <2> QED BY <2>1, <2>2
<1>3. PayloadOffset(t) = TableBytes + 1 + t + DescriptorBytes + Sum(f, t)
      /\ PayloadOffset(0) = TableBytes + 1 + t + DescriptorBytes + Sum(f, 0)
      /\ FrameLength(bodies) = EvenUp(EncHeaderSize + PayloadOffset(0) + Sum(g, t))
  BY DEF PayloadOffset, FrameLength
<1> HIDE DEF f, g, t
<1>4. Sum(f, t) <= Sum(g, t) /\ Sum(f, t) \in Nat /\ Sum(g, t) \in Nat /\ Sum(f, 0) = 0
  BY <1>1, <1>2, SumMonotone, SumNat, SumEquations
<1>5. PayloadOffset(0) \in Nat /\ PayloadOffset(t) \in Nat
  BY <1>1, OffsetsOf DEF t
<1>6. TableBytes + 1 + t + DescriptorBytes \in Nat
  BY <1>1, OffsetsOf DEF TableBytes, t
<1>7. PayloadOffset(t) <= PayloadOffset(0) + Sum(g, t)
  BY <1>3, <1>4, <1>6
<1>8. /\ EncHeaderSize + PayloadOffset(t) \in Nat
      /\ EncHeaderSize + PayloadOffset(0) + Sum(g, t) \in Nat
      /\ EncHeaderSize + PayloadOffset(t) <= EncHeaderSize + PayloadOffset(0) + Sum(g, t)
  BY <1>4, <1>5, <1>7 DEF EncHeaderSize
<1> QED BY <1>1, <1>3, <1>8, EvenUpMonotone

(* Auto picks the smaller of the two bodies of every slice, as they will be  *)
(* written; so no frame of the same residuals and tables in one mode         *)
(* throughout is shorter (encoder.rs 29-32).                                 *)
THEOREM AutoCorrect == PairSpec => []AutoNeverLonger
<1>1. ASSUME EncInv, verdict = "Ok", req.mode = "Auto"
      PROVE  /\ packet.len <= FrameLength([i \in DOMAIN payloads |-> payloads[i].asHuffman])
             /\ packet.len <= FrameLength([i \in DOMAIN payloads |-> payloads[i].asRaw])
  <2>1. PayloadsInv /\ Len(payloads) = TotalSlices
    BY <1>1 DEF EncInv, Taken, PayloadsInv
  <2>2. ASSUME NEW i \in 1 .. TotalSlices
        PROVE  /\ payloads[i].asHuffman \in Nat /\ payloads[i].asRaw \in Nat
               /\ payloads[i].body <= payloads[i].asHuffman
               /\ payloads[i].body <= payloads[i].asRaw
    <3>1. payloads \in Seq(PayloadRecords) /\ PayloadGood(i) /\ i \in 1 .. Len(payloads)
      BY <2>1 DEF PayloadsInv
    <3>2. payloads[i] \in PayloadRecords
      BY <3>1, ElementOfSeq
    <3>3. PICK y : y = payloads[i]
      OBVIOUS
    <3>4. y.asHuffman \in Nat /\ y.asRaw \in Nat /\ y.raw \in BOOLEAN
      BY <3>2, <3>3 DEF PayloadRecords
    <3>5. /\ y.body = IF y.raw THEN y.asRaw ELSE y.asHuffman
          /\ y.raw <=> y.asHuffman > y.asRaw
      BY <1>1, <3>1, <3>3 DEF PayloadGood
    <3>6. y.body <= y.asHuffman /\ y.body <= y.asRaw
      BY <3>4, <3>5
    <3> QED BY <3>3, <3>4, <3>6
  <2>3. DOMAIN payloads = 1 .. TotalSlices
    BY <2>1 DEF PayloadsInv
  <2>4. packet.len <= FrameLength([i \in DOMAIN payloads |-> payloads[i].asHuffman])
    <3> DEFINE bodies == [i \in DOMAIN payloads |-> payloads[i].asHuffman]
    <3>1. /\ DOMAIN bodies = DOMAIN payloads
          /\ \A i \in 1 .. TotalSlices : bodies[i] \in Nat /\ payloads[i].body <= bodies[i]
      BY <2>2, <2>3
    <3> HIDE DEF bodies
    <3>2. packet.len <= FrameLength(bodies)
      BY <1>1, <3>1, LengthMonotone
    <3> QED BY <3>2 DEF bodies
  <2>5. packet.len <= FrameLength([i \in DOMAIN payloads |-> payloads[i].asRaw])
    <3> DEFINE bodies == [i \in DOMAIN payloads |-> payloads[i].asRaw]
    <3>1. /\ DOMAIN bodies = DOMAIN payloads
          /\ \A i \in 1 .. TotalSlices : bodies[i] \in Nat /\ payloads[i].body <= bodies[i]
      BY <2>2, <2>3
    <3> HIDE DEF bodies
    <3>2. packet.len <= FrameLength(bodies)
      BY <1>1, <3>1, LengthMonotone
    <3> QED BY <3>2 DEF bodies
  <2> QED BY <2>4, <2>5
<1>2. EncInv => AutoNeverLonger
  BY <1>1 DEF AutoNeverLonger
<1> QED BY <1>2, PairEncInv, PTL

------------------------------------------------------------------------------
(* The decoder on the packet.                                                *)

(* The frame is one the format can express: its sizes pass the decoder's     *)
(* limit, and its offsets fit a slice table entry.  The encoder checks       *)
(* neither (the runs EncodeLong and EncodeZeroSlice have what it does not    *)
(* check).                                                                   *)
Representable ==
  verdict = "Ok" =>
    /\ req.width <= MaxDimension /\ req.height <= MaxDimension
    /\ req.sliceHeight <= MaxDimension
    /\ packet.len <= OffsetSpace

FrameHead == HeadOf(req, packet.len, packet.entries[1])

Sizes == [p \in DOMAIN huffs |-> huffs[p].size]

Place(s) == [plane |-> PlaneOf(s), idx |-> IndexOf(s)]

(* The bytes of slice i, and how it is coded. *)
RangeOf(i) ==
  [start |-> packet.at[i],
   end   |-> IF i < TotalSlices THEN packet.at[i + 1] ELSE packet.len,
   raw   |-> payloads[i].raw]

(* The slice map: the slices in the encoder's order; the counters stand at   *)
(* the next slice, and those of later planes at 0.                           *)
MapGood ==
  /\ sliceMap \in Seq([plane : Nat, idx : Nat])
  /\ dpc \in {"idle", "header", "layout"} => sliceMap = << >>
  /\ dpc = "map" => Len(sliceMap) < TotalSlices
  /\ dpc \in {"tables", "validate", "take", "slices"} => Len(sliceMap) = TotalSlices
  /\ \A i \in 1 .. Len(sliceMap) : sliceMap[i] = Place(i - 1)
  /\ dpc = "map" =>
       /\ planeFill \in [Planes(req.rec) -> Nat]
       /\ planeFill[PlaneOf(Len(sliceMap))] = IndexOf(Len(sliceMap))
       /\ \A q \in Planes(req.rec) : q > PlaneOf(Len(sliceMap)) => planeFill[q] = 0

(* The tables read, and the cursor after them. *)
TablesGood ==
  /\ tables \in Seq([minLen : Nat, complete : BOOLEAN])
  /\ dpc \in {"idle", "header", "layout", "map"} => tables = << >>
  /\ dpc = "tables" => Len(tables) < req.rec.planes
  /\ dpc \in {"validate", "take", "slices"} => Len(tables) = req.rec.planes
  /\ \A p \in 1 .. Len(tables) : tables[p].minLen = huffs[p].minLen
  /\ dpc \in {"map", "tables"} => descPos = 1 + TotalSlices + Sum(Sizes, Len(tables))

RangesGood ==
  /\ ranges \in Seq([start : Int, end : Int, raw : BOOLEAN])
  /\ dpc \in {"idle", "header", "layout", "map", "tables"} => ranges = << >>
  /\ dpc = "validate" => Len(ranges) < TotalSlices
  /\ dpc \in {"take", "slices"} => Len(ranges) = TotalSlices
  /\ \A i \in 1 .. Len(ranges) : ranges[i] = RangeOf(i)

DecGood ==
  /\ dpc \in {"idle", "header", "layout", "map", "tables", "validate", "take", "slices"}
  /\ result \in {"none", "Ok"}
  /\ dpc # "idle" => pkt = FrameHead
  /\ decoded \in Nat
  /\ MapGood /\ TablesGood /\ RangesGood

DecInv ==
  /\ verdict # "Ok" => /\ dpc = "idle" /\ result = "none" /\ decoded = 0
                       /\ sliceMap = << >> /\ tables = << >> /\ ranges = << >>
  /\ verdict = "Ok" /\ Representable => DecGood

(* The packet's fields, with no offset cut off. *)
LEMMA PacketFacts ==
  ASSUME EncInv, verdict = "Ok", Representable
  PROVE  /\ packet.len \in Nat
         /\ EncHeaderSize + PayloadOffset(TotalSlices) <= packet.len
         /\ Len(packet.entries) = TotalSlices
         /\ \A i \in 1 .. TotalSlices + 1 : packet.at[i] = EncHeaderSize + PayloadOffset(i - 1)
         /\ \A i \in 1 .. TotalSlices : /\ packet.entries[i] = PayloadOffset(i - 1)
                                        /\ packet.indexes[i] = PlaneOf(i - 1)
<1>1. req \in Requests /\ Shaped /\ packet = Assembled
  BY DEF EncInv, Taken
<1>2. TotalSlices \in Nat
  BY <1>1, Counts
<1>3. PayloadOffset(TotalSlices) \in Nat
  BY <1>2, OffsetsOf
<1>4. packet.len \in Nat /\ EncHeaderSize + PayloadOffset(TotalSlices) <= packet.len
  <2>1. EncHeaderSize + PayloadOffset(TotalSlices) \in Nat
    BY <1>3 DEF EncHeaderSize
  <2>2. packet.len = EvenUp(EncHeaderSize + PayloadOffset(TotalSlices))
    BY <1>1 DEF Assembled
  <2> QED BY <2>1, <2>2, EvenUpMonotone
<1>5. /\ packet.entries = [s \in 1 .. TotalSlices |-> EntryOf(PayloadOffset(s - 1))]
      /\ packet.indexes = [s \in 1 .. TotalSlices |-> PlaneIndexByte(s - 1)]
      /\ packet.at = [s \in 1 .. TotalSlices + 1 |-> EncHeaderSize + PayloadOffset(s - 1)]
  BY <1>1 DEF Assembled
<1>6. ASSUME NEW i \in 1 .. TotalSlices
      PROVE  packet.entries[i] = PayloadOffset(i - 1)
  <2>1. i - 1 \in 0 .. TotalSlices
    BY <1>2
  <2>2. PICK o : o = PayloadOffset(i - 1)
    OBVIOUS
  <2>3. o \in Nat /\ o <= PayloadOffset(TotalSlices)
    BY <2>1, <2>2, OffsetsOf
  <2>4. o < OffsetSpace /\ OffsetSpace \in Nat
    BY <1>3, <1>4, <2>3, EncoderAssumption DEF Representable, EncHeaderSize
  <2>5. o % OffsetSpace = o
    BY <2>3, <2>4
  <2> QED BY <1>5, <2>2, <2>5 DEF EntryOf
<1>7. Len(packet.entries) = TotalSlices
  BY <1>2, <1>5
<1> QED BY <1>4, <1>5, <1>6, <1>7 DEF PlaneIndexByte

(* What the decoder computes from the head is what the encoder had. *)
LEMMA HeadFacts ==
  ASSUME EncInv, verdict = "Ok", Representable
  PROVE  /\ D!SlicesPerPlane(FrameHead) = SlicesPerPlane
         /\ D!TotalSlices(FrameHead) = TotalSlices
         /\ D!PreambleStart(FrameHead) = 36 + 4 * TotalSlices
         /\ D!PreambleEnd(FrameHead) = 32 + PayloadOffset(0)
         /\ D!PreambleLen(FrameHead) = 1 + TotalSlices + DescriptorBytes
         /\ PayloadOffset(0) = 5 + 5 * TotalSlices + DescriptorBytes
         /\ 32 + PayloadOffset(0) <= packet.len
         /\ FrameHead.rec = req.rec /\ FrameHead.len = packet.len /\ FrameHead.planeCount = req.rec.planes
<1>1. req \in Requests /\ Shaped
  BY DEF EncInv, Taken
<1>2. TotalSlices \in Nat /\ TotalSlices >= 1
  BY <1>1, Counts
<1>3. /\ FrameHead.rec = req.rec /\ FrameHead.len = packet.len /\ FrameHead.planeCount = req.rec.planes
      /\ FrameHead.height = req.height /\ FrameHead.sliceHeight = req.sliceHeight
      /\ FrameHead.entry1 = packet.entries[1]
  BY DEF FrameHead, HeadOf
<1>4. D!SlicesPerPlane(FrameHead) = SlicesPerPlane
  BY <1>3 DEF D!SlicesPerPlane, D!CeilDiv, SlicesPerPlane, CeilDiv
<1>5. D!TotalSlices(FrameHead) = TotalSlices
  BY <1>3, <1>4 DEF D!TotalSlices, TotalSlices
<1>6. packet.entries[1] = PayloadOffset(0)
  <2>1. 1 \in 1 .. TotalSlices /\ 1 - 1 = 0
    BY <1>2
  <2>2. packet.entries[1] = PayloadOffset(1 - 1)
    BY <2>1, PacketFacts
  <2> QED BY <2>1, <2>2
<1>7. /\ DescriptorBytes \in Nat
      /\ PayloadOffset(0) = 4 * (TotalSlices + 1) + 1 + TotalSlices + DescriptorBytes
      /\ PayloadOffset(0) <= PayloadOffset(TotalSlices) /\ PayloadOffset(TotalSlices) \in Nat
  BY <1>2, OffsetsOf
<1>8. PayloadOffset(0) = 5 + 5 * TotalSlices + DescriptorBytes
  BY <1>2, <1>7
<1>9. 32 + PayloadOffset(0) <= packet.len
  <2>1. packet.len \in Nat /\ 32 + PayloadOffset(TotalSlices) <= packet.len
    BY PacketFacts DEF EncHeaderSize
  <2> QED BY <1>2, <1>7, <1>8, <2>1
<1>10. D!PreambleStart(FrameHead) = 36 + 4 * TotalSlices
  BY <1>2, <1>5 DEF D!PreambleStart, D!HeaderSize
<1>11. D!PreambleEnd(FrameHead) = 32 + PayloadOffset(0)
  BY <1>2, <1>3, <1>6, <1>7, <1>8 DEF D!PreambleEnd, D!HeaderSize
<1>12. D!PreambleLen(FrameHead) = 1 + TotalSlices + DescriptorBytes
  BY <1>2, <1>7, <1>8, <1>10, <1>11 DEF D!PreambleLen
<1> QED BY <1>3, <1>4, <1>5, <1>8, <1>9, <1>10, <1>11, <1>12

(* It expects of a slice the samples that are in its block.                  *)
LEMMA HeadPixels ==
  ASSUME EncInv, verdict = "Ok", NEW s \in Nat, s < TotalSlices
  PROVE  /\ D!Pixels(FrameHead, Place(s)) = SamplesOf(PlaneOf(s), IndexOf(s))
         /\ SamplesOf(PlaneOf(s), IndexOf(s)) \in Nat
<1>1. req \in Requests /\ Shaped
  BY DEF EncInv, Taken
<1>2. PICK p, k : p = PlaneOf(s) /\ k = IndexOf(s)
  OBVIOUS
<1>3. k \in 0 .. SlicesPerPlane - 1
  BY <1>1, <1>2, Places
<1>4. PICK g : g = Dims(p)
  OBVIOUS
<1>5. /\ g.width \in Nat /\ RowStart(g, k) \in Nat /\ RowEnd(g, k) \in Nat
      /\ RowStart(g, k) < RowEnd(g, k)
  BY <1>1, <1>3, <1>4, PlaneTiles
<1>6. D!Geom(FrameHead, p) = g
  BY <1>4 DEF D!Geom, D!PlaneGeom, D!SubX, D!SubY, D!Chroma, FrameHead, HeadOf,
              Dims, PlaneGeom, SubX, SubY, Chroma
<1>7. D!RowStart(g, k) = RowStart(g, k) /\ D!RowEnd(g, k) = RowEnd(g, k)
  BY DEF D!RowStart, D!RowEnd, D!Lower, RowStart, RowEnd, Lower
<1>8. D!Pixels(FrameHead, Place(s)) = (IF RowEnd(g, k) - RowStart(g, k) < 0 THEN 0
                                  ELSE RowEnd(g, k) - RowStart(g, k)) * g.width
  BY <1>2, <1>6, <1>7 DEF D!Pixels, Place
<1>9. SamplesOf(p, k) = g.width * (RowEnd(g, k) - RowStart(g, k))
  BY <1>4 DEF SamplesOf
<1>10. D!Pixels(FrameHead, Place(s)) = (RowEnd(g, k) - RowStart(g, k)) * g.width
  BY <1>5, <1>8
<1>11. RowEnd(g, k) - RowStart(g, k) \in Nat
  BY <1>5
<1> QED BY <1>2, <1>5, <1>9, <1>10, <1>11

------------------------------------------------------------------------------
(* The decoder's invariant. *)

(* What the decoder reads of the encoder does not change under it.           *)
LEMMA EncoderKept ==
  ASSUME UNCHANGED encoderVars
  PROVE  /\ req' = req /\ verdict' = verdict /\ packet' = packet
         /\ huffs' = huffs /\ payloads' = payloads
         /\ SlicesPerPlane' = SlicesPerPlane /\ TotalSlices' = TotalSlices
         /\ Sizes' = Sizes /\ FrameHead' = FrameHead /\ Representable' = Representable
         /\ \A s : PlaneOf(s)' = PlaneOf(s) /\ IndexOf(s)' = IndexOf(s) /\ Place(s)' = Place(s)
         /\ \A i : RangeOf(i)' = RangeOf(i)
<1>1. req' = req /\ verdict' = verdict /\ packet' = packet /\ huffs' = huffs /\ payloads' = payloads
  BY DEF encoderVars
<1> QED BY <1>1, RequestKept DEF Sizes, FrameHead, HeadOf, Representable, Place, RangeOf

(* A step of the decoder, past the start. *)
Working ==
  EncInv /\ DecInv /\ verdict = "Ok" /\ Representable /\ DecGood

LEMMA NoneFails ==
  ASSUME NEW checks, D!Passes(checks)
  PROVE  \A e : ~ D!FailsWith(checks, e)
BY DEF D!Passes, D!FailsWith

LEMMA WorkingFacts ==
  ASSUME Working
  PROVE  /\ req \in Requests /\ req \in RequestRecords /\ Shaped
         /\ TotalSlices \in Nat /\ TotalSlices >= 1
         /\ SlicesPerPlane \in Nat /\ SlicesPerPlane >= 1
         /\ req.rec.planes \in Nat /\ req.rec.planes >= 1
         /\ packet.len \in Nat /\ DescriptorBytes \in Nat
<1>1. req \in Requests /\ Shaped
  BY DEF Working, EncInv, Taken
<1> QED BY <1>1, RequestTyped, Counts, PacketFacts, OffsetsOf DEF Working

LEMMA CallGood ==
  ASSUME Working, UNCHANGED encoderVars, D!Call(FrameHead)
  PROVE  DecGood'
<1>1. /\ dpc = "idle" /\ dpc' = "header" /\ result' = "none" /\ pkt' = FrameHead
      /\ sliceMap' = sliceMap /\ tables' = tables /\ ranges' = ranges /\ decoded' = decoded
  BY DEF D!Call, D!locals
<1>2. sliceMap = << >> /\ tables = << >> /\ ranges = << >> /\ decoded \in Nat
  BY <1>1 DEF Working, DecGood, MapGood, TablesGood, RangesGood
<1> QED BY <1>1, <1>2, EncoderKept DEF DecGood, MapGood, TablesGood, RangesGood

LEMMA HeaderPasses ==
  ASSUME Working
  PROVE  D!Passes(D!HeaderChecks(FrameHead))
<1>1. /\ FrameHead.len = packet.len /\ FrameHead.flaw = "none" /\ FrameHead.width = req.width
      /\ FrameHead.height = req.height /\ FrameHead.sliceHeight = req.sliceHeight
  BY DEF FrameHead, HeadOf
<1>2. packet.len \in Nat /\ packet.len >= 32
  <2>1. packet.len \in Nat /\ 32 + PayloadOffset(0) <= packet.len
    BY WorkingFacts, HeadFacts DEF Working
  <2>2. PayloadOffset(0) \in Nat
    BY WorkingFacts, OffsetsOf DEF Working
  <2> QED BY <2>1, <2>2
<1>3. /\ req.width \in Nat /\ req.height \in Nat /\ req.sliceHeight \in Nat
      /\ req.width # 0 /\ req.height # 0 /\ req.sliceHeight # 0
  BY WorkingFacts DEF RequestRecords, Shaped
<1>4. /\ ~ (req.width > MaxDimension) /\ ~ (req.height > MaxDimension)
      /\ ~ (req.sliceHeight > MaxDimension)
  BY <1>3, MaxDimensionAssumption DEF Working, Representable
<1>5. ~ (packet.len < D!HeaderSize)
  BY <1>2 DEF D!HeaderSize
<1> DEFINE c == D!HeaderChecks(FrameHead)
<1>6. ~ c[1].fails
  BY <1>1, <1>5 DEF D!HeaderChecks, D!Check
<1>7. ~ c[2].fails
  BY <1>1 DEF D!HeaderChecks, D!Check
<1>8. ~ c[3].fails
  BY <1>1, <1>3 DEF D!HeaderChecks, D!Check
<1>9. ~ c[4].fails
  BY <1>1, <1>4 DEF D!HeaderChecks, D!Check
<1>10. \A i \in DOMAIN c : i = 1 \/ i = 2 \/ i = 3 \/ i = 4
  BY DEF D!HeaderChecks
<1> HIDE DEF c
<1>11. \A i \in DOMAIN c : ~ c[i].fails
  BY <1>6, <1>7, <1>8, <1>9, <1>10
<1> QED BY <1>11 DEF D!Passes, c

LEMMA ParseHeaderGood ==
  ASSUME Working, UNCHANGED encoderVars, D!ParseHeader
  PROVE  DecGood'
<1>1. dpc = "header" /\ pkt = FrameHead
  BY DEF Working, DecGood, D!ParseHeader
<1>2. ~ D!RejectIf(D!HeaderChecks(pkt))
  BY <1>1, HeaderPasses, NoneFails DEF D!RejectIf
<1>3. /\ dpc' = "layout" /\ result' = result /\ pkt' = pkt
      /\ sliceMap' = sliceMap /\ tables' = tables /\ ranges' = ranges /\ decoded' = decoded
  BY <1>2 DEF D!ParseHeader, D!locals
<1>4. sliceMap = << >> /\ tables = << >> /\ ranges = << >> /\ decoded \in Nat /\ result \in {"none", "Ok"}
  BY <1>1 DEF Working, DecGood, MapGood, TablesGood, RangesGood
<1> QED BY <1>1, <1>3, <1>4, EncoderKept DEF DecGood, MapGood, TablesGood, RangesGood

LEMMA LayoutPasses ==
  ASSUME Working
  PROVE  D!Passes(D!LayoutChecks(FrameHead))
<1>1. /\ FrameHead.len = packet.len /\ FrameHead.rec = req.rec /\ FrameHead.width = req.width
      /\ FrameHead.height = req.height /\ FrameHead.sliceHeight = req.sliceHeight
      /\ FrameHead.planeCount = req.rec.planes
  BY DEF FrameHead, HeadOf
<1>2. req.width % req.rec.subX = 0 /\ req.height % req.rec.subY = 0
      /\ req.sliceHeight % req.rec.subY = 0
  BY WorkingFacts DEF Shaped
<1>3. /\ D!TotalSlices(FrameHead) = TotalSlices
      /\ D!PreambleStart(FrameHead) = 36 + 4 * TotalSlices
      /\ D!PreambleEnd(FrameHead) = 32 + PayloadOffset(0)
      /\ D!PreambleLen(FrameHead) = 1 + TotalSlices + DescriptorBytes
      /\ PayloadOffset(0) = 5 + 5 * TotalSlices + DescriptorBytes
      /\ 32 + PayloadOffset(0) <= packet.len
  BY HeadFacts DEF Working
<1>4. TotalSlices \in Nat /\ DescriptorBytes \in Nat /\ packet.len \in Nat
  BY WorkingFacts
<1>5. /\ ~ (packet.len < D!PreambleStart(FrameHead))
      /\ ~ (D!PreambleEnd(FrameHead) < D!PreambleStart(FrameHead))
      /\ ~ (packet.len < D!PreambleEnd(FrameHead))
      /\ ~ (D!PreambleLen(FrameHead) < 1)
      /\ ~ (D!PreambleLen(FrameHead) < 1 + D!TotalSlices(FrameHead))
  BY <1>3, <1>4
<1> DEFINE c == D!LayoutChecks(FrameHead)
<1>6. ~ c[1].fails /\ ~ c[2].fails /\ ~ c[3].fails
  BY <1>1, <1>2 DEF D!LayoutChecks, D!Check
<1>7. ~ c[4].fails /\ ~ c[5].fails
  BY <1>1, <1>5 DEF D!LayoutChecks, D!Check
<1>8. ~ c[6].fails /\ ~ c[7].fails
  BY <1>1, <1>5 DEF D!LayoutChecks, D!Check
<1>9. \A i \in DOMAIN c : i = 1 \/ i = 2 \/ i = 3 \/ i = 4 \/ i = 5 \/ i = 6 \/ i = 7
  BY DEF D!LayoutChecks
<1> HIDE DEF c
<1>10. \A i \in DOMAIN c : ~ c[i].fails
  BY <1>6, <1>7, <1>8, <1>9
<1> QED BY <1>10 DEF D!Passes, c

LEMMA ReadLayoutGood ==
  ASSUME Working, UNCHANGED encoderVars, D!ReadLayout
  PROVE  DecGood'
<1>1. dpc = "layout" /\ pkt = FrameHead
  BY DEF Working, DecGood, D!ReadLayout
<1>2. ~ D!RejectIf(D!LayoutChecks(pkt))
  BY <1>1, LayoutPasses, NoneFails DEF D!RejectIf
<1>3. /\ dpc' = "map" /\ result' = result /\ pkt' = pkt
      /\ sliceMap' = sliceMap /\ tables' = tables /\ ranges' = ranges /\ decoded' = decoded
      /\ planeFill' = [q \in D!Planes(pkt.rec) |-> 0]
      /\ descPos' = 1 + D!TotalSlices(pkt)
  BY <1>2 DEF D!ReadLayout
<1>4. sliceMap = << >> /\ tables = << >> /\ ranges = << >> /\ decoded \in Nat /\ result \in {"none", "Ok"}
  BY <1>1 DEF Working, DecGood, MapGood, TablesGood, RangesGood
<1>5. /\ planeFill' = [q \in Planes(req.rec) |-> 0]
      /\ descPos' = 1 + TotalSlices
  BY <1>1, <1>3, HeadFacts DEF Working, D!Planes, Planes
<1>6. TotalSlices \in Nat /\ TotalSlices >= 1 /\ req.rec.planes \in Nat /\ req.rec.planes >= 1
      /\ SlicesPerPlane \in Nat /\ SlicesPerPlane >= 1
  BY WorkingFacts
<1>7. PlaneOf(0) \in Planes(req.rec) /\ IndexOf(0) = 0
  BY <1>6, WorkingFacts, Places
<1>8. MapGood'
  <2>1. Len(sliceMap') = 0 /\ sliceMap' \in Seq([plane : Nat, idx : Nat])
    BY <1>3, <1>4
  <2>2. /\ planeFill' \in [Planes(req.rec) -> Nat]
        /\ planeFill'[PlaneOf(0)] = IndexOf(0)
        /\ \A q \in Planes(req.rec) : planeFill'[q] = 0
    BY <1>5, <1>7
  <2> QED BY <1>3, <1>6, <2>1, <2>2, EncoderKept DEF MapGood
<1>9. TablesGood'
  <2>1. Len(tables') = 0 /\ tables' \in Seq([minLen : Nat, complete : BOOLEAN])
    BY <1>3, <1>4
  <2>2. Sum(Sizes, 0) = 0
    BY SumEquations
  <2>3. descPos' = 1 + TotalSlices + Sum(Sizes, 0)
    BY <1>5, <1>6, <2>2
  <2> QED BY <1>3, <2>1, <2>3, EncoderKept DEF TablesGood
<1> QED BY <1>1, <1>3, <1>4, <1>8, <1>9, EncoderKept DEF DecGood, RangesGood

(* The plane index byte names the plane whose counter stands at the slice.   *)
LEMMA MapSliceGood ==
  ASSUME Working, UNCHANGED encoderVars, dpc = "map",
         D!MapSlice(packet.indexes[Len(sliceMap) + 1])
  PROVE  DecGood'
<1>1. /\ pkt = FrameHead /\ MapGood /\ TablesGood /\ RangesGood
      /\ decoded \in Nat /\ result \in {"none", "Ok"}
  BY DEF Working, DecGood
<1>2. PICK n \in Nat : n = Len(sliceMap)
  BY <1>1 DEF MapGood
<1>3. n < TotalSlices
  BY <1>1, <1>2 DEF MapGood
<1>4. /\ TotalSlices \in Nat /\ SlicesPerPlane \in Nat /\ SlicesPerPlane >= 1
      /\ req.rec.planes \in Nat /\ req.rec.planes >= 1
  BY WorkingFacts
<1>5. PICK b, k : b = PlaneOf(n) /\ k = IndexOf(n)
  OBVIOUS
<1>6. /\ b \in Planes(req.rec) /\ b \in Nat /\ k \in 0 .. SlicesPerPlane - 1
      /\ k + 1 < SlicesPerPlane => PlaneOf(n + 1) = b /\ IndexOf(n + 1) = k + 1
      /\ k + 1 = SlicesPerPlane => PlaneOf(n + 1) = b + 1 /\ IndexOf(n + 1) = 0
  BY <1>3, <1>5, WorkingFacts, Places
<1>7. packet.indexes[n + 1] = b
  <2>1. n + 1 \in 1 .. TotalSlices /\ (n + 1) - 1 = n
    BY <1>3, <1>4
  <2>2. packet.indexes[n + 1] = PlaneOf((n + 1) - 1)
    BY <2>1, PacketFacts DEF Working
  <2> QED BY <1>5, <2>1, <2>2
<1>8. /\ planeFill \in [Planes(req.rec) -> Nat] /\ planeFill[b] = k
      /\ \A q \in Planes(req.rec) : q > b => planeFill[q] = 0
  BY <1>1, <1>2, <1>5 DEF MapGood
<1>9. D!SlicesPerPlane(pkt) = SlicesPerPlane /\ D!TotalSlices(pkt) = TotalSlices
      /\ pkt.rec = req.rec
  BY <1>1, HeadFacts DEF Working
<1>10. D!MapAccepts(b)
  <2>1. b < req.rec.planes
    BY <1>4, <1>6 DEF Planes
  <2> QED BY <1>4, <1>6, <1>8, <1>9, <2>1 DEF D!MapAccepts
<1>11. /\ sliceMap' = Append(sliceMap, [plane |-> b, idx |-> k])
       /\ planeFill' = [planeFill EXCEPT ![b] = k + 1]
       /\ dpc' = IF Len(sliceMap') = TotalSlices THEN "tables" ELSE "map"
       /\ result' = result /\ pkt' = pkt /\ tables' = tables /\ descPos' = descPos
       /\ ranges' = ranges /\ decoded' = decoded
  BY <1>2, <1>7, <1>8, <1>9, <1>10 DEF D!MapSlice
<1>12. sliceMap \in Seq([plane : Nat, idx : Nat]) /\ \A i \in 1 .. n : sliceMap[i] = Place(i - 1)
  BY <1>1, <1>2 DEF MapGood
<1>13. /\ sliceMap' \in Seq([plane : Nat, idx : Nat]) /\ Len(sliceMap') = n + 1
       /\ \A i \in 1 .. n : sliceMap'[i] = sliceMap[i]
       /\ sliceMap'[n + 1] = [plane |-> b, idx |-> k]
  <2>1. [plane |-> b, idx |-> k] \in [plane : Nat, idx : Nat]
    BY <1>4, <1>6
  <2> QED BY <1>2, <1>11, <1>12, <2>1
<1>14. dpc' = IF n + 1 = TotalSlices THEN "tables" ELSE "map"
  BY <1>11, <1>13
<1>15. ASSUME NEW i \in 1 .. n + 1 PROVE sliceMap'[i] = Place(i - 1)
  <2>1. CASE i = n + 1
    <3>1. i - 1 = n
      BY <2>1
    <3> QED BY <1>5, <1>13, <2>1, <3>1 DEF Place
  <2>2. CASE i # n + 1
    <3>1. i \in 1 .. n
      BY <2>2
    <3> QED BY <1>12, <1>13, <3>1
  <2> QED BY <2>1, <2>2
<1>16. /\ planeFill' \in [Planes(req.rec) -> Nat] /\ planeFill'[b] = k + 1
       /\ \A q \in Planes(req.rec) : q # b => planeFill'[q] = planeFill[q]
  <2>1. k + 1 \in Nat
    BY <1>4, <1>6
  <2> QED BY <1>6, <1>8, <1>11, <2>1
<1>17. ASSUME n + 1 < TotalSlices
       PROVE  /\ planeFill'[PlaneOf(n + 1)] = IndexOf(n + 1)
              /\ \A q \in Planes(req.rec) : q > PlaneOf(n + 1) => planeFill'[q] = 0
  <2>1. \A q \in Planes(req.rec) : q \in Nat
    BY <1>4 DEF Planes
  <2>2. \A q \in Planes(req.rec) : q > b => planeFill'[q] = 0
    <3> SUFFICES ASSUME NEW q \in Planes(req.rec), q > b PROVE planeFill'[q] = 0
      OBVIOUS
    <3>1. q # b
      BY <1>6, <2>1
    <3> QED BY <1>8, <1>16, <3>1
  <2>3. CASE k + 1 < SlicesPerPlane
    BY <1>6, <1>16, <2>2, <2>3
  <2>4. CASE k + 1 = SlicesPerPlane
    <3>1. PlaneOf(n + 1) = b + 1 /\ IndexOf(n + 1) = 0
      BY <1>6, <2>4
    <3>2. b + 1 \in Planes(req.rec)
      BY <1>17, <3>1, WorkingFacts, Places
    <3>3. planeFill'[b + 1] = 0
      BY <1>6, <2>2, <3>2
    <3>4. ASSUME NEW q \in Planes(req.rec), q > b + 1 PROVE planeFill'[q] = 0
      <4>1. q \in Nat
        BY <2>1
      <4>2. q > b
        BY <1>6, <3>4, <4>1
      <4> QED BY <2>2, <4>2
    <3> QED BY <3>1, <3>3, <3>4
  <2> QED BY <1>4, <1>6, <2>3, <2>4
<1>18. MapGood'
  <2>1. /\ dpc' = "map" => Len(sliceMap') < TotalSlices
        /\ dpc' = "tables" => Len(sliceMap') = TotalSlices
    BY <1>3, <1>4, <1>13, <1>14
  <2>2. dpc' \in {"map", "tables"}
    BY <1>14
  <2>3. \A i \in 1 .. Len(sliceMap') : sliceMap'[i] = Place(i - 1)'
    BY <1>13, <1>15, EncoderKept
  <2>4. dpc' = "map" => /\ planeFill'[PlaneOf(Len(sliceMap'))] = IndexOf(Len(sliceMap'))
                        /\ \A q \in Planes(req.rec) : q > PlaneOf(Len(sliceMap')) => planeFill'[q] = 0
    BY <1>13, <1>17, <2>1
  <2> QED BY <1>13, <1>16, <2>1, <2>2, <2>3, <2>4, EncoderKept DEF MapGood, PlaneOf, IndexOf
<1>19. TablesGood' /\ RangesGood'
  <2>1. tables = << >> /\ ranges = << >>
    BY <1>1 DEF TablesGood, RangesGood
  <2> QED BY <1>1, <1>4, <1>11, <1>14, <2>1, EncoderKept DEF TablesGood, RangesGood
<1> QED BY <1>1, <1>11, <1>14, <1>18, <1>19, EncoderKept DEF DecGood

(* A descriptor's bytes end in the preamble, and its codes are within the    *)
(* decoder's limit, which is the encoder's.                                  *)
LEMMA BuildTableGood ==
  ASSUME Working, UNCHANGED encoderVars, dpc = "tables",
         D!BuildTable(DescriptorOf(huffs[Len(tables) + 1]))
  PROVE  DecGood'
<1>1. /\ pkt = FrameHead /\ MapGood /\ TablesGood /\ RangesGood
      /\ decoded \in Nat /\ result \in {"none", "Ok"}
  BY DEF Working, DecGood
<1>2. PICK n \in Nat : n = Len(tables)
  BY <1>1 DEF TablesGood
<1>3. /\ TotalSlices \in Nat /\ TotalSlices >= 1 /\ req.rec.planes \in Nat
      /\ DescriptorBytes \in Nat /\ req \in RequestRecords
  BY WorkingFacts
<1>4. n < req.rec.planes /\ huffs \in Seq(Tables) /\ Len(huffs) = req.rec.planes
      /\ \A p \in DOMAIN huffs : huffs[p].maxLen <= MaxHuffLenFor(req.rec.depth)
  BY <1>1, <1>2 DEF TablesGood, HuffsInv, Working, EncInv, Taken
<1>5. PICK t : t = huffs[n + 1]
  OBVIOUS
<1>6. /\ n + 1 \in 1 .. Len(huffs) /\ n + 1 \in DOMAIN huffs
      /\ t \in TableRecords /\ t.size \in Nat /\ t.minLen \in Nat /\ t.maxLen \in Nat
      /\ t.complete \in BOOLEAN
  <2>1. n + 1 \in 1 .. Len(huffs) /\ n + 1 \in DOMAIN huffs
    BY <1>3, <1>4
  <2>2. t \in TableRecords
    BY <1>4, <1>5, <2>1, ElementOfSeq, EncoderAssumption
  <2> QED BY <2>1, <2>2 DEF TableRecords
<1>7. PICK d : d = DescriptorOf(t)
  OBVIOUS
<1>8. d.size = t.size /\ d.minLen = t.minLen /\ d.complete = t.complete /\ d.error = "none"
  <2>1. pkt.rec = req.rec
    BY <1>1, HeadFacts DEF Working
  <2>2. req.rec.depth \in {8, 10, 12, 14}
    BY <1>3 DEF RequestRecords, FourccRecords
  <2>3. MaxHuffmanLength(req.rec.depth) = MaxHuffLenFor(req.rec.depth)
        /\ MaxHuffLenFor(req.rec.depth) \in Nat
    BY <2>2 DEF MaxHuffmanLength, MaxHuffLenFor
  <2>4. ~ (t.maxLen > MaxHuffmanLength(pkt.rec.depth))
    BY <1>4, <1>5, <1>6, <2>1, <2>3
  <2> QED BY <1>7, <2>4 DEF DescriptorOf
<1>9. descPos = 1 + TotalSlices + Sum(Sizes, n)
  BY <1>1, <1>2 DEF TablesGood
<1>10. /\ Sum(Sizes, n) \in Nat /\ Sum(Sizes, n + 1) = Sum(Sizes, n) + t.size
       /\ Sum(Sizes, n + 1) <= DescriptorBytes
  <2>1. \A p \in 1 .. Len(huffs) : Sizes[p] \in Nat
    <3> SUFFICES ASSUME NEW p \in 1 .. Len(huffs) PROVE Sizes[p] \in Nat
      OBVIOUS
    <3>1. p \in DOMAIN huffs /\ huffs[p] \in TableRecords
      BY <1>4, ElementOfSeq, EncoderAssumption
    <3> QED BY <3>1 DEF Sizes, TableRecords
  <2>2. Sizes[n + 1] = t.size
    BY <1>5, <1>6 DEF Sizes
  <2>3. n \in 0 .. Len(huffs) /\ n + 1 \in 0 .. Len(huffs) /\ Len(huffs) \in Nat
    BY <1>4, <1>6
  <2>4. Sum(Sizes, n + 1) = Sum(Sizes, n) + Sizes[n + 1]
    BY SumEquations
  <2>5. Sum(Sizes, n + 1) <= Sum(Sizes, Len(huffs))
    BY <2>1, <2>3, SumGrows
  <2>6. \A p \in 1 .. n : Sizes[p] \in Nat
    BY <2>1, <2>3
  <2>7. Sum(Sizes, n) \in Nat
    BY <2>6, SumNat
  <2> QED BY <2>2, <2>4, <2>5, <2>7 DEF DescriptorBytes, Sizes
<1>11. D!Passes(D!DescriptorChecks(d))
  <2>1. D!PreambleLen(pkt) = 1 + TotalSlices + DescriptorBytes
    BY <1>1, HeadFacts DEF Working
  <2>2. ~ (descPos + d.size > D!PreambleLen(pkt))
    BY <1>3, <1>6, <1>8, <1>9, <1>10, <2>1
  <2>3. ~ D!DescriptorChecks(d)[1].fails /\ ~ D!DescriptorChecks(d)[2].fails
    BY <1>8, <2>2 DEF D!DescriptorChecks, D!Check
  <2>4. \A i \in DOMAIN D!DescriptorChecks(d) : i = 1 \/ i = 2
    BY DEF D!DescriptorChecks
  <2> QED BY <2>3, <2>4 DEF D!Passes
<1>12. /\ tables' = Append(tables, [minLen |-> t.minLen, complete |-> t.complete])
       /\ descPos' = descPos + t.size
       /\ dpc' = IF Len(tables') = pkt.rec.planes THEN "validate" ELSE "tables"
       /\ result' = result /\ pkt' = pkt /\ sliceMap' = sliceMap
       /\ ranges' = ranges /\ decoded' = decoded
  <2>1. D!BuildTable(d)
    BY <1>2, <1>5, <1>7
  <2>2. ~ D!RejectIf(D!DescriptorChecks(d))
    BY <1>11, NoneFails DEF D!RejectIf
  <2> QED BY <1>8, <2>1, <2>2 DEF D!BuildTable
<1>13. /\ tables' \in Seq([minLen : Nat, complete : BOOLEAN]) /\ Len(tables') = n + 1
       /\ tables'[n + 1].minLen = t.minLen
       /\ \A p \in 1 .. n : tables'[p] = tables[p]
  <2>1. tables \in Seq([minLen : Nat, complete : BOOLEAN])
    BY <1>1 DEF TablesGood
  <2>2. [minLen |-> t.minLen, complete |-> t.complete] \in [minLen : Nat, complete : BOOLEAN]
    BY <1>6
  <2> QED BY <1>2, <1>12, <2>1, <2>2
<1>14. dpc' = IF n + 1 = req.rec.planes THEN "validate" ELSE "tables"
  BY <1>1, <1>12, <1>13, HeadFacts DEF Working
<1>15. TablesGood'
  <2>1. ASSUME NEW p \in 1 .. n + 1 PROVE tables'[p].minLen = huffs[p].minLen
    <3>1. CASE p = n + 1
      BY <1>5, <1>13, <3>1
    <3>2. CASE p # n + 1
      <4>1. p \in 1 .. n
        BY <3>2
      <4> QED BY <1>1, <1>2, <1>13, <4>1 DEF TablesGood
    <3> QED BY <3>1, <3>2
  <2>2. descPos' = 1 + TotalSlices + Sum(Sizes, n + 1)
    <3>1. PICK a, b : a = Sum(Sizes, n) /\ b = Sum(Sizes, n + 1)
      OBVIOUS
    <3>2. a \in Nat /\ b = a + t.size /\ descPos = 1 + TotalSlices + a
      BY <1>9, <1>10, <3>1
    <3>3. descPos' = descPos + t.size
      BY <1>12
    <3>4. t.size \in Nat /\ TotalSlices \in Nat
      BY <1>3, <1>6
    <3>5. descPos' = 1 + TotalSlices + b
      BY ONLY <3>2, <3>3, <3>4
    <3> QED BY <3>1, <3>5
  <2>3. /\ dpc' \in {"tables", "validate"}
        /\ dpc' = "tables" => n + 1 < req.rec.planes
        /\ dpc' = "validate" => n + 1 = req.rec.planes
    BY <1>3, <1>4, <1>14
  <2> QED BY <1>13, <2>1, <2>2, <2>3, EncoderKept DEF TablesGood
<1>16. MapGood'
  <2>1. /\ Len(sliceMap) = TotalSlices /\ sliceMap \in Seq([plane : Nat, idx : Nat])
        /\ \A i \in 1 .. Len(sliceMap) : sliceMap[i] = Place(i - 1)
    BY <1>1 DEF MapGood
  <2>2. dpc' \in {"tables", "validate"}
    BY <1>14
  <2> QED BY <1>12, <2>1, <2>2, EncoderKept DEF MapGood
<1>17. RangesGood'
  <2>1. ranges = << >>
    BY <1>1 DEF RangesGood
  <2> QED BY <1>3, <1>12, <1>14, <2>1, EncoderKept DEF RangesGood
<1> QED BY <1>1, <1>12, <1>14, <1>15, <1>16, <1>17, EncoderKept DEF DecGood

(* Slice i as the encoder coded it: bits of its smallest residual.           *)
BitsOf(i) == IF payloads[i].raw THEN req.rec.depth ELSE huffs[PlaneOf(i - 1) + 1].minLen

(* Its bytes are in the packet and hold what its payload needs at least.     *)
LEMMA RangeRoom ==
  ASSUME Working, NEW i \in 1 .. TotalSlices
  PROVE  /\ RangeOf(i).start \in Nat /\ RangeOf(i).end \in Nat /\ RangeOf(i).raw \in BOOLEAN
         /\ RangeOf(i).start + 2 <= RangeOf(i).end
         /\ RangeOf(i).end <= packet.len
         /\ BitsOf(i) \in Nat /\ BitsOf(i) > 0
         /\ D!MinPayload(D!Pixels(FrameHead, Place(i - 1)), BitsOf(i))
              <= RangeOf(i).end - RangeOf(i).start - 2
<1>1. /\ TotalSlices \in Nat /\ req \in Requests /\ req \in RequestRecords /\ Shaped
      /\ req.rec.planes \in Nat
  BY WorkingFacts
<1>2. /\ PayloadsInv /\ HuffsInv /\ Len(payloads) = TotalSlices /\ Len(huffs) = req.rec.planes
  BY DEF Working, EncInv, Taken, PayloadsInv, HuffsInv
<1>3. i - 1 \in Nat /\ i - 1 < TotalSlices /\ i - 1 \in 0 .. TotalSlices /\ i \in 0 .. TotalSlices
      /\ i \in 1 .. TotalSlices + 1 /\ i + 1 \in 1 .. TotalSlices + 1 /\ (i + 1) - 1 = i
  BY <1>1
<1>4. PICK y, body : y = payloads[i] /\ body = y.body
  OBVIOUS
<1>5. y \in PayloadRecords /\ PayloadGood(i) /\ y.raw \in BOOLEAN
  <2>1. payloads \in Seq(PayloadRecords) /\ i \in 1 .. Len(payloads) /\ PayloadGood(i)
    BY <1>2 DEF PayloadsInv
  <2>2. y \in PayloadRecords
    BY <1>4, <2>1, ElementOfSeq
  <2>3. y.raw \in BOOLEAN
    BY <2>2 DEF PayloadRecords
  <2> QED BY <2>1, <2>2, <2>3
<1>6. PICK a, b, c : /\ a = PayloadOffset(i - 1) /\ b = PayloadOffset(i)
                     /\ c = PayloadOffset(TotalSlices)
  OBVIOUS
<1>7. a \in Nat /\ b \in Nat /\ c \in Nat /\ body \in Nat /\ b = a + 2 + body /\ b <= c
  BY <1>1, <1>3, <1>4, <1>6, OffsetsOf DEF Working
<1>8. packet.len \in Nat /\ 32 + c <= packet.len
      /\ packet.at[i] = 32 + a /\ packet.at[i + 1] = 32 + b
  <2>1. /\ packet.at[i] = EncHeaderSize + PayloadOffset(i - 1)
        /\ packet.at[i + 1] = EncHeaderSize + PayloadOffset((i + 1) - 1)
    BY <1>3, PacketFacts DEF Working
  <2>2. packet.len \in Nat /\ EncHeaderSize + PayloadOffset(TotalSlices) <= packet.len
    BY PacketFacts DEF Working
  <2> QED BY <1>3, <1>6, <2>1, <2>2 DEF EncHeaderSize
<1>9. PICK end : end = RangeOf(i).end
  OBVIOUS
<1>10. /\ RangeOf(i).start = 32 + a /\ RangeOf(i).raw = y.raw
       /\ end \in Nat /\ 32 + b <= end /\ end <= packet.len
  <2>1. end = IF i < TotalSlices THEN 32 + b ELSE packet.len
    BY <1>8, <1>9 DEF RangeOf
  <2> QED BY <1>4, <1>7, <1>8, <2>1 DEF RangeOf
<1>11. PICK t : t = huffs[PlaneOf(i - 1) + 1]
  OBVIOUS
<1>12. t.minLen \in Nat \ {0}
  <2>1. PlaneOf(i - 1) \in Planes(req.rec)
    BY <1>1, <1>3, Places
  <2>2. PlaneOf(i - 1) + 1 \in 1 .. Len(huffs) /\ huffs \in Seq(Tables)
    BY <1>1, <1>2, <2>1 DEF Planes, HuffsInv
  <2> QED BY <1>11, <2>2, ElementOfSeq, EncoderAssumption DEF TableRecords
<1>13. req.rec.depth \in Nat /\ req.rec.depth > 0
  BY <1>1 DEF RequestRecords, FourccRecords
<1>14. BitsOf(i) = IF y.raw THEN req.rec.depth ELSE t.minLen
  BY <1>4, <1>11 DEF BitsOf
<1>15. PICK n : n = SamplesOf(PlaneOf(i - 1), IndexOf(i - 1))
  OBVIOUS
<1>16. n \in Nat /\ D!Pixels(FrameHead, Place(i - 1)) = n
  BY <1>3, <1>15, HeadPixels DEF Working
<1>17. /\ y.asRaw = CeilDiv(n * req.rec.depth, 8) /\ y.asHuffman >= CeilDiv(n * t.minLen, 8)
       /\ body = IF y.raw THEN y.asRaw ELSE y.asHuffman
       /\ y.asRaw \in Nat /\ y.asHuffman \in Nat
  BY <1>4, <1>5, <1>11, <1>15 DEF PayloadGood, PayloadRecords
<1>18. n * req.rec.depth \in Nat /\ n * t.minLen \in Nat
  BY <1>12, <1>13, <1>16
<1>19. CeilDiv(n * req.rec.depth, 8) \in Nat /\ CeilDiv(n * t.minLen, 8) \in Nat
  BY <1>18, PackedMonotone
<1>20. PICK m : m = D!MinPayload(n, BitsOf(i))
  OBVIOUS
<1>21. m \in Nat /\ m <= body
  <2>1. CASE y.raw
    <3>1. m = CeilDiv(n * req.rec.depth, 8)
      BY <1>14, <1>20, <2>1 DEF D!MinPayload, D!CeilDiv, CeilDiv
    <3> QED BY <1>17, <1>19, <2>1, <3>1
  <2>2. CASE ~ y.raw
    <3>1. m = CeilDiv(n * t.minLen, 8)
      BY <1>14, <1>20, <2>2 DEF D!MinPayload, D!CeilDiv, CeilDiv
    <3> QED BY <1>17, <1>19, <2>2, <3>1
  <2> QED BY <2>1, <2>2
<1>22. m <= end - (32 + a) - 2 /\ (32 + a) + 2 <= end
  BY <1>7, <1>10, <1>21
<1> QED BY <1>5, <1>7, <1>9, <1>10, <1>12, <1>13, <1>14, <1>16, <1>20, <1>22

(* validate_slices takes every slice from the bytes of its payload.          *)
LEMMA ValidateSliceGood ==
  ASSUME Working, UNCHANGED encoderVars, dpc = "validate",
         NEW raw \in BOOLEAN,
         Found(Len(ranges) + 1, D!SliceStart) => raw = payloads[Len(ranges) + 1].raw,
         D!ValidateSlice(EndEntry(Len(ranges) + 1), raw)
  PROVE  DecGood'
<1>1. /\ pkt = FrameHead /\ MapGood /\ TablesGood /\ RangesGood
      /\ decoded \in Nat /\ result \in {"none", "Ok"}
  BY DEF Working, DecGood
<1>2. PICK n \in Nat : n = Len(ranges)
  BY <1>1 DEF RangesGood
<1>3. PICK i \in Nat : i = n + 1
  OBVIOUS
<1>4. /\ TotalSlices \in Nat /\ TotalSlices >= 1 /\ req \in Requests /\ Shaped
      /\ req.rec.planes \in Nat
  BY WorkingFacts
<1>5. n < TotalSlices /\ i \in 1 .. TotalSlices /\ i - 1 = n /\ i + 1 \in 1 .. TotalSlices + 1
      /\ (i + 1) - 1 = i /\ n < TotalSlices
  <2>1. n < TotalSlices
    BY <1>1, <1>2 DEF RangesGood
  <2> QED BY <1>3, <1>4, <2>1
<1>6. PICK start : start = D!SliceStart
  OBVIOUS
<1>7. start = packet.at[i]
  <2>1. CASE n = 0
    <3>0. ranges = << >>
      <4>1. PICK S : ranges \in Seq(S)
        BY <1>1 DEF RangesGood
      <4>2. Len(ranges) = 0
        BY <1>2, <2>1
      <4> QED BY ONLY <4>1, <4>2
    <3>1. start = D!PreambleEnd(FrameHead)
      BY <1>1, <1>6, <3>0 DEF D!SliceStart
    <3>2. D!PreambleEnd(FrameHead) = 32 + PayloadOffset(0)
      BY HeadFacts DEF Working
    <3>3. i - 1 = 0 /\ i \in 1 .. TotalSlices + 1
      BY <1>4, <1>5, <2>1
    <3>4. packet.at[i] = EncHeaderSize + PayloadOffset(i - 1)
      BY <3>3, PacketFacts DEF Working
    <3> QED BY <3>1, <3>2, <3>3, <3>4 DEF EncHeaderSize
  <2>2. CASE n # 0
    <3>1. ranges # << >> /\ n \in 1 .. Len(ranges)
      BY <1>2, <2>2
    <3>2. start = ranges[n].end
      BY <1>2, <1>6, <3>1 DEF D!SliceStart
    <3>3. ranges[n] = RangeOf(n)
      BY <1>1, <3>1 DEF RangesGood
    <3>4. RangeOf(n).end = packet.at[n + 1]
      BY <1>5 DEF RangeOf
    <3> QED BY <1>3, <3>2, <3>3, <3>4
  <2> QED BY <2>1, <2>2
<1>8. raw = payloads[i].raw
  BY <1>2, <1>3, <1>6, <1>7 DEF Found
<1>9. PICK end : end = D!SliceEnd(EndEntry(i))
  OBVIOUS
<1>10. end = RangeOf(i).end
  <2>1. D!TotalSlices(pkt) = TotalSlices /\ pkt.len = packet.len
    BY <1>1, HeadFacts DEF Working
  <2>2. CASE i < TotalSlices
    <3>1. end = EndEntry(i) + 32
      BY <1>2, <1>3, <1>9, <2>1, <2>2 DEF D!SliceEnd, D!HeaderSize
    <3>2. EndEntry(i) = packet.entries[i + 1]
      <4>1. Len(packet.entries) = TotalSlices
        BY PacketFacts DEF Working
      <4> QED BY <2>2, <4>1 DEF EndEntry
    <3>3. i + 1 \in 1 .. TotalSlices
      BY <1>4, <2>2
    <3>4. packet.entries[i + 1] = PayloadOffset((i + 1) - 1)
      BY <3>3, PacketFacts DEF Working
    <3>5. packet.at[i + 1] = EncHeaderSize + PayloadOffset((i + 1) - 1)
      BY <1>5, PacketFacts DEF Working
    <3>6. PayloadOffset((i + 1) - 1) \in Nat
      <4>1. i \in 0 .. TotalSlices
        BY <1>4, <1>5
      <4> QED BY <1>5, <4>1, OffsetsOf DEF Working
    <3>7. end = packet.at[i + 1]
      <4>1. PICK o : o = PayloadOffset((i + 1) - 1)
        OBVIOUS
      <4>2. o \in Nat /\ end = o + 32 /\ packet.at[i + 1] = 32 + o
        BY <3>1, <3>2, <3>4, <3>5, <3>6, <4>1 DEF EncHeaderSize
      <4> QED BY ONLY <4>2
    <3> QED BY <2>2, <3>7 DEF RangeOf
  <2>3. CASE ~ (i < TotalSlices)
    <3>1. end = packet.len
      BY <1>2, <1>3, <1>9, <2>1, <2>3 DEF D!SliceEnd
    <3> QED BY <2>3, <3>1 DEF RangeOf
  <2> QED BY <2>2, <2>3
<1>11. RangeOf(i) = [start |-> start, end |-> end, raw |-> raw]
       /\ RangeOf(i).start = start /\ RangeOf(i).end = end
  BY <1>7, <1>8, <1>9, <1>10 DEF RangeOf
<1>12. PICK m : m = sliceMap[i]
  OBVIOUS
<1>13. m = Place(i - 1) /\ m.plane = PlaneOf(i - 1)
  <2>1. i \in 1 .. Len(sliceMap)
    BY <1>1, <1>5 DEF MapGood
  <2> QED BY <1>1, <1>12, <2>1 DEF MapGood, Place
<1>14. PICK bits : bits = D!ResidualBits(m, raw)
  OBVIOUS
<1>15. bits = BitsOf(i)
  <2>1. PlaneOf(i - 1) \in Planes(req.rec)
    <3>1. i - 1 \in Nat /\ i - 1 < TotalSlices
      BY <1>5
    <3> QED BY <1>4, <3>1, Places
  <2>2. PlaneOf(i - 1) + 1 \in 1 .. Len(tables)
    BY <1>1, <1>4, <2>1 DEF Planes, TablesGood
  <2>3. tables[PlaneOf(i - 1) + 1].minLen = huffs[PlaneOf(i - 1) + 1].minLen
    BY <1>1, <2>2 DEF TablesGood
  <2>4. pkt.rec = req.rec
    BY <1>1, HeadFacts DEF Working
  <2> QED BY <1>8, <1>13, <1>14, <2>3, <2>4 DEF BitsOf, D!ResidualBits
<1>16. PICK checks : checks = D!SliceChecks(m, start, end, raw)
  OBVIOUS
<1>17. D!Passes(checks)
  <2>1. /\ start \in Nat /\ end \in Nat /\ start + 2 <= end /\ end <= packet.len
        /\ bits \in Nat /\ bits > 0
        /\ D!MinPayload(D!Pixels(pkt, m), bits) <= end - start - 2
    BY <1>1, <1>5, <1>11, <1>13, <1>15, RangeRoom
  <2>2. pkt.len = packet.len /\ packet.len \in Nat
    BY <1>1, HeadFacts, WorkingFacts DEF Working
  <2>3. /\ ~ (end < start \/ pkt.len < end) /\ ~ (end - start < 2) /\ ~ (bits = 0)
    BY <2>1, <2>2
  <2>4. PICK need : need = D!MinPayload(D!Pixels(pkt, m), bits)
    OBVIOUS
  <2>5. ~ (D!Payload(start, end) < need)
    <3>1. need \in Nat
      <4>1. D!Pixels(pkt, m) \in Nat
        <5>1. i - 1 \in Nat /\ i - 1 < TotalSlices
          BY <1>5
        <5>2. D!Pixels(FrameHead, Place(i - 1)) \in Nat
          <6>1. /\ D!Pixels(FrameHead, Place(i - 1)) = SamplesOf(PlaneOf(i - 1), IndexOf(i - 1))
                /\ SamplesOf(PlaneOf(i - 1), IndexOf(i - 1)) \in Nat
            BY <5>1, HeadPixels DEF Working
          <6> QED BY <6>1
        <5> QED BY <1>1, <1>13, <5>2
      <4>2. PICK x \in Nat : x = D!Pixels(pkt, m)
        BY <4>1
      <4>3. x * bits \in Nat
        BY <2>1
      <4>4. need = (x * bits + 8 - 1) \div 8
        BY <2>4, <4>2 DEF D!MinPayload, D!CeilDiv
      <4> QED BY <4>3, <4>4
    <3> QED BY <2>1, <2>4, <3>1 DEF D!Payload
  <2>6. ~ checks[1].fails /\ ~ checks[2].fails
    BY <1>16, <2>3 DEF D!SliceChecks, D!Check
  <2>7. ~ checks[3].fails
    BY <1>14, <1>16, <2>3 DEF D!SliceChecks, D!Check
  <2>8. ~ checks[4].fails
    BY <1>14, <1>16, <2>4, <2>5 DEF D!SliceChecks, D!Check
  <2>9. \A j \in DOMAIN checks : j = 1 \/ j = 2 \/ j = 3 \/ j = 4
    BY <1>16 DEF D!SliceChecks
  <2> QED BY <2>6, <2>7, <2>8, <2>9 DEF D!Passes
<1>18. /\ ranges' = Append(ranges, RangeOf(i))
       /\ dpc' = IF Len(ranges') = D!TotalSlices(pkt) THEN "take" ELSE "validate"
       /\ result' = result /\ pkt' = pkt /\ sliceMap' = sliceMap /\ planeFill' = planeFill
       /\ tables' = tables /\ descPos' = descPos /\ decoded' = decoded
  <2>1. ~ D!RejectIf(D!SliceChecks(sliceMap[Len(ranges) + 1], D!SliceStart,
                                   D!SliceEnd(EndEntry(Len(ranges) + 1)), raw))
    BY <1>2, <1>3, <1>6, <1>9, <1>12, <1>16, <1>17, NoneFails DEF D!RejectIf
  <2> QED BY <1>2, <1>3, <1>6, <1>9, <1>11, <2>1 DEF D!ValidateSlice
<1>19. /\ ranges' \in Seq([start : Int, end : Int, raw : BOOLEAN]) /\ Len(ranges') = i
       /\ ranges'[i] = RangeOf(i)
       /\ \A j \in 1 .. n : ranges'[j] = ranges[j]
  <2>1. ranges \in Seq([start : Int, end : Int, raw : BOOLEAN])
    BY <1>1 DEF RangesGood
  <2>2. RangeOf(i) \in [start : Int, end : Int, raw : BOOLEAN]
    BY <1>5, <1>11, RangeRoom
  <2>3. PICK r : r = RangeOf(i)
    OBVIOUS
  <2> QED BY <1>2, <1>3, <1>18, <2>1, <2>2, <2>3
<1>20. dpc' = IF i = TotalSlices THEN "take" ELSE "validate"
  BY <1>1, <1>18, <1>19, HeadFacts DEF Working
<1>21. RangesGood'
  <2>1. ASSUME NEW j \in 1 .. i PROVE ranges'[j] = RangeOf(j)
    <3>1. CASE j = i
      BY <1>19, <3>1
    <3>2. CASE j # i
      <4>1. j \in 1 .. n
        BY <1>3, <3>2
      <4>2. ranges[j] = RangeOf(j)
        BY <1>1, <1>2, <4>1 DEF RangesGood
      <4> QED BY <1>19, <4>1, <4>2
    <3> QED BY <3>1, <3>2
  <2>2. /\ dpc' \in {"take", "validate"} /\ (dpc' = "validate" => i < TotalSlices)
        /\ (dpc' = "take" => i = TotalSlices)
    BY <1>4, <1>5, <1>20
  <2> QED BY <1>19, <2>1, <2>2, EncoderKept DEF RangesGood
<1>22. MapGood'
  <2>1. /\ Len(sliceMap) = TotalSlices /\ sliceMap \in Seq([plane : Nat, idx : Nat])
        /\ \A j \in 1 .. Len(sliceMap) : sliceMap[j] = Place(j - 1)
    BY <1>1 DEF MapGood
  <2> QED BY <1>18, <1>20, <2>1, EncoderKept DEF MapGood
<1>23. TablesGood'
  <2>1. /\ Len(tables) = req.rec.planes /\ tables \in Seq([minLen : Nat, complete : BOOLEAN])
        /\ \A p \in 1 .. Len(tables) : tables[p].minLen = huffs[p].minLen
    BY <1>1 DEF TablesGood
  <2> QED BY <1>18, <1>20, <2>1, EncoderKept DEF TablesGood
<1> QED BY <1>1, <1>18, <1>20, <1>21, <1>22, <1>23, EncoderKept DEF DecGood

LEMMA TakeBuffersGood ==
  ASSUME Working, UNCHANGED encoderVars, D!TakeBuffers
  PROVE  DecGood'
<1>1. /\ dpc = "take" /\ dpc' = "slices" /\ result' = result /\ pkt' = pkt
      /\ sliceMap' = sliceMap /\ tables' = tables /\ ranges' = ranges /\ decoded' = decoded
  BY DEF D!TakeBuffers
<1>2. /\ pkt = FrameHead /\ MapGood /\ TablesGood /\ RangesGood
      /\ decoded \in Nat /\ result \in {"none", "Ok"}
  BY <1>1 DEF Working, DecGood
<1>3. MapGood' /\ TablesGood' /\ RangesGood'
  BY <1>1, <1>2, EncoderKept DEF MapGood, TablesGood, RangesGood
<1> QED BY <1>1, <1>2, <1>3, EncoderKept DEF DecGood

(* The decode loop finds a known predictor and no unused code.               *)
LEMMA DecodeSliceGood ==
  ASSUME Working, UNCHANGED encoderVars, dpc = "slices", decoded < Len(ranges),
         NEW known \in BOOLEAN, NEW used \in BOOLEAN,
         Found(decoded + 1, ranges[decoded + 1].start) => known /\ used,
         D!DecodeSlice(known, used)
  PROVE  DecGood'
<1>1. /\ pkt = FrameHead /\ MapGood /\ TablesGood /\ RangesGood
      /\ decoded \in Nat /\ result \in {"none", "Ok"}
  BY DEF Working, DecGood
<1>2. Len(ranges) = TotalSlices /\ Len(sliceMap) = TotalSlices /\ TotalSlices \in Nat
      /\ req.rec.planes \in Nat
  BY <1>1, WorkingFacts DEF RangesGood, MapGood
<1>3. PICK i : i = decoded + 1
  OBVIOUS
<1>4. i \in 1 .. TotalSlices
  BY <1>1, <1>2, <1>3
<1>5. ranges[i] = RangeOf(i) /\ sliceMap[i] = Place(i - 1)
  BY <1>1, <1>2, <1>4 DEF RangesGood, MapGood
<1>6. RangeOf(i).start = packet.at[i] /\ RangeOf(i).raw = payloads[i].raw
  BY DEF RangeOf
<1>7. known /\ used
  BY <1>3, <1>5, <1>6 DEF Found
<1>8. PICK m, r : m = sliceMap[i] /\ r = ranges[i]
  OBVIOUS
<1>9. PICK checks : checks = D!DecodeChecks(m, r, known, used)
  OBVIOUS
<1>10. D!Passes(checks)
  <2>1. r.raw => ~ (D!Payload(r.start, r.end) < D!MinPayload(D!Pixels(pkt, m), pkt.rec.depth))
    <3> SUFFICES ASSUME r.raw
                 PROVE  ~ (D!Payload(r.start, r.end) < D!MinPayload(D!Pixels(pkt, m), pkt.rec.depth))
      OBVIOUS
    <3>1. BitsOf(i) = pkt.rec.depth
      <4>1. pkt.rec = req.rec
        BY <1>1, HeadFacts DEF Working
      <4> QED BY <1>5, <1>6, <1>8, <4>1 DEF BitsOf
    <3>2. PICK need : need = D!MinPayload(D!Pixels(pkt, m), pkt.rec.depth)
      OBVIOUS
    <3>3. need <= r.end - r.start - 2 /\ r.start \in Nat /\ r.end \in Nat
      BY <1>1, <1>4, <1>5, <1>8, <3>1, <3>2, RangeRoom
    <3>4. need \in Nat
      <4>1. i - 1 \in Nat /\ i - 1 < TotalSlices
        BY <1>2, <1>4
      <4>2. PICK x : x = D!Pixels(FrameHead, Place(i - 1))
        OBVIOUS
      <4>3. x \in Nat
        <5>1. PICK y : y = SamplesOf(PlaneOf(i - 1), IndexOf(i - 1))
          OBVIOUS
        <5>2. x = y /\ y \in Nat
          BY <4>1, <4>2, <5>1, HeadPixels DEF Working
        <5> QED BY <5>2
      <4>4. PICK b : b = BitsOf(i)
        OBVIOUS
      <4>5. b \in Nat
        BY <1>4, <4>4, RangeRoom
      <4>6. x * b \in Nat
        BY <4>3, <4>5
      <4>7. need = (x * b + 8 - 1) \div 8
        BY <1>1, <1>5, <1>8, <3>1, <3>2, <4>2, <4>4 DEF D!MinPayload, D!CeilDiv
      <4> QED BY <4>6, <4>7
    <3> QED BY <3>2, <3>3, <3>4 DEF D!Payload
  <2>2. ~ checks[1].fails
    BY <1>7, <1>9 DEF D!DecodeChecks, D!Check
  <2>3. ~ checks[2].fails
    BY <1>9, <2>1 DEF D!DecodeChecks, D!Check
  <2>4. ~ checks[3].fails
    BY <1>7, <1>9 DEF D!DecodeChecks, D!Check
  <2>5. \A j \in DOMAIN checks : j = 1 \/ j = 2 \/ j = 3
    BY <1>9 DEF D!DecodeChecks
  <2> QED BY <2>2, <2>3, <2>4, <2>5 DEF D!Passes
<1>11. /\ decoded' = decoded + 1 /\ dpc' = dpc /\ result' = result /\ pkt' = pkt
       /\ sliceMap' = sliceMap /\ planeFill' = planeFill /\ tables' = tables
       /\ descPos' = descPos /\ ranges' = ranges
  <2>1. ~ D!RejectIf(D!DecodeChecks(sliceMap[decoded + 1], ranges[decoded + 1], known, used))
    BY <1>3, <1>8, <1>9, <1>10, NoneFails DEF D!RejectIf
  <2> QED BY <2>1 DEF D!DecodeSlice
<1>12. MapGood' /\ TablesGood' /\ RangesGood'
  BY <1>1, <1>11, EncoderKept DEF MapGood, TablesGood, RangesGood
<1> QED BY <1>1, <1>11, <1>12, EncoderKept DEF DecGood

LEMMA FinishGood ==
  ASSUME Working, UNCHANGED encoderVars, D!Finish
  PROVE  DecGood'
<1>1. /\ dpc' = "idle" /\ result' = "Ok" /\ sliceMap' = << >> /\ tables' = << >>
      /\ ranges' = << >> /\ decoded' = 0
  BY DEF D!Finish, D!Return
<1> QED BY <1>1, EncoderKept DEF DecGood, MapGood, TablesGood, RangesGood

LEMMA DecodeGood ==
  ASSUME Working, Decode
  PROVE  DecGood'
<1>1. UNCHANGED encoderVars /\ DecodeStep
  BY DEF Decode
<1>2. CASE D!Call(HeadOf(req, packet.len, packet.entries[1]))
  BY <1>1, <1>2, CallGood DEF FrameHead
<1>3. CASE D!ParseHeader
  BY <1>1, <1>3, ParseHeaderGood
<1>4. CASE D!ReadLayout
  BY <1>1, <1>4, ReadLayoutGood
<1>5. CASE dpc = "map" /\ D!MapSlice(packet.indexes[Len(sliceMap) + 1])
  BY <1>1, <1>5, MapSliceGood
<1>6. CASE dpc = "tables" /\ D!BuildTable(DescriptorOf(huffs[Len(tables) + 1]))
  BY <1>1, <1>6, BuildTableGood
<1>7. CASE /\ dpc = "validate"
           /\ LET i == Len(ranges) + 1
              IN  \E raw \in BOOLEAN :
                    /\ Found(i, D!SliceStart) => raw = payloads[i].raw
                    /\ D!ValidateSlice(EndEntry(i), raw)
  BY <1>1, <1>7, ValidateSliceGood
<1>8. CASE D!TakeBuffers
  BY <1>1, <1>8, TakeBuffersGood
<1>9. CASE /\ dpc = "slices" /\ decoded < Len(ranges)
           /\ \E known, used \in BOOLEAN :
                /\ Found(decoded + 1, ranges[decoded + 1].start) => known /\ used
                /\ D!DecodeSlice(known, used)
  BY <1>1, <1>9, DecodeSliceGood
<1>10. CASE D!Finish
  BY <1>1, <1>10, FinishGood
<1> QED BY <1>1, <1>2, <1>3, <1>4, <1>5, <1>6, <1>7, <1>8, <1>9, <1>10 DEF DecodeStep

LEMMA PairInitDec == PairInit => DecInv
<1> SUFFICES ASSUME PairInit PROVE DecInv
  OBVIOUS
<1>1. verdict # "Ok"
  BY DEF PairInit, Init
<1> QED BY <1>1 DEF PairInit, D!Init, DecInv

LEMMA PairNextDec == EncInv /\ DecInv /\ [PairNext]_pairVars => DecInv'
<1> SUFFICES ASSUME EncInv, DecInv, [PairNext]_pairVars PROVE DecInv'
  OBVIOUS
<1>1. CASE Encode
  <2>1. /\ dpc' = dpc /\ result' = result /\ sliceMap' = sliceMap /\ tables' = tables
        /\ ranges' = ranges /\ decoded' = decoded
    BY <1>1 DEF Encode, decoderVars
  <2>2. verdict # "Ok"
    <3>1. stage # "returned"
      BY <1>1 DEF Encode, Next, CheckInput, BuildSliceResiduals, BuildPlaneHuff,
                  WritePayload, Assemble
    <3> QED BY <3>1 DEF EncInv
  <2>3. /\ dpc' = "idle" /\ result' = "none" /\ decoded' = 0
        /\ sliceMap' = << >> /\ tables' = << >> /\ ranges' = << >>
    BY <2>1, <2>2 DEF DecInv
  <2> QED BY <2>3 DEF DecInv, DecGood, MapGood, TablesGood, RangesGood
<1>2. CASE Decode
  <2>1. verdict = "Ok" /\ UNCHANGED encoderVars
    BY <1>2 DEF Decode
  <2>2. CASE Representable
    <3>1. Working
      BY <2>1, <2>2 DEF DecInv, Working
    <3> QED BY <1>2, <2>1, <3>1, DecodeGood, EncoderKept DEF DecInv
  <2>3. CASE ~ Representable
    BY <2>1, <2>3, EncoderKept DEF DecInv
  <2> QED BY <2>2, <2>3
<1>3. CASE UNCHANGED pairVars
  <2>1. /\ UNCHANGED encoderVars
        /\ dpc' = dpc /\ result' = result /\ pkt' = pkt /\ sliceMap' = sliceMap
        /\ planeFill' = planeFill /\ tables' = tables /\ descPos' = descPos
        /\ ranges' = ranges /\ decoded' = decoded
    BY <1>3 DEF pairVars, decoderVars
  <2>2. MapGood' = MapGood /\ TablesGood' = TablesGood /\ RangesGood' = RangesGood
    BY <2>1, EncoderKept DEF MapGood, TablesGood, RangesGood
  <2> QED BY <2>1, <2>2, EncoderKept DEF DecInv, DecGood
<1> QED BY <1>1, <1>2, <1>3 DEF PairNext, Rest

LEMMA PairInv == PairSpec => [](EncInv /\ DecInv)
<1>1. PairInit /\ EncInv => EncInv /\ DecInv
  BY PairInitDec
<1>2. EncInv /\ EncInv' /\ DecInv /\ [PairNext]_pairVars => DecInv'
  BY PairNextDec
<1> QED BY <1>1, <1>2, PairEncInv, PTL DEF PairSpec

------------------------------------------------------------------------------
(* Theorems about the pair.                                                  *)

(* Every frame the format can express that assemble_frame has put together   *)
(* passes every check of decode_into (encoder.rs 3-5).                       *)
THEOREM EmittedDecodesCorrect == PairSpec => [](Representable => EmittedDecodes)
<1>1. EncInv /\ DecInv => (Representable => EmittedDecodes)
  BY DEF DecInv, DecGood, EmittedDecodes
<1> QED BY <1>1, PairInv, PTL

(* The decoder finds every slice of it: its plane and rows, its bytes, its   *)
(* coding and as many samples as the payload holds.                          *)
THEOREM SlicesFoundCorrect == PairSpec => [](Representable => SlicesFound)
<1>1. ASSUME EncInv, DecInv, Representable PROVE SlicesFound
  <2>1. CASE verdict # "Ok"
    <3>1. sliceMap = << >> /\ ranges = << >>
      BY <1>1, <2>1 DEF DecInv
    <3> QED BY <3>1 DEF SlicesFound
  <2>2. CASE verdict = "Ok"
    <3>1. DecGood /\ Working
      BY <1>1, <2>2 DEF DecInv, Working
    <3>2. MapGood /\ RangesGood /\ TotalSlices \in Nat
      BY <3>1, WorkingFacts DEF DecGood
    <3>3. /\ DOMAIN sliceMap = 1 .. Len(sliceMap) /\ DOMAIN ranges = 1 .. Len(ranges)
      BY <3>2 DEF MapGood, RangesGood
    <3>4. ASSUME NEW i \in DOMAIN sliceMap
          PROVE  sliceMap[i] = [plane |-> PlaneOf(i - 1), idx |-> IndexOf(i - 1)]
      BY <3>2, <3>3 DEF MapGood, Place
    <3>5. ASSUME NEW i \in DOMAIN ranges
          PROVE  /\ ranges[i].start = packet.at[i]
                 /\ ranges[i].end = IF i < TotalSlices THEN packet.at[i + 1] ELSE packet.len
                 /\ ranges[i].raw = payloads[i].raw
                 /\ D!Pixels(pkt, sliceMap[i]) = Len(payloads[i].block)
      <4>1. ranges[i] = RangeOf(i)
        BY <3>2, <3>3 DEF RangesGood
      <4>2. ranges # << >>
        BY <3>3
      <4>3. dpc \in {"validate", "take", "slices"} /\ pkt = FrameHead
        BY <3>1, <3>2, <4>2 DEF DecGood, RangesGood
      <4>4. Len(sliceMap) = TotalSlices /\ Len(ranges) <= TotalSlices
        BY <3>2, <4>3 DEF MapGood, RangesGood
      <4>5. i \in 1 .. TotalSlices /\ i - 1 \in Nat /\ i - 1 < TotalSlices
        <5>1. PICK n \in Nat : n = Len(ranges)
          BY <3>2 DEF RangesGood
        <5>2. i \in 1 .. n /\ n <= TotalSlices
          BY <3>3, <4>4, <5>1
        <5> QED BY <3>2, <5>2
      <4>6. sliceMap[i] = Place(i - 1)
        BY <3>2, <4>4, <4>5 DEF MapGood
      <4>7. D!Pixels(pkt, sliceMap[i]) = SamplesOf(PlaneOf(i - 1), IndexOf(i - 1))
        BY <1>1, <2>2, <4>3, <4>5, <4>6, HeadPixels
      <4>8. Len(payloads[i].block) = SamplesOf(PlaneOf(i - 1), IndexOf(i - 1))
        <5>1. PayloadsInv /\ Len(payloads) = TotalSlices
          BY <1>1, <2>2 DEF EncInv, Taken, PayloadsInv
        <5>2. PayloadGood(i)
          BY <4>5, <5>1 DEF PayloadsInv
        <5> QED BY <5>2 DEF PayloadGood
      <4> QED BY <4>1, <4>7, <4>8 DEF RangeOf
    <3> QED BY <3>4, <3>5 DEF SlicesFound
  <2> QED BY <2>1, <2>2
<1>2. EncInv /\ DecInv => (Representable => SlicesFound)
  BY <1>1
<1> QED BY <1>2, PairInv, PTL
==============================================================================
