--------------------------- MODULE FrameLayoutProofs ---------------------------
(***************************************************************************)
(* Proofs about FrameLayout, for frames of every size and content.         *)
(***************************************************************************)
EXTENDS FrameLayout, Lemmas

(* The encoder is one make_encoder made: its row is one of the table.        *)
Made ==
  /\ \E tag \in DOMAIN FourccTable : enc.rec = FourccTable[tag]
  /\ enc.width \in Nat \ {0} /\ enc.height \in Nat \ {0}

(* What the proofs need of the table: chroma is subsampled in YUV only, and  *)
(* RGB has three planes or four.                                             *)
Tabled(rec) ==
  /\ rec.planes \in {1, 3, 4} /\ rec.subX \in {1, 2} /\ rec.subY \in {1, 2}
  /\ rec.family # "YUV" => rec.subX = 1 /\ rec.subY = 1
  /\ IsRgb(rec) => rec.planes >= 3
  /\ rec.family \in {"YUV", "YUVA"} => rec.planes >= 3
  /\ rec.family = "Gray" => rec.planes = 1

(* ps is a frame's samples: as many planes as the row says, of the size the  *)
(* geometry gives them, each sample in its container.                        *)
IsFrame(ps) ==
  /\ ps \in Seq(Seq(0 .. Container(enc.rec) - 1))
  /\ Len(ps) = enc.rec.planes
  /\ \A p \in 1 .. enc.rec.planes : Len(ps[p]) = Geom(p - 1).width * Geom(p - 1).height

(* The samples of a frame cut to the depth. *)
Cut(rec, ps) == [p \in DOMAIN ps |-> MaskedSamples(rec, ps[p])]

Accepted(ps) == \A e \in EncodeErrors : ~ EncodeFails(ps, e)

(* The inductive invariant: what the frame in flight has to do with the      *)
(* samples the caller meant.                                                 *)
Inv ==
  /\ params \in Params
  /\ reply \in {"made", "composed", "Ok", "decoded", "mapped"} => Made
  /\ reply \in {"composed", "Ok", "decoded", "mapped"} => IsFrame(sent)
  /\ reply = "composed" /\ Fits(video) => Inputs(video) = sent
  /\ reply \in {"Ok", "decoded", "mapped"} => Accepted(sent)
  /\ reply = "Ok" => wire = Decorrelate(enc.rec, Cut(enc.rec, sent))
  /\ reply \in {"decoded", "mapped"} => planes = Cut(enc.rec, sent)
  /\ reply = "mapped" => video = VideoOf(enc.rec, planes)

------------------------------------------------------------------------------
(* encode_frame's checks see the lengths of the planes, not their contents.  *)
LEMMA SameChecks ==
  ASSUME NEW a, NEW b, DOMAIN a = DOMAIN b, \A p \in DOMAIN a : Len(a[p]) = Len(b[p]), NEW e
  PROVE  EncodeFails(a, e) <=> EncodeFails(b, e)
<1>1. RequestOf(a) = RequestOf(b)
  BY DEF RequestOf
<1> HIDE DEF RequestOf
<1>2. E(a)!Deep = E(b)!Deep
  BY <1>1, Zenon DEF E!Deep
<1>3. ASSUME NEW p PROVE E(a)!Dims(p) = E(b)!Dims(p)
  BY <1>1, Zenon DEF E!Dims, E!PlaneGeom, E!SubX, E!SubY, E!Chroma
<1>4. E(a)!InputChecks = E(b)!InputChecks
  BY <1>1, <1>2, <1>3 DEF E!InputChecks
<1> QED BY <1>4 DEF EncodeFails

------------------------------------------------------------------------------
(* The table and the geometry.                                               *)

LEMMA RowsTabled ==
  ASSUME NEW tag \in DOMAIN FourccTable
  PROVE  Tabled(FourccTable[tag])
BY DEF FourccTable, Row, Tabled, IsRgb

LEMMA MadeTabled ==
  ASSUME Made
  PROVE  Tabled(enc.rec) /\ enc.width \in Nat \ {0} /\ enc.height \in Nat \ {0}
BY RowsTabled DEF Made

(* A sequence given by its elements.                                         *)
LEMMA MakeSeq ==
  ASSUME NEW S, NEW n \in Nat, NEW f, f = [i \in 1 .. n |-> f[i]],
         \A i \in 1 .. n : f[i] \in S
  PROVE  f \in Seq(S) /\ Len(f) = n /\ DOMAIN f = 1 .. n
<1>1. f \in [1 .. n -> S]
  OBVIOUS
<1> QED BY <1>1

LEMMA SameSeq ==
  ASSUME NEW S, NEW s \in Seq(S), NEW f, f = [i \in 1 .. Len(s) |-> f[i]],
         \A i \in 1 .. Len(s) : f[i] = s[i]
  PROVE  f = s
<1>1. s = [i \in 1 .. Len(s) |-> s[i]]
  OBVIOUS
<1> QED BY <1>1

LEMMA ByOne == \A n \in Nat : n \div 1 = n
OBVIOUS

(* The number of samples send_frame expects of a plane is the geometry's,    *)
(* and that of the frame where nothing is subsampled.                        *)
LEMMA PlaneSizes ==
  ASSUME Made, NEW p \in 1 .. enc.rec.planes
  PROVE  /\ Geom(p - 1).width \in Nat /\ Geom(p - 1).height \in Nat
         /\ Geom(p - 1).width * Geom(p - 1).height \in Nat
         /\ PlanePixelCount(p - 1) = Geom(p - 1).width * Geom(p - 1).height
         /\ p = 1 \/ enc.rec.family # "YUV" =>
              Geom(p - 1).width = enc.width /\ Geom(p - 1).height = enc.height
<1>1. Tabled(enc.rec) /\ enc.width \in Nat \ {0} /\ enc.height \in Nat \ {0}
  BY MadeTabled
<1>2. /\ Geom(p - 1).width = enc.width \div SubX(enc.rec, p - 1)
      /\ Geom(p - 1).height = enc.height \div SubY(enc.rec, p - 1)
  BY DEF Geom, PlaneGeom
<1>3. SubX(enc.rec, p - 1) \in {1, 2} /\ SubY(enc.rec, p - 1) \in {1, 2}
  BY <1>1 DEF SubX, SubY, Tabled
<1>4. Geom(p - 1).width \in Nat /\ Geom(p - 1).height \in Nat
  BY <1>1, <1>2, <1>3
<1>5. Geom(p - 1).width * Geom(p - 1).height \in Nat
  BY <1>4
<1>6. p \in Nat /\ (p = 1 => p - 1 \notin {1, 2})
  BY <1>1 DEF Tabled
<1>7. CASE enc.rec.family = "YUV" /\ p - 1 \in {1, 2}
  <2>1. SubX(enc.rec, p - 1) = enc.rec.subX /\ SubY(enc.rec, p - 1) = enc.rec.subY
    BY <1>7 DEF SubX, SubY, Chroma
  <2> QED BY <1>2, <1>4, <1>5, <1>6, <1>7, <2>1 DEF PlanePixelCount
<1>8. CASE ~ (enc.rec.family = "YUV" /\ p - 1 \in {1, 2})
  <2>1. SubX(enc.rec, p - 1) = 1 /\ SubY(enc.rec, p - 1) = 1
    BY <1>1, <1>8 DEF SubX, SubY, Chroma, Tabled
  <2>2. Geom(p - 1).width = enc.width /\ Geom(p - 1).height = enc.height
    BY <1>1, <1>2, <2>1, ByOne
  <2> QED BY <1>4, <1>5, <1>8, <2>2 DEF PlanePixelCount
<1> QED BY <1>7, <1>8

------------------------------------------------------------------------------
(* Bytes and samples.                                                        *)

LEMMA TwoBytes ==
  ASSUME NEW x \in Nat
  PROVE  (x % ByteSpace) + ByteSpace * (x \div ByteSpace) = x
BY FrameLayoutAssumption

LEMMA ContainerNat ==
  ASSUME NEW rec
  PROVE  /\ Container(rec) \in Nat \ {0} /\ Modulus(rec) \in Nat \ {0}
         /\ Modulus(rec) <= Container(rec)
<1>1. ByteSpace \in Nat \ {0} /\ ByteSpace * ByteSpace \in Nat \ {0}
  BY FrameLayoutAssumption
<1>2. DeepModulus \in Nat \ {0} /\ DeepModulus <= ByteSpace * ByteSpace
  BY <1>1, FrameLayoutAssumption
<1> QED BY <1>1, <1>2 DEF Container, Modulus

(* Samples written as bytes are read back.                                   *)
LEMMA BytesBack ==
  ASSUME NEW rec, NEW s \in Seq(0 .. Container(rec) - 1)
  PROVE  /\ FromBytes(rec, ToBytes(rec, s)) = s
         /\ Len(ToBytes(rec, s)) = Len(s) * (IF Deep(rec) THEN 2 ELSE 1)
         /\ ToBytes(rec, s) \in Seq(Int)
<1>1. ASSUME NEW i \in 1 .. Len(s) PROVE s[i] \in Nat
  BY ContainerNat, ElementOfSeq
<1>2. Len(s) \in Nat /\ s \in Seq(Int) /\ Len(s) * 1 = Len(s)
  <2>1. Len(s) \in Nat /\ s = [i \in 1 .. Len(s) |-> s[i]]
    OBVIOUS
  <2>2. \A i \in 1 .. Len(s) : s[i] \in Int
    BY <1>1
  <2>3. s \in Seq(Int)
    BY ONLY <2>1, <2>2, MakeSeq
  <2>4. Len(s) * 1 = Len(s)
    <3>1. \A n \in Nat : n * 1 = n
      OBVIOUS
    <3> QED BY ONLY <2>1, <3>1
  <2> QED BY <2>1, <2>3, <2>4
<1>3. CASE ~ Deep(rec)
  BY <1>2, <1>3 DEF FromBytes, ToBytes
<1>4. CASE Deep(rec)
  <2> DEFINE n == Len(s)
             d == [j \in 1 .. 2 * n |->
                     IF j % 2 = 1 THEN s[(j + 1) \div 2] % ByteSpace
                     ELSE s[j \div 2] \div ByteSpace]
             f == [i \in 1 .. Len(d) \div 2 |-> d[2 * i - 1] + ByteSpace * d[2 * i]]
  <2>1. ToBytes(rec, s) = d
    BY <1>4 DEF ToBytes
  <2>2. ASSUME NEW j \in 1 .. 2 * n PROVE d[j] \in Int
    <3>1. CASE j % 2 = 1
      <4>1. (j + 1) \div 2 \in 1 .. n
        BY <1>2, <3>1
      <4>2. s[(j + 1) \div 2] % ByteSpace \in Int
        BY <1>1, <4>1, FrameLayoutAssumption
      <4> QED BY <3>1, <4>2
    <3>2. CASE j % 2 # 1
      <4>1. j \div 2 \in 1 .. n
        BY <1>2, <3>2
      <4>2. s[j \div 2] \div ByteSpace \in Int
        BY <1>1, <4>1, FrameLayoutAssumption
      <4> QED BY <3>2, <4>2
    <3> QED BY <3>1, <3>2
  <2>3. 2 * n \in Nat /\ d = [j \in 1 .. 2 * n |-> d[j]]
    BY <1>2
  <2>4. d \in Seq(Int) /\ Len(d) = 2 * n
    <3> HIDE DEF d
    <3> QED BY <2>2, <2>3, MakeSeq
  <2>5. Len(d) \div 2 = n
    BY <1>2, <2>4
  <2>6. ASSUME NEW i \in 1 .. n PROVE f[i] = s[i]
    <3>1. /\ 2 * i - 1 \in 1 .. 2 * n /\ 2 * i \in 1 .. 2 * n
          /\ (2 * i - 1) % 2 = 1 /\ (2 * i) % 2 # 1
          /\ ((2 * i - 1) + 1) \div 2 = i /\ (2 * i) \div 2 = i
      BY <1>2
    <3>2. d[2 * i - 1] = s[i] % ByteSpace /\ d[2 * i] = s[i] \div ByteSpace
      BY <3>1
    <3>3. f[i] = d[2 * i - 1] + ByteSpace * d[2 * i]
      BY <2>5
    <3>4. s[i] \in Nat
      BY <1>1
    <3> HIDE DEF d, f
    <3> QED BY <3>2, <3>3, <3>4, TwoBytes
  <2>7. f = [i \in 1 .. Len(s) |-> f[i]]
    BY <2>5
  <2>8. f = s
    <3> HIDE DEF f
    <3> QED BY <1>2, <2>6, <2>7, SameSeq
  <2>9. FromBytes(rec, d) = f
    BY <1>4 DEF FromBytes
  <2> HIDE DEF d, f
  <2> QED BY <1>2, <1>4, <2>1, <2>4, <2>8, <2>9
<1> QED BY <1>3, <1>4

------------------------------------------------------------------------------
(* Packing and unpacking.                                                    *)

(* Planes of one size come back from the packed pixels as they were.         *)
LEMMA PixelsBack ==
  ASSUME NEW rec, NEW k \in {3, 4}, rec.planes = k, NEW S, NEW n \in Nat,
         NEW ps \in Seq(Seq(S)), Len(ps) = rec.planes,
         \A p \in 1 .. rec.planes : Len(ps[p]) = n
  PROVE  /\ Deinterleave(rec, Interleave(rec, ps)) = ps
         /\ Interleave(rec, ps) \in Seq(S)
         /\ Len(Interleave(rec, ps)) = rec.planes * n
<1> DEFINE d == Interleave(rec, ps)
           f == Deinterleave(rec, d)
<1>1. k \in {3, 4} /\ k * n \in Nat
  <2>1. 3 * n \in Nat /\ 4 * n \in Nat
    OBVIOUS
  <2> QED BY <2>1
<1>2. \A p \in 1 .. k : ps[p] \in Seq(S) /\ Len(ps[p]) = n
  <2>1. ASSUME NEW p \in 1 .. k PROVE ps[p] \in Seq(S)
    <3> DEFINE T == Seq(S)
    <3> HIDE DEF T
    <3>1. ps[p] \in T
      BY ElementOfSeq DEF T
    <3> QED BY <3>1 DEF T
  <2> QED BY <2>1
<1>3. d = [j \in 1 .. k * n |-> ps[PackOrder[((j - 1) % k) + 1]][(j - 1) \div k + 1]]
  <2>1. Len(ps[1]) = n
    BY <1>1, <1>2
  <2> QED BY <2>1 DEF Interleave
<1>4. ASSUME NEW j \in 1 .. k * n
      PROVE  d[j] \in S
  <2>1. ((j - 1) % k) + 1 \in 1 .. k /\ (j - 1) \div k + 1 \in 1 .. n
    <3>1. CASE k = 3
      BY <3>1
    <3>2. CASE k = 4
      BY <3>2
    <3> QED BY <1>1, <3>1, <3>2
  <2>2. PICK q \in 1 .. k : q = PackOrder[((j - 1) % k) + 1]
    <3>1. PICK u \in 1 .. k : u = ((j - 1) % k) + 1
      BY <2>1
    <3>2. PackOrder[u] \in 1 .. k
      <4>1. CASE k = 3
        BY <4>1 DEF PackOrder
      <4>2. CASE k = 4
        BY <4>2 DEF PackOrder
      <4> QED BY <1>1, <4>1, <4>2
    <3> QED BY <3>1, <3>2
  <2>3. PICK i \in 1 .. n : i = (j - 1) \div k + 1
    BY <2>1
  <2>4. d[j] = ps[q][i]
    BY <1>3, <2>2, <2>3
  <2>5. ps[q][i] \in S
    BY <1>2, ElementOfSeq
  <2> QED BY <2>4, <2>5
<1>5. d \in Seq(S) /\ Len(d) = k * n
  <2>1. d = [j \in 1 .. k * n |-> d[j]]
    BY <1>3
  <2> HIDE DEF d
  <2> QED BY ONLY <1>1, <1>4, <2>1, MakeSeq
<1>6. Len(d) \div k = n
  <2>1. CASE k = 3
    BY <1>5, <2>1
  <2>2. CASE k = 4
    BY <1>5, <2>2
  <2> QED BY <1>1, <2>1, <2>2
<1>7. f = [p \in 1 .. k |-> [i \in 1 .. n |-> d[(i - 1) * k + UnpackOrder[p]]]]
  BY <1>6 DEF Deinterleave
<1>8. ASSUME NEW p \in 1 .. k PROVE f[p] = ps[p]
  <2>1. f[p] = [i \in 1 .. n |-> d[(i - 1) * k + UnpackOrder[p]]]
    BY <1>7
  <2>2. ASSUME NEW i \in 1 .. n PROVE f[p][i] = ps[p][i]
    <3>1. PICK u \in 1 .. k : u = UnpackOrder[p] /\ PackOrder[u] = p
      <4>1. CASE k = 3
        BY <4>1 DEF UnpackOrder, PackOrder
      <4>2. CASE k = 4
        BY <4>2 DEF UnpackOrder, PackOrder
      <4> QED BY <1>1, <4>1, <4>2
    <3>2. PICK j : j = (i - 1) * k + u
      OBVIOUS
    <3>3. j \in 1 .. k * n /\ ((j - 1) % k) + 1 = u /\ (j - 1) \div k + 1 = i
      <4>1. CASE k = 3
        <5>1. i \in 1 .. n /\ n \in Nat /\ u \in 1 .. 3 /\ j = (i - 1) * 3 + u
          BY <1>1, <3>2, <4>1
        <5>2. j \in 1 .. 3 * n /\ ((j - 1) % 3) + 1 = u /\ (j - 1) \div 3 + 1 = i
          BY ONLY <5>1
        <5> QED BY ONLY <4>1, <5>2
      <4>2. CASE k = 4
        <5>1. i \in 1 .. n /\ n \in Nat /\ u \in 1 .. 4 /\ j = (i - 1) * 4 + u
          BY <1>1, <3>2, <4>2
        <5>2. j \in 1 .. 4 * n /\ ((j - 1) % 4) + 1 = u /\ (j - 1) \div 4 + 1 = i
          BY ONLY <5>1
        <5> QED BY ONLY <4>2, <5>2
      <4> QED BY <1>1, <4>1, <4>2
    <3>4. d[j] = ps[p][i]
      BY <1>3, <3>1, <3>3
    <3> QED BY <2>1, <3>1, <3>2, <3>4
  <2>3. f[p] = [i \in 1 .. Len(ps[p]) |-> f[p][i]]
    BY <1>2, <2>1
  <2>4. ps[p] \in Seq(S) /\ Len(ps[p]) = n
    BY <1>2
  <2> HIDE DEF f
  <2> QED BY <2>2, <2>3, <2>4, SameSeq
<1>9. f = [p \in 1 .. Len(ps) |-> f[p]]
  BY <1>7
<1>10. f = ps
  <2> DEFINE T == Seq(S)
  <2>1. ps \in Seq(T)
    OBVIOUS
  <2> HIDE DEF f, T
  <2> QED BY <1>8, <1>9, <2>1, SameSeq
<1> QED BY <1>5, <1>10

------------------------------------------------------------------------------
(* The two layouts of a frame: send_frame takes either back to the planes.   *)

LEMMA FramePlanes ==
  ASSUME Made, NEW ps, IsFrame(ps)
  PROVE  /\ enc.rec.planes \in {1, 3, 4}
         /\ ps \in Seq(Seq(0 .. Container(enc.rec) - 1)) /\ Len(ps) = enc.rec.planes
         /\ \A p \in 1 .. enc.rec.planes :
              /\ ps[p] \in Seq(0 .. Container(enc.rec) - 1)
              /\ Len(ps[p]) \in Nat
              /\ Len(ps[p]) = Geom(p - 1).width * Geom(p - 1).height
              /\ Len(ps[p]) = PlanePixelCount(p - 1)
<1> DEFINE T == Seq(0 .. Container(enc.rec) - 1)
<1>1. Len(ps) = enc.rec.planes /\ enc.rec.planes \in {1, 3, 4} /\ ps \in Seq(T)
  BY MadeTabled DEF IsFrame, Tabled
<1>2. ASSUME NEW p \in 1 .. enc.rec.planes
      PROVE  /\ ps[p] \in Seq(0 .. Container(enc.rec) - 1)
             /\ Len(ps[p]) \in Nat
             /\ Len(ps[p]) = Geom(p - 1).width * Geom(p - 1).height
             /\ Len(ps[p]) = PlanePixelCount(p - 1)
  <2>1. ps[p] \in T
    <3> HIDE DEF T
    <3> QED BY <1>1, ElementOfSeq
  <2>2. Len(ps[p]) = Geom(p - 1).width * Geom(p - 1).height
    BY DEF IsFrame
  <2>3. PlanePixelCount(p - 1) = Geom(p - 1).width * Geom(p - 1).height
    BY PlaneSizes
  <2> QED BY <2>1, <2>2, <2>3
<1> QED BY <1>1, <1>2

LEMMA PlanarTaken ==
  ASSUME Made, NEW ps, IsFrame(ps), NEW v, v = Planar(enc.rec, ps)
  PROVE  /\ ~ Interleaved(v) /\ Fits(v) /\ Inputs(v) = ps
         /\ v \in Seq([stride : Int, data : Seq(Int)]) /\ Len(v) = enc.rec.planes
<1> DEFINE k == enc.rec.planes
           b == IF Deep(enc.rec) THEN 2 ELSE 1
<1>1. k \in {1, 3, 4} /\ (IsRgb(enc.rec) => k >= 3)
  BY MadeTabled DEF Tabled
<1>2. ps \in Seq(Seq(0 .. Container(enc.rec) - 1)) /\ Len(ps) = k
  BY FramePlanes
<1>3. v = [p \in 1 .. k |-> [stride |-> Geom(p - 1).width * b, data |-> ToBytes(enc.rec, ps[p])]]
  BY <1>2 DEF Planar
<1>4. ASSUME NEW p \in 1 .. k
      PROVE  /\ v[p].data = ToBytes(enc.rec, ps[p])
             /\ FromBytes(enc.rec, v[p].data) = ps[p]
             /\ Len(v[p].data) = PlanePixelCount(p - 1) * b
             /\ v[p] \in [stride : Int, data : Seq(Int)]
  <2>1. v[p] = [stride |-> Geom(p - 1).width * b, data |-> ToBytes(enc.rec, ps[p])]
    BY <1>3
  <2>2. ps[p] \in Seq(0 .. Container(enc.rec) - 1) /\ Len(ps[p]) = PlanePixelCount(p - 1)
    BY FramePlanes
  <2>3. /\ FromBytes(enc.rec, ToBytes(enc.rec, ps[p])) = ps[p]
        /\ Len(ToBytes(enc.rec, ps[p])) = Len(ps[p]) * b
        /\ ToBytes(enc.rec, ps[p]) \in Seq(Int)
    BY <2>2, BytesBack
  <2>4. Geom(p - 1).width * b \in Int
    BY PlaneSizes
  <2> HIDE DEF b
  <2> QED BY <2>1, <2>2, <2>3, <2>4
<1> HIDE DEF b
<1>5. v \in Seq([stride : Int, data : Seq(Int)]) /\ Len(v) = k /\ DOMAIN v = 1 .. k
  <2> DEFINE T == [stride : Int, data : Seq(Int)]
  <2>1. k \in Nat /\ v = [p \in 1 .. k |-> v[p]]
    BY <1>1, <1>3
  <2>2. \A p \in 1 .. k : v[p] \in T
    BY <1>4
  <2> HIDE DEF k, T
  <2>3. v \in Seq(T) /\ Len(v) = k /\ DOMAIN v = 1 .. k
    BY ONLY <2>1, <2>2, MakeSeq
  <2> QED BY <2>3 DEF T
<1>6. ~ Interleaved(v)
  BY <1>1, <1>5 DEF Interleaved
<1>7. Fits(v)
  BY <1>4, <1>5, <1>6 DEF Fits, b
<1>8. Inputs(v) = ps
  <2>1. Inputs(v) = [p \in 1 .. k |-> FromBytes(enc.rec, v[p].data)]
    BY <1>5, <1>6 DEF Inputs
  <2>2. Inputs(v) = [p \in 1 .. k |-> ps[p]]
    BY <1>4, <2>1
  <2>3. ps = [p \in 1 .. k |-> ps[p]]
    BY <1>2
  <2> QED BY <2>2, <2>3
<1> QED BY <1>5, <1>6, <1>7, <1>8

LEMMA PackedTaken ==
  ASSUME Made, NEW ps, IsFrame(ps), IsRgb(enc.rec), ~ Deep(enc.rec),
         NEW v, v = Packed(enc.rec, ps)
  PROVE  /\ Interleaved(v) /\ Fits(v) /\ Inputs(v) = ps
         /\ v = << v[1] >> /\ v[1] \in [stride : Int, data : Seq(Int)]
         /\ v[1].stride = enc.width * enc.rec.planes
         /\ Len(v[1].data) = enc.width * enc.height * enc.rec.planes
<1>1. PICK k \in {3, 4} : k = enc.rec.planes
  BY MadeTabled DEF Tabled
<1>2. PICK n \in Nat : n = enc.width * enc.height
  BY MadeTabled
<1> DEFINE S == 0 .. Container(enc.rec) - 1
           d == Interleave(enc.rec, ps)
<1>3. ps \in Seq(Seq(S)) /\ Len(ps) = k
  BY <1>1, FramePlanes
<1>4. \A p \in 1 .. k : Len(ps[p]) = n
  <2>1. enc.rec.family # "YUV"
    BY DEF IsRgb
  <2> QED BY <1>1, <1>2, <2>1, FramePlanes, PlaneSizes
<1>5. Deinterleave(enc.rec, d) = ps /\ d \in Seq(S) /\ Len(d) = k * n
  <2>1. Len(ps) = enc.rec.planes /\ enc.rec.planes = k
    BY <1>1, <1>3
  <2>2. \A p \in 1 .. enc.rec.planes : Len(ps[p]) = n
    BY <1>1, <1>4
  <2> HIDE DEF S
  <2>3. k \in {3, 4}
    OBVIOUS
  <2>4. /\ Deinterleave(enc.rec, Interleave(enc.rec, ps)) = ps
        /\ Interleave(enc.rec, ps) \in Seq(S)
        /\ Len(Interleave(enc.rec, ps)) = enc.rec.planes * n
    BY ONLY <1>3, <2>1, <2>2, <2>3, PixelsBack, Zenon
  <2> QED BY <2>1, <2>4
<1>6. d \in Seq(Int)
  <2>1. Len(d) \in Nat /\ d = [j \in 1 .. Len(d) |-> d[j]]
    BY <1>5
  <2>2. ASSUME NEW j \in 1 .. Len(d) PROVE d[j] \in Int
    <3>1. d[j] \in S
      <4> HIDE DEF S, d
      <4> QED BY <1>5, ElementOfSeq
    <3> QED BY <3>1, ContainerNat
  <2> QED BY ONLY <2>1, <2>2, MakeSeq
<1>7. v = << [stride |-> enc.width * enc.rec.planes, data |-> d] >>
  BY DEF Packed
<1>8. enc.width * enc.rec.planes \in Int /\ k * n = n * k
  <2>1. enc.width * 3 \in Int /\ enc.width * 4 \in Int
    BY MadeTabled
  <2> QED BY <1>1, <2>1
<1> HIDE DEF d
<1>9. /\ v = << v[1] >> /\ v[1] \in [stride : Int, data : Seq(Int)]
      /\ v[1].stride = enc.width * enc.rec.planes
      /\ v[1].data = d /\ Len(v) = 1
  BY <1>6, <1>7, <1>8
<1>10. Interleaved(v)
  BY <1>9 DEF Interleaved
<1>11. Len(v[1].data) = enc.width * enc.height * enc.rec.planes
  BY <1>1, <1>2, <1>5, <1>8, <1>9
<1> QED BY <1>5, <1>9, <1>10, <1>11 DEF Fits, Inputs

(* What map_to_video_frame emits is one of the two.                          *)
LEMMA VideoTaken ==
  ASSUME Made, NEW ps, IsFrame(ps), NEW v, v = VideoOf(enc.rec, ps)
  PROVE  Fits(v) /\ Inputs(v) = ps
BY PlanarTaken, PackedTaken DEF VideoOf

------------------------------------------------------------------------------
(* The caller's frame.                                                       *)

LEMMA ContentIsFrame ==
  ASSUME Made, NEW pattern \in Patterns
  PROVE  IsFrame(Content(pattern))
<1> DEFINE k == enc.rec.planes
           S == 0 .. Container(enc.rec) - 1
           Size(p) == Geom(p - 1).width * Geom(p - 1).height
           c == Content(pattern)
<1>1. k \in Nat /\ k <= 4
  BY MadeTabled DEF Tabled
<1>2. c = [p \in 1 .. k |-> [i \in 1 .. Size(p) |-> (pattern[p] + i - 1) % Container(enc.rec)]]
  BY DEF Content
<1> HIDE DEF c
<1>3. ASSUME NEW p \in 1 .. k
      PROVE  c[p] \in Seq(S) /\ Len(c[p]) = Size(p)
  <2>1. Size(p) \in Nat
    BY PlaneSizes
  <2> HIDE DEF Size, k
  <2>2. c[p] = [i \in 1 .. Size(p) |-> (pattern[p] + i - 1) % Container(enc.rec)]
    BY <1>2
  <2>3. pattern[p] \in Nat
    BY <1>1, FrameLayoutAssumption
  <2>4. ASSUME NEW i \in 1 .. Size(p) PROVE c[p][i] \in S
    <3>1. pattern[p] + i - 1 \in Nat /\ Container(enc.rec) \in Nat \ {0}
      BY <2>1, <2>3, ContainerNat
    <3>2. (pattern[p] + i - 1) % Container(enc.rec) \in S
      BY <3>1
    <3> QED BY <2>2, <3>2
  <2>5. c[p] = [i \in 1 .. Size(p) |-> c[p][i]]
    BY <2>2
  <2> HIDE DEF S
  <2> QED BY ONLY <2>1, <2>4, <2>5, MakeSeq
<1>4. c \in Seq(Seq(S)) /\ Len(c) = k
  <2> DEFINE T == Seq(S)
  <2>1. c = [p \in 1 .. k |-> c[p]] /\ \A p \in 1 .. k : c[p] \in T
    BY <1>2, <1>3
  <2> HIDE DEF T, k
  <2>2. c \in Seq(T) /\ Len(c) = k
    BY ONLY <1>1, <2>1, MakeSeq
  <2> QED BY <2>2 DEF T
<1> QED BY <1>3, <1>4 DEF IsFrame, c

(* Without its first element a sequence is one shorter.                      *)
LEMMA Shorter ==
  ASSUME NEW S, NEW s \in Seq(S), Len(s) # 0
  PROVE  Tail(s) \in Seq(S) /\ Len(Tail(s)) = Len(s) - 1
OBVIOUS

LEMMA ByteCut ==
  ASSUME NEW v \in Seq([stride : Int, data : Seq(Int)]), Len(v) # 0, Len(v[1].data) # 0,
         NEW u, u = [v EXCEPT ![1].data = Tail(@)]
  PROVE  /\ 1 \in DOMAIN u /\ Len(u) = Len(v)
         /\ Len(v[1].data) \in Nat /\ Len(u[1].data) = Len(v[1].data) - 1
<1> DEFINE T == [stride : Int, data : Seq(Int)]
<1>1. Len(v) \in Nat /\ 1 \in 1 .. Len(v) /\ DOMAIN v = 1 .. Len(v)
  OBVIOUS
<1>2. v[1] \in T
  <2> HIDE DEF T
  <2>1. v \in Seq(T)
    BY DEF T
  <2> QED BY <1>1, <2>1, ElementOfSeq
<1>3. Len(Tail(v[1].data)) = Len(v[1].data) - 1 /\ Len(v[1].data) \in Nat
  BY <1>2, Shorter
<1>4. u[1].data = Tail(v[1].data) /\ DOMAIN u = DOMAIN v
  BY <1>1, <1>2
<1>5. Len(u) = Len(v)
  <2> DEFINE R == {u[i] : i \in 1 .. Len(v)}
  <2>1. u = [i \in 1 .. Len(v) |-> u[i]] /\ \A i \in 1 .. Len(v) : u[i] \in R
    BY <1>1, <1>4
  <2> HIDE DEF R
  <2> QED BY ONLY <1>1, <2>1, MakeSeq
<1> QED BY <1>1, <1>3, <1>4, <1>5

LEMMA WrongCount ==
  ASSUME NEW v, Len(v) # enc.rec.planes, IsRgb(enc.rec) => Len(v) # 1
  PROVE  ~ Fits(v)
BY DEF Fits, Interleaved

LEMMA WrongLength ==
  ASSUME NEW v, 1 \in DOMAIN v, IsRgb(enc.rec) => Len(v) # 1,
         Len(v[1].data) # PlanePixelCount(0) * (IF Deep(enc.rec) THEN 2 ELSE 1)
  PROVE  ~ Fits(v)
<1>1. 1 - 1 = 0
  OBVIOUS
<1> QED BY <1>1 DEF Fits, Interleaved

(* A frame with something missing is refused: of what is missing nothing can *)
(* be mistaken for another layout.                                           *)
LEMMA PlaneMissing ==
  ASSUME Made, NEW ps, IsFrame(ps), NEW v \in {Planar(enc.rec, ps), VideoOf(enc.rec, ps)}
  PROVE  ~ Fits(Tail(v))
<1> DEFINE k == enc.rec.planes
<1>1. k \in {1, 3, 4}
  BY MadeTabled DEF Tabled
<1>0. IsRgb(enc.rec) => k # 1
  BY MadeTabled DEF Tabled
<1>2. CASE v = Planar(enc.rec, ps)
  <2>1. v \in Seq([stride : Int, data : Seq(Int)]) /\ Len(v) = k
    BY <1>2, PlanarTaken
  <2>2. Len(Tail(v)) = k - 1
    <3> DEFINE T == [stride : Int, data : Seq(Int)]
    <3>1. v \in Seq(T) /\ Len(v) # 0
      BY <1>1, <2>1
    <3> HIDE DEF T
    <3> QED BY <2>1, <3>1, Shorter
  <2>3. k - 1 # k /\ k - 1 # 1
    BY <1>1
  <2>4. Len(Tail(v)) # enc.rec.planes /\ Len(Tail(v)) # 1
    BY <2>2, <2>3, Zenon
  <2> QED BY <2>4, WrongCount, Zenon
<1>3. CASE v # Planar(enc.rec, ps)
  <2>1. IsRgb(enc.rec) /\ ~ Deep(enc.rec) /\ v = Packed(enc.rec, ps)
    BY <1>3 DEF VideoOf
  <2>2. v = << v[1] >>
    BY <2>1, PackedTaken
  <2>3. Len(Tail(v)) = 0
    BY <2>2
  <2>4. 0 # k /\ 0 # 1
    BY <1>1
  <2>5. Len(Tail(v)) # enc.rec.planes /\ Len(Tail(v)) # 1
    BY <2>3, <2>4, Zenon
  <2> QED BY <2>5, WrongCount, Zenon
<1> QED BY <1>2, <1>3

LEMMA ByteMissing ==
  ASSUME Made, NEW ps, IsFrame(ps), NEW v \in {Planar(enc.rec, ps), VideoOf(enc.rec, ps)},
         NEW u, u = [v EXCEPT ![1].data = Tail(@)]
  PROVE  ~ Fits(u)
<1> DEFINE k == enc.rec.planes
           T == [stride : Int, data : Seq(Int)]
           n == enc.width * enc.height
<1>1. k \in {1, 3, 4} /\ n \in Nat \ {0}
  BY MadeTabled DEF Tabled
<1>0. IsRgb(enc.rec) => k # 1
  BY MadeTabled DEF Tabled
<1>2. CASE v = Planar(enc.rec, ps)
  <2> DEFINE b == IF Deep(enc.rec) THEN 2 ELSE 1
  <2>1. v \in Seq(T) /\ Len(v) = k /\ ~ Interleaved(v) /\ Fits(v)
    BY <1>2, PlanarTaken
  <2>2. Len(v[1].data) = PlanePixelCount(1 - 1) * b
    BY <1>1, <2>1 DEF Fits
  <2>3. PlanePixelCount(0) = n /\ 1 - 1 = 0
    BY DEF PlanePixelCount
  <2>4. Len(v[1].data) = PlanePixelCount(0) * b /\ Len(v[1].data) # 0 /\ Len(v) # 0
    BY <1>1, <2>1, <2>2, <2>3
  <2>5. /\ 1 \in DOMAIN u /\ Len(u) = k
        /\ Len(v[1].data) \in Nat /\ Len(u[1].data) = Len(v[1].data) - 1
    BY <2>1, <2>4, ByteCut
  <2>6. IsRgb(enc.rec) => Len(u) # 1
    BY <1>0, <2>5, Zenon
  <2>7. Len(u[1].data) # PlanePixelCount(0) * b
    BY <2>4, <2>5
  <2> QED BY <2>5, <2>6, <2>7, WrongLength, Zenon
<1>3. CASE v # Planar(enc.rec, ps)
  <2>1. IsRgb(enc.rec) /\ ~ Deep(enc.rec) /\ v = Packed(enc.rec, ps)
    BY <1>3 DEF VideoOf
  <2>2. v = << v[1] >> /\ v[1] \in T /\ Len(v[1].data) = n * k
    BY <2>1, PackedTaken
  <2>3. n * k \in Nat \ {0}
    <3>1. n * 1 \in Nat \ {0} /\ n * 3 \in Nat \ {0} /\ n * 4 \in Nat \ {0}
      BY <1>1
    <3> QED BY <1>1, <3>1
  <2>4. v \in Seq(T) /\ Len(v) = 1
    <3>1. PICK x \in T : v = << x >>
      BY <2>2
    <3> HIDE DEF T
    <3> QED BY ONLY <3>1
  <2>5. Len(u) = 1 /\ Len(v[1].data) \in Nat /\ Len(u[1].data) = Len(v[1].data) - 1
    BY <2>2, <2>3, <2>4, ByteCut
  <2>6. Interleaved(u)
    BY <2>1, <2>5 DEF Interleaved
  <2>7. Len(u[1].data) # n * k
    BY <2>2, <2>5
  <2> QED BY <2>6, <2>7 DEF Fits
<1> QED BY <1>2, <1>3

------------------------------------------------------------------------------
(* The depth mask and the decorrelation.                                     *)

LEMMA SampleCut ==
  ASSUME NEW m \in Nat \ {0}, NEW x \in Nat
  PROVE  /\ x % m \in 0 .. m - 1
         /\ (x % m) % m = x % m
OBVIOUS

LEMMA CutFrame ==
  ASSUME Made, NEW ps, IsFrame(ps), NEW c, c = Cut(enc.rec, ps)
  PROVE  /\ IsFrame(c) /\ Cut(enc.rec, c) = c
         /\ DOMAIN c = DOMAIN ps /\ \A p \in DOMAIN c : Len(c[p]) = Len(ps[p])
         /\ \A p \in DOMAIN c : \A i \in 1 .. Len(c[p]) : c[p][i] \in 0 .. Modulus(enc.rec) - 1
<1> DEFINE k == enc.rec.planes
           m == Modulus(enc.rec)
           S == 0 .. Container(enc.rec) - 1
<1>1. k \in Nat /\ m \in Nat \ {0} /\ m <= Container(enc.rec) /\ Container(enc.rec) \in Nat
  BY FramePlanes, ContainerNat
<1>2. DOMAIN ps = 1 .. k
  BY FramePlanes
<1>3. c = [p \in 1 .. k |-> [i \in DOMAIN ps[p] |-> ps[p][i] % m]]
  BY <1>2 DEF Cut, MaskedSamples
<1>4. ASSUME NEW p \in 1 .. k
      PROVE  /\ c[p] \in Seq(S) /\ Len(c[p]) = Len(ps[p])
             /\ [i \in DOMAIN c[p] |-> c[p][i] % m] = c[p]
             /\ \A i \in 1 .. Len(c[p]) : c[p][i] \in 0 .. m - 1
  <2> HIDE DEF k, m
  <2>1. ps[p] \in Seq(S) /\ Len(ps[p]) \in Nat /\ DOMAIN ps[p] = 1 .. Len(ps[p])
    BY FramePlanes DEF k
  <2>2. c[p] = [i \in 1 .. Len(ps[p]) |-> ps[p][i] % m]
    BY <1>3, <2>1
  <2>3. ASSUME NEW i \in 1 .. Len(ps[p])
        PROVE  c[p][i] \in S /\ c[p][i] \in 0 .. m - 1 /\ c[p][i] % m = c[p][i]
    <3>1. ps[p][i] \in S
      <4> HIDE DEF S
      <4> QED BY <2>1, ElementOfSeq
    <3>2. ps[p][i] \in Nat
      BY <1>1, <3>1
    <3>3. ps[p][i] % m \in 0 .. m - 1 /\ (ps[p][i] % m) % m = ps[p][i] % m
      BY ONLY <1>1, <3>2, SampleCut
    <3>4. c[p][i] = ps[p][i] % m
      BY <2>2
    <3>5. c[p][i] \in S
      BY <1>1, <3>3, <3>4
    <3> QED BY <3>3, <3>4, <3>5
  <2>4. c[p] = [i \in 1 .. Len(ps[p]) |-> c[p][i]]
    BY <2>2
  <2>5. c[p] \in Seq(S) /\ Len(c[p]) = Len(ps[p]) /\ DOMAIN c[p] = 1 .. Len(ps[p])
    <3> HIDE DEF S
    <3> QED BY ONLY <2>1, <2>3, <2>4, MakeSeq
  <2>6. [i \in DOMAIN c[p] |-> c[p][i] % m] = [i \in 1 .. Len(ps[p]) |-> c[p][i]]
    BY <2>3, <2>5
  <2> QED BY <2>3, <2>4, <2>5, <2>6
<1> HIDE DEF m
<1>5. c \in Seq(Seq(S)) /\ Len(c) = k /\ DOMAIN c = 1 .. k
  <2> DEFINE T == Seq(S)
  <2>1. c = [p \in 1 .. k |-> c[p]] /\ \A p \in 1 .. k : c[p] \in T
    BY <1>3, <1>4
  <2> HIDE DEF T, k
  <2>2. c \in Seq(T) /\ Len(c) = k /\ DOMAIN c = 1 .. k
    BY ONLY <1>1, <2>1, MakeSeq
  <2> QED BY <2>2 DEF T
<1>6. IsFrame(c)
  BY <1>4, <1>5 DEF IsFrame
<1>7. Cut(enc.rec, c) = c
  <2>1. Cut(enc.rec, c) = [p \in 1 .. k |-> [i \in DOMAIN c[p] |-> c[p][i] % m]]
    BY <1>5 DEF Cut, MaskedSamples, m
  <2>2. Cut(enc.rec, c) = [p \in 1 .. k |-> c[p]]
    BY <1>4, <2>1
  <2>3. c = [p \in 1 .. k |-> c[p]]
    BY <1>5
  <2> QED BY <2>2, <2>3
<1> QED BY <1>2, <1>4, <1>5, <1>6, <1>7 DEF m

(* Adding back what was subtracted, modulo m.                                *)
LEMMA AddBack ==
  ASSUME NEW m \in Nat \ {0}, NEW x \in 0 .. m - 1, NEW y \in 0 .. m - 1
  PROVE  (((x - y) % m) + y) % m = x
<1>1. CASE x >= y
  <2>1. (x - y) % m = x - y
    BY <1>1
  <2>2. x % m = x
    OBVIOUS
  <2> QED BY <2>1, <2>2
<1>2. CASE x < y
  <2>1. (x - y) % m = x - y + m
    BY <1>2
  <2>2. (x + m) % m = x
    OBVIOUS
  <2> QED BY <2>1, <2>2
<1> QED BY <1>1, <1>2

LEMMA PlusMinus ==
  ASSUME NEW rec, NEW s \in Seq(Nat), NEW t \in Seq(Nat), Len(t) = Len(s),
         \A i \in 1 .. Len(s) : s[i] \in 0 .. Modulus(rec) - 1 /\ t[i] \in 0 .. Modulus(rec) - 1
  PROVE  Plus(rec, Minus(rec, s, t), t) = s
<1> DEFINE m == Modulus(rec)
           d == Minus(rec, s, t)
           f == Plus(rec, d, t)
<1>1. m \in Nat \ {0} /\ DOMAIN s = 1 .. Len(s)
  BY ContainerNat
<1>2. d = [i \in 1 .. Len(s) |-> (s[i] - t[i]) % m]
  BY <1>1 DEF Minus
<1>3. f = [i \in 1 .. Len(s) |-> (d[i] + t[i]) % m]
  BY <1>2 DEF Plus
<1> HIDE DEF m, d, f
<1>4. ASSUME NEW i \in 1 .. Len(s) PROVE f[i] = s[i]
  <2>1. (((s[i] - t[i]) % m) + t[i]) % m = s[i]
    <3>1. s[i] \in 0 .. m - 1 /\ t[i] \in 0 .. m - 1
      BY DEF m
    <3> QED BY ONLY <1>1, <3>1, AddBack
  <2> QED BY <1>2, <1>3, <2>1
<1>5. f = [i \in 1 .. Len(s) |-> f[i]]
  BY <1>3
<1>6. f = s
  BY ONLY <1>4, <1>5, s \in Seq(Nat), SameSeq
<1> QED BY <1>6 DEF d, f

(* Three elements in front of the rest of a sequence.                        *)
LEMMA ThreeAndRest ==
  ASSUME NEW S, NEW s \in Seq(S), Len(s) \in {3, 4},
         NEW a \in S, NEW b \in S, NEW c \in S,
         NEW u, u = << a, b, c >> \o SubSeq(s, 4, Len(s))
  PROVE  /\ u \in Seq(S) /\ Len(u) = Len(s)
         /\ u[1] = a /\ u[2] = b /\ u[3] = c
         /\ Len(s) = 4 => u[4] = s[4]
<1> DEFINE t == << a, b, c >>
           r == SubSeq(s, 4, Len(s))
<1>1. t \in Seq(S) /\ Len(t) = 3 /\ t[1] = a /\ t[2] = b /\ t[3] = c
  OBVIOUS
<1>2. r \in Seq(S) /\ Len(r) = Len(s) - 3 /\ (Len(s) = 4 => r[1] = s[4])
  <2>1. /\ SubSeq(s, 3 + 1, Len(s)) \in Seq(S)
        /\ Len(SubSeq(s, 3 + 1, Len(s))) = Len(s) - 3
        /\ \A i \in 1 .. Len(s) - 3 : SubSeq(s, 3 + 1, Len(s))[i] = s[3 + i]
    <3>1. 3 \in Nat /\ Len(s) \in Nat /\ 3 <= Len(s)
      OBVIOUS
    <3> QED BY <3>1, CutOut
  <2>2. 3 + 1 = 4
    OBVIOUS
  <2> HIDE DEF r
  <2>3. r = SubSeq(s, 3 + 1, Len(s))
    BY <2>2 DEF r
  <2>4. Len(s) = 4 => r[1] = s[3 + 1]
    BY <2>1, <2>3
  <2> QED BY <2>1, <2>2, <2>3, <2>4
<1> HIDE DEF t, r
<1>3. u = t \o r
  BY DEF t, r
<1>4. /\ t \o r \in Seq(S)
      /\ Len(t \o r) = Len(t) + Len(r)
      /\ \A i \in 1 .. Len(t) : (t \o r)[i] = t[i]
      /\ \A i \in 1 .. Len(r) : (t \o r)[Len(t) + i] = r[i]
  <2>1. t \in Seq(S) /\ r \in Seq(S)
    BY <1>1, <1>2
  <2> QED BY ONLY <2>1, Concatenated
<1>5. /\ u \in Seq(S) /\ Len(u) = 3 + Len(r)
      /\ \A i \in 1 .. 3 : u[i] = t[i]
      /\ \A i \in 1 .. Len(r) : u[3 + i] = r[i]
  BY <1>1, <1>3, <1>4
<1>6. Len(u) = Len(s)
  BY <1>2, <1>5
<1>7. u[1] = a /\ u[2] = b /\ u[3] = c
  BY <1>1, <1>5
<1>8. Len(s) = 4 => u[4] = s[4]
  <2> SUFFICES ASSUME Len(s) = 4 PROVE u[4] = s[4]
    OBVIOUS
  <2>1. 1 \in 1 .. Len(r) /\ 3 + 1 = 4
    BY <1>2
  <2>2. u[3 + 1] = r[1]
    BY <1>5, <2>1
  <2> QED BY <1>2, <2>1, <2>2
<1> QED BY <1>5, <1>6, <1>7, <1>8

(* The decoder's reverse gives back the planes that were decorrelated.       *)
LEMMA ReverseUndoes ==
  ASSUME Made, NEW ps, IsFrame(ps),
         \A p \in DOMAIN ps : \A i \in 1 .. Len(ps[p]) : ps[p][i] \in 0 .. Modulus(enc.rec) - 1
  PROVE  ReverseDecorrelation(enc.rec, Decorrelate(enc.rec, ps)) = ps
<1>1. CASE ~ IsRgb(enc.rec)
  BY <1>1 DEF Decorrelate, ReverseDecorrelation
<1>2. CASE IsRgb(enc.rec)
  <2> DEFINE rec == enc.rec
             w == Decorrelate(rec, ps)
             r == ReverseDecorrelation(rec, w)
             m == Modulus(rec)
             T == Seq(Nat)
  <2>1. PICK k \in {3, 4} : k = rec.planes
    BY <1>2, MadeTabled DEF Tabled
  <2>2. PICK n \in Nat : n = enc.width * enc.height
    BY MadeTabled
  <2>3. Len(ps) = k /\ DOMAIN ps = 1 .. k /\ ps = [p \in 1 .. k |-> ps[p]]
    BY <2>1, FramePlanes
  <2>4. m \in Nat \ {0}
    BY ContainerNat
  <2>5. ASSUME NEW p \in 1 .. k
        PROVE  /\ ps[p] \in Seq(Nat) /\ Len(ps[p]) = n
               /\ \A i \in 1 .. n : ps[p][i] \in 0 .. m - 1
    <3>1. rec.family # "YUV"
      BY <1>2 DEF IsRgb
    <3>2. Len(ps[p]) = n
      BY <2>1, <2>2, <3>1, FramePlanes, PlaneSizes
    <3>3. \A i \in 1 .. n : ps[p][i] \in 0 .. m - 1
      BY <2>3, <3>2
    <3>4. ps[p] = [i \in 1 .. n |-> ps[p][i]]
      BY <2>1, <3>2, FramePlanes
    <3>5. \A i \in 1 .. n : ps[p][i] \in Nat
      BY <2>4, <3>3
    <3>6. ps[p] \in Seq(Nat)
      BY ONLY <3>4, <3>5, n \in Nat, MakeSeq
    <3> QED BY <3>2, <3>3, <3>6
  <2> HIDE DEF m
  <2>6. ASSUME NEW p \in 1 .. k, NEW q \in 1 .. k
        PROVE  /\ Minus(rec, ps[p], ps[q]) \in T
               /\ Plus(rec, Minus(rec, ps[p], ps[q]), ps[q]) = ps[p]
    <3>1. /\ ps[p] \in Seq(Nat) /\ ps[q] \in Seq(Nat) /\ Len(ps[q]) = Len(ps[p])
          /\ Len(ps[p]) = n
          /\ \A i \in 1 .. n : ps[p][i] \in 0 .. m - 1 /\ ps[q][i] \in 0 .. m - 1
      BY <2>5
    <3>2. Plus(rec, Minus(rec, ps[p], ps[q]), ps[q]) = ps[p]
      BY <3>1, PlusMinus DEF m
    <3>3. PICK d : d = Minus(rec, ps[p], ps[q])
      OBVIOUS
    <3>4. d = [i \in 1 .. n |-> (ps[p][i] - ps[q][i]) % m]
      BY <3>1, <3>3 DEF Minus, m
    <3>5. ASSUME NEW i \in 1 .. n PROVE d[i] \in Nat
      <4>1. ps[p][i] - ps[q][i] \in Int
        BY <2>4, <3>1
      <4>2. (ps[p][i] - ps[q][i]) % m \in Nat
        BY <2>4, <4>1
      <4> QED BY <3>4, <4>2
    <3>6. d = [i \in 1 .. n |-> d[i]]
      BY <3>4
    <3>7. d \in Seq(Nat)
      BY ONLY <3>5, <3>6, n \in Nat, MakeSeq
    <3> QED BY <3>2, <3>3, <3>7
  <2>7. ps \in Seq(T) /\ \A p \in 1 .. k : ps[p] \in T
    <3>1. \A p \in 1 .. k : ps[p] \in T
      BY <2>5
    <3>2. k \in Nat
      OBVIOUS
    <3> HIDE DEF T
    <3> QED BY ONLY <2>3, <3>1, <3>2, MakeSeq
  <2> HIDE DEF T
  <2>8. 1 \in 1 .. k /\ 2 \in 1 .. k /\ 3 \in 1 .. k /\ Len(ps) \in {3, 4}
    BY <2>3
  <2>9. /\ w \in Seq(T) /\ Len(w) = Len(ps)
        /\ w[1] = Minus(rec, ps[2], ps[1]) /\ w[2] = ps[1] /\ w[3] = Minus(rec, ps[3], ps[1])
        /\ Len(ps) = 4 => w[4] = ps[4]
    <3>1. w = << Minus(rec, ps[2], ps[1]), ps[1], Minus(rec, ps[3], ps[1]) >> \o SubSeq(ps, 4, Len(ps))
      BY <1>2 DEF Decorrelate
    <3>2. Minus(rec, ps[2], ps[1]) \in T /\ ps[1] \in T /\ Minus(rec, ps[3], ps[1]) \in T
      BY <2>6, <2>7, <2>8
    <3> HIDE DEF w, rec
    <3> QED BY ONLY <2>7, <2>8, <3>1, <3>2, ThreeAndRest
  <2> HIDE DEF w
  <2>10. Plus(rec, w[1], w[2]) = ps[2] /\ Plus(rec, w[3], w[2]) = ps[3]
    BY <2>6, <2>8, <2>9
  <2>11. /\ r \in Seq(T) /\ Len(r) = Len(w)
         /\ r[1] = w[2] /\ r[2] = Plus(rec, w[1], w[2]) /\ r[3] = Plus(rec, w[3], w[2])
         /\ Len(w) = 4 => r[4] = w[4]
    <3>1. r = << w[2], Plus(rec, w[1], w[2]), Plus(rec, w[3], w[2]) >> \o SubSeq(w, 4, Len(w))
      BY <1>2 DEF ReverseDecorrelation
    <3>2. w[2] \in T /\ Plus(rec, w[1], w[2]) \in T /\ Plus(rec, w[3], w[2]) \in T
          /\ Len(w) \in {3, 4}
      BY <2>7, <2>8, <2>9, <2>10
    <3> HIDE DEF r, rec
    <3> QED BY ONLY <2>9, <3>1, <3>2, ThreeAndRest
  <2> HIDE DEF r
  <2>12. ASSUME NEW p \in 1 .. k PROVE r[p] = ps[p]
    <3>1. p \in {1, 2, 3} \/ (p = 4 /\ k = 4)
      OBVIOUS
    <3> QED BY <2>3, <2>9, <2>10, <2>11, <3>1
  <2>13. Len(r) = k /\ r = [p \in 1 .. Len(r) |-> r[p]]
    BY <2>3, <2>9, <2>11
  <2>14. r = ps
    BY <2>3, <2>12, <2>13
  <2> QED BY <2>14 DEF r, w
<1> QED BY <1>1, <1>2

------------------------------------------------------------------------------
(* What is said of a frame stays true while the encoder is the same.         *)

LEMMA FrameKept ==
  ASSUME UNCHANGED enc, NEW CONSTANT s, sent' = s
  PROVE  IsFrame(sent)' <=> IsFrame(s)
BY DEF IsFrame, Geom

LEMMA VideoKept ==
  ASSUME UNCHANGED enc, NEW CONSTANT v, video' = v
  PROVE  (Fits(video)' <=> Fits(v)) /\ Inputs(video)' = Inputs(v)
<1>1. Interleaved(video)' <=> Interleaved(v)
  BY DEF Interleaved
<1>2. \A p : PlanePixelCount(p)' = PlanePixelCount(p)
  BY DEF PlanePixelCount
<1> QED BY <1>1, <1>2 DEF Fits, Inputs

LEMMA AcceptedKept ==
  ASSUME UNCHANGED enc, NEW CONSTANT s, sent' = s
  PROVE  Accepted(sent)' <=> Accepted(s)
<1>1. RequestOf(sent)' = RequestOf(s)
  BY DEF RequestOf
<1> HIDE DEF RequestOf
<1>2. (E(sent)!Deep)' = E(s)!Deep
  BY <1>1, Zenon DEF E!Deep
<1>3. ASSUME NEW CONSTANT p PROVE (E(sent)!Dims(p))' = E(s)!Dims(p)
  BY <1>1, Zenon DEF E!Dims, E!PlaneGeom, E!SubX, E!SubY, E!Chroma
<1>4. (E(sent)!InputChecks)' = E(s)!InputChecks
  BY <1>1, <1>2, <1>3, ZenonT(40) DEF E!InputChecks
<1> QED BY <1>4 DEF Accepted, EncodeFails

------------------------------------------------------------------------------
(* The invariant is inductive.                                               *)

LEMMA InitInv == Init => Inv
BY DEF Init, Inv

LEMMA MakeEncoderInv ==
  ASSUME Inv, MakeEncoder
  PROVE  Inv'
<1>1. params' = params /\ params \in Params
  BY DEF Inv, MakeEncoder
<1>2. CASE Native(params.tag) /\ params.width > 0 /\ params.height > 0
  <2>1. reply' = "made" /\ enc' = [rec |-> FourccTable[params.tag],
                                   width |-> params.width, height |-> params.height,
                                   sliceHeight |-> SliceHeightOf(params.sliceHeight, params.height)]
    BY <1>2 DEF MakeEncoder
  <2>2. params.width \in Nat \ {0} /\ params.height \in Nat \ {0} /\ params.tag \in DOMAIN FourccTable
    BY <1>1, <1>2, FrameLayoutAssumption DEF Native
  <2>3. Made'
    BY <2>1, <2>2, Zenon DEF Made
  <2> QED BY <1>1, <2>1, <2>3 DEF Inv
<1>3. CASE ~ (Native(params.tag) /\ params.width > 0 /\ params.height > 0)
  <2>1. reply' = "Invalid"
    BY <1>3 DEF MakeEncoder
  <2> QED BY <1>1, <2>1 DEF Inv
<1> QED BY <1>2, <1>3

LEMMA ComposeFrameInv ==
  ASSUME Inv, NEW pattern \in Patterns, NEW fault \in Faults, ComposeFrame(pattern, fault)
  PROVE  Inv'
<1>1. /\ params' = params /\ params \in Params /\ enc' = enc /\ Made /\ reply' = "composed"
      /\ sent' = Content(pattern)
      /\ \E v \in {Planar(enc.rec, Content(pattern)), VideoOf(enc.rec, Content(pattern))} :
           video' = Faulty(v, fault)
  BY DEF Inv, ComposeFrame
<1>2. PICK s : s = Content(pattern)
  OBVIOUS
<1>3. IsFrame(s)
  BY <1>1, <1>2, ContentIsFrame
<1>4. PICK v : v \in {Planar(enc.rec, s), VideoOf(enc.rec, s)} /\ video' = Faulty(v, fault)
  BY <1>1, <1>2
<1>5. PICK u : u = Faulty(v, fault)
  OBVIOUS
<1>6. Fits(u) => Inputs(u) = s
  <2>1. CASE fault = "none"
    <3>1. u = v
      BY <1>5, <2>1 DEF Faulty
    <3> QED BY <1>1, <1>3, <1>4, <3>1, PlanarTaken, VideoTaken
  <2>2. CASE fault = "planeMissing"
    <3>1. u = Tail(v)
      BY <1>5, <2>2 DEF Faulty
    <3> QED BY <1>1, <1>3, <1>4, <3>1, PlaneMissing
  <2>3. CASE fault = "byteMissing"
    <3>1. u = [v EXCEPT ![1].data = Tail(@)]
      BY <1>5, <2>3 DEF Faulty
    <3> QED BY <1>1, <1>3, <1>4, <3>1, ByteMissing
  <2> QED BY <2>1, <2>2, <2>3, FrameLayoutAssumption
<1>7. (Fits(video) => Inputs(video) = sent)'
  <2>1. (Fits(video)' <=> Fits(u)) /\ Inputs(video)' = Inputs(u)
    BY <1>1, <1>4, <1>5, VideoKept
  <2> QED BY <1>1, <1>2, <1>6, <2>1
<1>8. Made'
  BY <1>1 DEF Made
<1>9. IsFrame(sent)'
  BY <1>1, <1>2, <1>3, FrameKept
<1> QED BY <1>1, <1>7, <1>8, <1>9 DEF Inv

(* The planes the encoder takes from a frame are the caller's, or the cut    *)
(* ones when the frame came from the decoder.                                *)
LEMMA InputsAre ==
  ASSUME Inv, reply \in {"composed", "mapped"}, Fits(video)
  PROVE  /\ Made /\ IsFrame(sent)
         /\ Inputs(video) = sent \/ Inputs(video) = Cut(enc.rec, sent)
         /\ reply = "mapped" => Inputs(video) = Cut(enc.rec, sent) /\ Accepted(sent)
<1>1. Made /\ IsFrame(sent)
  BY DEF Inv
<1>2. CASE reply = "composed"
  BY <1>1, <1>2 DEF Inv
<1>3. CASE reply = "mapped"
  <2>1. PICK c : c = Cut(enc.rec, sent)
    OBVIOUS
  <2>2. video = VideoOf(enc.rec, c) /\ Accepted(sent)
    BY <1>3, <2>1 DEF Inv
  <2>3. IsFrame(c)
    BY <1>1, <2>1, CutFrame
  <2>4. Inputs(video) = c
    BY <1>1, <2>2, <2>3, VideoTaken
  <2> QED BY <1>1, <2>1, <2>2, <2>4
<1> QED BY <1>2, <1>3

(* Cutting changes neither what encode_frame's checks say nor, once done,    *)
(* the frame.                                                                *)
LEMMA CutAgain ==
  ASSUME Made, IsFrame(sent), NEW i, i = sent \/ i = Cut(enc.rec, sent)
  PROVE  /\ Cut(enc.rec, i) = Cut(enc.rec, sent)
         /\ Accepted(i) <=> Accepted(sent)
<1>1. CASE i = sent
  BY <1>1
<1>2. CASE i = Cut(enc.rec, sent)
  <2>1. Cut(enc.rec, i) = i
    BY <1>2, CutFrame
  <2>2. DOMAIN i = DOMAIN sent /\ \A p \in DOMAIN i : Len(i[p]) = Len(sent[p])
    BY <1>2, CutFrame
  <2>3. \A e : EncodeFails(i, e) <=> EncodeFails(sent, e)
    BY <2>2, SameChecks
  <2> QED BY <1>2, <2>1, <2>3 DEF Accepted
<1> QED BY <1>1, <1>2

LEMMA SendFrameInv ==
  ASSUME Inv, SendFrame
  PROVE  Inv'
<1>1. /\ params' = params /\ params \in Params /\ enc' = enc
      /\ sent' = sent /\ reply \in {"composed", "mapped"}
  BY DEF Inv, SendFrame
<1>2. CASE reply' \in EncodeErrors \cup {"Invalid"}
  BY <1>1, <1>2 DEF Inv, EncodeErrors
<1>3. CASE /\ Fits(video)
           /\ \A e \in EncodeErrors : ~ EncodeFails(Inputs(video), e)
           /\ LET inputs == Inputs(video)
              IN  wire' = Decorrelate(enc.rec, [p \in DOMAIN inputs |-> MaskedSamples(enc.rec, inputs[p])])
           /\ reply' = "Ok"
  <2>1. PICK i : i = Inputs(video)
    OBVIOUS
  <2>2. Accepted(i) /\ wire' = Decorrelate(enc.rec, Cut(enc.rec, i))
    BY <1>3, <2>1 DEF Accepted, Cut
  <2>3. Made /\ IsFrame(sent) /\ (i = sent \/ i = Cut(enc.rec, sent))
    BY <1>1, <1>3, <2>1, InputsAre
  <2>4. Accepted(sent) /\ Cut(enc.rec, i) = Cut(enc.rec, sent)
    BY <2>2, <2>3, CutAgain
  <2>5. PICK s : s = sent
    OBVIOUS
  <2>6. Made' /\ IsFrame(sent)' /\ Accepted(sent)'
    BY <1>1, <2>3, <2>4, <2>5, FrameKept, AcceptedKept DEF Made
  <2>7. wire' = Decorrelate(enc.rec, Cut(enc.rec, sent))'
    BY <1>1, <2>2, <2>4
  <2> QED BY <1>1, <1>3, <2>6, <2>7 DEF Inv
<1> QED BY <1>2, <1>3 DEF SendFrame

LEMMA DecodeInv ==
  ASSUME Inv, Decode
  PROVE  Inv'
<1>1. /\ params' = params /\ params \in Params /\ enc' = enc /\ sent' = sent
      /\ reply' = "decoded" /\ planes' = ReverseDecorrelation(enc.rec, wire)
      /\ Made /\ IsFrame(sent) /\ Accepted(sent)
      /\ wire = Decorrelate(enc.rec, Cut(enc.rec, sent))
  BY DEF Inv, Decode
<1>2. PICK c : c = Cut(enc.rec, sent)
  OBVIOUS
<1>3. /\ IsFrame(c)
      /\ \A p \in DOMAIN c : \A i \in 1 .. Len(c[p]) : c[p][i] \in 0 .. Modulus(enc.rec) - 1
  BY <1>1, <1>2, CutFrame
<1>4. planes' = c
  BY <1>1, <1>2, <1>3, ReverseUndoes
<1>5. planes' = Cut(enc.rec, sent)'
  BY <1>1, <1>2, <1>4
<1>6. PICK s : s = sent
  OBVIOUS
<1>7. Made' /\ IsFrame(sent)' /\ Accepted(sent)'
  BY <1>1, <1>6, FrameKept, AcceptedKept DEF Made
<1> QED BY <1>1, <1>5, <1>7 DEF Inv

LEMMA MapToVideoFrameInv ==
  ASSUME Inv, MapToVideoFrame
  PROVE  Inv'
<1>1. /\ params' = params /\ params \in Params /\ enc' = enc /\ sent' = sent
      /\ planes' = planes /\ reply' = "mapped" /\ video' = VideoOf(enc.rec, planes)
      /\ Made /\ IsFrame(sent) /\ Accepted(sent) /\ planes = Cut(enc.rec, sent)
  BY DEF Inv, MapToVideoFrame
<1>2. video' = VideoOf(enc.rec, planes)'
  BY <1>1 DEF VideoOf, Planar, Packed, Geom
<1>3. planes' = Cut(enc.rec, sent)'
  BY <1>1
<1>4. PICK s : s = sent
  OBVIOUS
<1>5. Made' /\ IsFrame(sent)' /\ Accepted(sent)'
  BY <1>1, <1>4, FrameKept, AcceptedKept DEF Made
<1> QED BY <1>1, <1>2, <1>3, <1>5 DEF Inv

LEMMA StutterInv ==
  ASSUME Inv, UNCHANGED vars
  PROVE  Inv'
<1>1. /\ params' = params /\ enc' = enc /\ sent' = sent /\ video' = video /\ wire' = wire
      /\ planes' = planes /\ reply' = reply
  BY DEF vars
<1>2. PICK s, v : s = sent /\ v = video
  OBVIOUS
<1>3. /\ Made' <=> Made
      /\ IsFrame(sent)' <=> IsFrame(sent)
      /\ Accepted(sent)' <=> Accepted(sent)
      /\ (Fits(video)' <=> Fits(video)) /\ Inputs(video)' = Inputs(video)
  BY <1>1, <1>2, FrameKept, AcceptedKept, VideoKept DEF Made
<1>4. VideoOf(enc.rec, planes)' = VideoOf(enc.rec, planes)
  BY <1>1 DEF VideoOf, Planar, Packed, Geom
<1> QED BY <1>1, <1>3, <1>4 DEF Inv

LEMMA Invariance == Spec => []Inv
<1>1. Inv /\ [Next]_vars => Inv'
  BY MakeEncoderInv, ComposeFrameInv, SendFrameInv, DecodeInv, MapToVideoFrameInv, StutterInv
     DEF Next
<1> QED BY <1>1, InitInv, PTL DEF Spec

------------------------------------------------------------------------------
(* What the caller means by a channel is decoded as that channel, cut to the *)
(* depth: the conversions of registry.rs, the mask and decorrelation of      *)
(* encoder.rs and the reverse of decoder.rs undo each other for every pixel  *)
(* format, size and content, also when the decoder's frame is sent again.    *)
THEOREM ChannelsCorrect == Spec => []ChannelsSurvive
<1>1. Inv => ChannelsSurvive
  BY DEF Inv, ChannelsSurvive, Cut, MaskedSamples
<1> QED BY <1>1, Invariance, PTL

(* A frame map_to_video_frame emitted is one send_frame accepts.             *)
THEOREM ReencodesCorrect == Spec => Reencodes
<1>1. Inv /\ [Next]_vars => [reply = "mapped" => reply' = "Ok"]_vars
  <2> SUFFICES ASSUME Inv, Next, reply = "mapped"
               PROVE  reply' = "Ok"
    BY Zenon
  <2>1. SendFrame
    BY DEF Next, MakeEncoder, ComposeFrame, Decode, MapToVideoFrame
  <2>2. Made /\ IsFrame(sent) /\ Accepted(sent) /\ video = VideoOf(enc.rec, Cut(enc.rec, sent))
    BY DEF Inv
  <2>3. PICK c : c = Cut(enc.rec, sent)
    OBVIOUS
  <2>4. IsFrame(c)
    BY <2>2, <2>3, CutFrame
  <2>5. Fits(video) /\ Inputs(video) = c
    BY <2>2, <2>3, <2>4, VideoTaken
  <2>6. Accepted(c)
    BY <2>2, <2>3, CutAgain
  <2> QED BY <2>1, <2>5, <2>6 DEF SendFrame, Accepted
<1> QED BY <1>1, Invariance, PTL DEF Spec, Reencodes

(* The products of the label: samples, channels and bytes in any order.      *)
LEMMA Products ==
  ASSUME NEW w \in Nat, NEW h \in Nat
  PROVE  /\ w * 1 * 1 = w /\ w * 1 * 2 = w * 2 /\ w * 3 * 1 = w * 3 /\ w * 4 * 1 = w * 4
         /\ (w * h) * 1 = w * h /\ (w * h) * 2 = (w * 2) * h
         /\ (w * h) * 3 = (w * 3) * h /\ (w * h) * 4 = (w * 4) * h
         /\ w * 1 = w
<1>1. w * h \in Nat /\ h * w = w * h
  OBVIOUS
<1>2. (w * 2) * h = 2 * (w * h) /\ (w * 3) * h = 3 * (w * h) /\ (w * 4) * h = 4 * (w * h)
  OBVIOUS
<1>3. \A n \in Nat : n * 1 = n /\ n * 2 = 2 * n /\ n * 3 = 3 * n /\ n * 4 = 4 * n
  OBVIOUS
<1>4. w * 2 \in Nat /\ w * 3 \in Nat /\ w * 4 \in Nat
  OBVIOUS
<1> QED BY ONLY <1>1, <1>2, <1>3, <1>4, w \in Nat

(* The pixel format output_params announces is that of the frames emitted:   *)
(* planes, strides and bytes.                                                *)
THEOREM LabelCorrect == Spec => []LabelTruthful
<1>1. Inv => LabelTruthful
  <2> DEFINE f == PixelFormatFor(enc.rec)
             k == enc.rec.planes
  <2> SUFFICES ASSUME Inv, reply = "mapped", f # NoFormat
               PROVE  /\ Len(video) * f.channels = k
                      /\ \A p \in DOMAIN video :
                           LET chroma == p \in {2, 3} /\ f.channels = 1
                               width  == enc.width \div (IF chroma THEN f.subX ELSE 1)
                               height == enc.height \div (IF chroma THEN f.subY ELSE 1)
                           IN  /\ video[p].stride = width * f.channels * f.bytes
                               /\ Len(video[p].data) = video[p].stride * height
    BY DEF LabelTruthful
  <2>1. Made /\ IsFrame(sent) /\ video = VideoOf(enc.rec, Cut(enc.rec, sent))
    BY DEF Inv
  <2>2. PICK c : c = Cut(enc.rec, sent)
    OBVIOUS
  <2>3. IsFrame(c)
    BY <2>1, <2>2, CutFrame
  <2>4. /\ Tabled(enc.rec) /\ enc.width \in Nat /\ enc.height \in Nat
        /\ enc.width \div 1 = enc.width /\ enc.height \div 1 = enc.height
    BY <2>1, MadeTabled, ByOne
  <2>5. CASE IsRgb(enc.rec) /\ ~ Deep(enc.rec)
    <3>1. f = [channels |-> k, bytes |-> 1, subX |-> 1, subY |-> 1] /\ k \in {3, 4}
      BY <2>4, <2>5 DEF PixelFormatFor, Tabled
    <3>2. /\ video = << video[1] >>
          /\ video[1].stride = enc.width * k
          /\ Len(video[1].data) = enc.width * enc.height * k
      BY <2>1, <2>2, <2>3, <2>5, PackedTaken DEF VideoOf
    <3>3. Len(video) = 1 /\ DOMAIN video = {1}
      BY <3>2
    <3>4. /\ enc.width * k * 1 = enc.width * k
          /\ enc.width * enc.height * k = enc.width * k * enc.height
      BY <2>4, <3>1, Products
    <3>5. 1 * k = k
      BY <3>1
    <3> HIDE DEF f, k
    <3>6. Len(video) * f.channels = k
      BY <3>1, <3>3, <3>5
    <3>7. /\ video[1].stride = enc.width * f.channels * f.bytes
          /\ Len(video[1].data) = video[1].stride * enc.height
      BY <3>1, <3>2, <3>4
    <3> QED BY <2>4, <3>1, <3>3, <3>6, <3>7
  <2>6. CASE ~ (IsRgb(enc.rec) /\ ~ Deep(enc.rec))
    <3> DEFINE b == IF Deep(enc.rec) THEN 2 ELSE 1
    <3>1. /\ f = [channels |-> 1, bytes |-> b, subX |-> enc.rec.subX, subY |-> enc.rec.subY]
          /\ enc.rec.family # "YUVA" \/ IsRgb(enc.rec)
      BY <2>6 DEF PixelFormatFor
    <3>2. PICK v : v = Planar(enc.rec, c)
      OBVIOUS
    <3>3. video = v
      BY <2>1, <2>2, <2>6, <3>2 DEF VideoOf
    <3>4. Len(v) = k /\ DOMAIN v = 1 .. k /\ Fits(v) /\ ~ Interleaved(v) /\ k \in Nat
      <4>1. /\ v \in Seq([stride : Int, data : Seq(Int)])
            /\ Len(v) = k /\ Fits(v) /\ ~ Interleaved(v)
        BY <2>1, <2>3, <3>2, PlanarTaken
      <4>2. DOMAIN v = 1 .. Len(v)
        BY <4>1
      <4> QED BY <2>4, <4>1, <4>2 DEF Tabled
    <3>5. ASSUME NEW p \in 1 .. k
          PROVE  LET chroma == p \in {2, 3} /\ f.channels = 1
                     width  == enc.width \div (IF chroma THEN f.subX ELSE 1)
                     height == enc.height \div (IF chroma THEN f.subY ELSE 1)
                 IN  /\ v[p].stride = width * f.channels * f.bytes
                     /\ Len(v[p].data) = v[p].stride * height
      <4> DEFINE g == Geom(p - 1)
                 chroma == p \in {2, 3} /\ f.channels = 1
                 width  == enc.width \div (IF chroma THEN f.subX ELSE 1)
                 height == enc.height \div (IF chroma THEN f.subY ELSE 1)
      <4>1. Len(v[p].data) = PlanePixelCount(p - 1) * b
        BY <3>4 DEF Fits
      <4>2. v[p].stride = g.width * b
        BY <2>1, <2>3, <3>2, FramePlanes DEF Planar
      <4>3. g.width \in Nat /\ g.height \in Nat /\ PlanePixelCount(p - 1) = g.width * g.height
        BY <2>1, PlaneSizes
      <4>4. g.width = enc.width \div SubX(enc.rec, p - 1)
            /\ g.height = enc.height \div SubY(enc.rec, p - 1)
        BY DEF Geom, PlaneGeom
      <4>5. /\ SubX(enc.rec, p - 1) = IF p \in {2, 3} THEN enc.rec.subX ELSE 1
            /\ SubY(enc.rec, p - 1) = IF p \in {2, 3} THEN enc.rec.subY ELSE 1
        <5>1. p \in {2, 3} <=> p - 1 \in {1, 2}
          BY <3>4
        <5>2. CASE enc.rec.family = "YUV"
          BY <5>1, <5>2 DEF SubX, SubY, Chroma
        <5>3. CASE enc.rec.family # "YUV"
          BY <2>4, <5>3 DEF SubX, SubY, Chroma, Tabled
        <5> QED BY <5>2, <5>3
      <4>6. width = g.width /\ height = g.height
        BY <3>1, <4>4, <4>5
      <4>7. /\ g.width * 1 * b = g.width * b
            /\ (g.width * g.height) * b = (g.width * b) * g.height
        <5>1. CASE b = 1
          BY <4>3, <5>1, Products
        <5>2. CASE b = 2
          BY <4>3, <5>2, Products
        <5> QED BY <5>1, <5>2
      <4> HIDE DEF g, b, f, width, height
      <4>8. v[p].stride = width * f.channels * f.bytes /\ Len(v[p].data) = v[p].stride * height
        BY <3>1, <4>1, <4>2, <4>3, <4>6, <4>7
      <4> QED BY <4>8 DEF width, height
    <3>6. Len(v) * f.channels = k
      BY <3>1, <3>4
    <3> HIDE DEF f
    <3> QED BY <3>3, <3>4, <3>5, <3>6
  <2> QED BY <2>5, <2>6
<1> QED BY <1>1, Invariance, PTL
==============================================================================
