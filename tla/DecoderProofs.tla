------------------------------ MODULE DecoderProofs ------------------------------
(***************************************************************************)
(* Proofs about the decoder, for every set of packets, offsets and         *)
(* descriptors: FrameDecoder, and the BitReader that its slices are read   *)
(* with.  Inv is the inductive invariant of the frame decoder; its parts   *)
(* follow the order of decode_into: the locals that are still empty, the   *)
(* slice map, and the slice ranges.                                        *)
(***************************************************************************)
EXTENDS FrameDecoder, BitReader, Lemmas, FiniteSetTheorems

(* What the header and layout checks leave of a packet's geometry. *)
Shaped(p) ==
  /\ p.width > 0 /\ p.height > 0 /\ p.sliceHeight > 0
  /\ p.width % p.rec.subX = 0
  /\ p.height % p.rec.subY = 0
  /\ p.sliceHeight % p.rec.subY = 0

(* Slices mapped so far; FourccRecords has formats of 1, 3 and 4 planes. *)
Filled ==
  planeFill[0] + (IF pkt.rec.planes > 1 THEN planeFill[1] + planeFill[2] ELSE 0)
               + (IF pkt.rec.planes > 3 THEN planeFill[3] ELSE 0)

Laid == pc = "map" \/ Mapped

LocalsInv ==
  /\ pc \in {"idle", "header", "layout"} => sliceMap = << >>
  /\ pc \in {"idle", "header", "layout", "map"} => tables = << >>
  /\ pc \in {"idle", "header", "layout", "map", "tables"} => ranges = << >>
  /\ pc # "slices" => decoded = 0
  /\ pc # "idle" => result = "none"
  /\ pc = "layout" => pkt.width > 0 /\ pkt.height > 0 /\ pkt.sliceHeight > 0

MapInv ==
  Laid =>
    /\ Shaped(pkt)
    /\ planeFill \in [Planes(pkt.rec) -> 0 .. SlicesPerPlane(pkt)]
    /\ Len(sliceMap) = Filled
    /\ \A i \in 1 .. Len(sliceMap) :
         /\ sliceMap[i].plane \in Planes(pkt.rec)
         /\ sliceMap[i].idx < planeFill[sliceMap[i].plane]
    /\ \A i, j \in 1 .. Len(sliceMap) : sliceMap[i] = sliceMap[j] => i = j
    /\ \A q \in Planes(pkt.rec) : \A k \in 0 .. planeFill[q] - 1 :
         \E i \in 1 .. Len(sliceMap) : sliceMap[i] = [plane |-> q, idx |-> k]
    /\ pc = "map" => Len(sliceMap) < TotalSlices(pkt)
    /\ pc # "map" => Len(sliceMap) = TotalSlices(pkt)

RangesInv ==
  /\ SlicesInPacket
  /\ Laid => descPos <= PreambleLen(pkt)
  /\ pc = "validate" => Len(ranges) < TotalSlices(pkt)
  /\ Checked => Len(ranges) = TotalSlices(pkt)
  /\ pc = "slices" => decoded <= TotalSlices(pkt)
  /\ \A i \in 1 .. Len(ranges) :
       ranges[i].raw => ~ (Payload(ranges[i].start, ranges[i].end)
                             < MinPayload(Pixels(pkt, sliceMap[i]), pkt.rec.depth))

Inv == TypeOK /\ LocalsInv /\ MapInv /\ RangesInv

------------------------------------------------------------------------------
(* What the checks leave. *)

(* A packet that passed both lists of checks has the geometry Shaped names,  *)
(* and room in its preamble for the plane count and the slice map.           *)
LEMMA HeaderChecksShape ==
  ASSUME NEW p \in PacketHeads, Passes(HeaderChecks(p))
  PROVE  p.width > 0 /\ p.height > 0 /\ p.sliceHeight > 0
<1>1. 3 \in DOMAIN HeaderChecks(p)
  BY DEF HeaderChecks
<1>2. ~ HeaderChecks(p)[3].fails
  BY <1>1 DEF Passes
<1>3. 0 \notin {p.width, p.height, p.sliceHeight}
  BY <1>2 DEF HeaderChecks, Check
<1> QED BY <1>3 DEF PacketHeads

LEMMA LayoutChecksShape ==
  ASSUME NEW p \in PacketHeads, Passes(LayoutChecks(p))
  PROVE  /\ p.width % p.rec.subX = 0
         /\ p.height % p.rec.subY = 0
         /\ p.sliceHeight % p.rec.subY = 0
         /\ ~ (PreambleLen(p) < 1 + TotalSlices(p))
<1>1. 1 \in DOMAIN LayoutChecks(p) /\ 2 \in DOMAIN LayoutChecks(p) /\ 3 \in DOMAIN LayoutChecks(p) /\ 7 \in DOMAIN LayoutChecks(p)
  BY DEF LayoutChecks
<1>2. /\ ~ LayoutChecks(p)[1].fails
      /\ ~ LayoutChecks(p)[2].fails
      /\ ~ LayoutChecks(p)[3].fails
      /\ ~ LayoutChecks(p)[7].fails
  BY <1>1 DEF Passes
<1> QED BY <1>2 DEF LayoutChecks, Check

(* The numbers a shaped packet's slices are counted with. *)
LEMMA SliceCounts ==
  ASSUME NEW p \in PacketHeads, Shaped(p)
  PROVE  /\ p.rec.planes \in {1, 3, 4}
         /\ SlicesPerPlane(p) \in Nat
         /\ SlicesPerPlane(p) >= 1
         /\ TotalSlices(p) \in Nat
         /\ TotalSlices(p) >= 1
<1>1. p.rec.planes \in {1, 3, 4}
  BY DEF PacketHeads, FourccRecords
<1>2. SlicesPerPlane(p) \in Nat /\ SlicesPerPlane(p) >= 1
  BY CeilDivNat DEF PacketHeads, Shaped, SlicesPerPlane
<1> QED BY <1>1, <1>2 DEF TotalSlices

------------------------------------------------------------------------------
(* The invariant. *)

(* A packet of the instance is a packet head. *)
LEMMA PacketTyped ==
  ASSUME TypeOK
  PROVE  pkt \in PacketHeads
BY FrameDecoderAssumption DEF TypeOK

LEMMA InitInv == Init => Inv
<1> SUFFICES ASSUME Init PROVE Inv
  OBVIOUS
<1>1. EmptyFrame.header \in FrameHeaders
  BY DEF EmptyFrame, FrameHeaders
<1>2. TypeOK
  BY <1>1, FrameDecoderAssumption DEF Init, TypeOK, EmptyFrame
<1>3. LocalsInv /\ MapInv
  BY DEF Init, LocalsInv, MapInv, Laid, Mapped
<1>4. RangesInv
  BY DEF Init, RangesInv, SlicesInPacket, Laid, Mapped, Checked
<1> QED BY <1>2, <1>3, <1>4 DEF Inv

(* A call that returns, in error or not, keeps the invariant. *)
LEMMA ReturnInv ==
  ASSUME Inv, NEW r \in Errors \cup {"Ok"}, Return(r),
         dst'.call \in 0 .. calls,
         dst'.header \in FrameHeaders
  PROVE  Inv'
<1> USE DEF Return
<1>1. TypeOK'
  BY DEF Inv, TypeOK
<1>2. LocalsInv' /\ MapInv'
  BY DEF LocalsInv, MapInv, Laid, Mapped
<1>3. RangesInv'
  BY DEF RangesInv, SlicesInPacket, Laid, Mapped, Checked
<1> QED BY <1>1, <1>2, <1>3 DEF Inv

LEMMA RejectInv ==
  ASSUME Inv, NEW checks, RejectIf(checks)
  PROVE  Inv'
<1>1. PICK e \in Errors : Reject(e)
  BY DEF RejectIf
<1>2. Return(e) /\ dst' = dst
  BY <1>1 DEF Reject
<1>3. /\ dst'.call \in 0 .. calls
      /\ dst'.header \in FrameHeaders
  BY <1>2 DEF Inv, TypeOK
<1> QED BY <1>2, <1>3, ReturnInv

LEMMA CallInv ==
  ASSUME Inv, NEW p \in Packets, Call(p)
  PROVE  Inv'
<1> USE DEF Call, locals
<1>1. sliceMap = << >> /\ tables = << >> /\ ranges = << >> /\ decoded = 0
  BY DEF Inv, LocalsInv
<1>2. TypeOK'
  BY <1>1, FrameDecoderAssumption DEF Inv, TypeOK
<1>3. LocalsInv' /\ MapInv'
  BY <1>1 DEF LocalsInv, MapInv, Laid, Mapped
<1>4. RangesInv'
  BY <1>1 DEF RangesInv, SlicesInPacket, Laid, Mapped, Checked
<1> QED BY <1>2, <1>3, <1>4 DEF Inv

LEMMA ParseHeaderInv ==
  ASSUME Inv, ParseHeader
  PROVE  Inv'
<1>1. CASE RejectIf(HeaderChecks(pkt))
  BY <1>1, RejectInv
<1>2. CASE ~ RejectIf(HeaderChecks(pkt))
  <2> USE DEF locals
  <2>1. /\ pc = "header" /\ pc' = "layout"
        /\ Passes(HeaderChecks(pkt))
        /\ UNCHANGED <<calls, result, pkt, dst>> /\ UNCHANGED locals
    BY <1>2 DEF ParseHeader
  <2>2. pkt.width > 0 /\ pkt.height > 0 /\ pkt.sliceHeight > 0
    BY <2>1, PacketTyped, HeaderChecksShape DEF Inv
  <2>3. TypeOK'
    BY <2>1 DEF Inv, TypeOK
  <2>4. LocalsInv' /\ MapInv'
    BY <2>1, <2>2 DEF Inv, LocalsInv, MapInv, Laid, Mapped
  <2>5. RangesInv'
    BY <2>1 DEF Inv, LocalsInv, RangesInv, SlicesInPacket, Laid, Mapped, Checked
  <2> QED BY <2>3, <2>4, <2>5 DEF Inv
<1> QED BY <1>1, <1>2

LEMMA ReadLayoutInv ==
  ASSUME Inv, ReadLayout
  PROVE  Inv'
<1>1. CASE RejectIf(LayoutChecks(pkt))
  BY <1>1, RejectInv
<1>2. CASE ~ RejectIf(LayoutChecks(pkt))
  <2>1. /\ pc = "layout" /\ pc' = "map"
        /\ Passes(LayoutChecks(pkt))
        /\ planeFill' = [q \in Planes(pkt.rec) |-> 0]
        /\ descPos' = 1 + TotalSlices(pkt)
        /\ UNCHANGED <<calls, result, pkt, sliceMap, tables, ranges, bufs, decoded, dst>>
    BY <1>2 DEF ReadLayout
  <2>2. sliceMap = << >> /\ tables = << >> /\ ranges = << >> /\ decoded = 0
    BY <2>1 DEF Inv, LocalsInv
  <2>3. pkt \in PacketHeads
    BY PacketTyped DEF Inv
  <2>4. Shaped(pkt) /\ ~ (PreambleLen(pkt) < 1 + TotalSlices(pkt))
    BY <2>1, <2>3, LayoutChecksShape DEF Inv, LocalsInv, Shaped
  <2>5. /\ pkt.rec.planes \in {1, 3, 4}
        /\ SlicesPerPlane(pkt) \in Nat
        /\ TotalSlices(pkt) \in Nat /\ TotalSlices(pkt) >= 1
    BY <2>3, <2>4, SliceCounts
  <2>6. PreambleLen(pkt) \in Int
    BY <2>3, <2>5 DEF PacketHeads, PreambleLen, PreambleEnd, PreambleStart, HeaderSize
  <2>7. TypeOK'
    BY <2>1, <2>2, <2>5 DEF Inv, TypeOK
  <2>8. LocalsInv'
    BY <2>1, <2>2 DEF Inv, LocalsInv
  <2>9. MapInv'
    <3>1. Shaped(pkt)'
      BY <2>1, <2>4 DEF Shaped
    <3>2. planeFill' \in [Planes(pkt.rec)' -> 0 .. SlicesPerPlane(pkt)']
      BY <2>1, <2>5
    <3>3. Filled' = 0
      BY <2>1, <2>5 DEF Filled, Planes
    <3>4. TotalSlices(pkt)' = TotalSlices(pkt)
      BY <2>1
    <3> QED BY <2>1, <2>2, <2>5, <3>1, <3>2, <3>3, <3>4 DEF MapInv, Laid, Mapped
  <2>10. RangesInv'
    BY <2>1, <2>2, <2>4, <2>5, <2>6
       DEF RangesInv, SlicesInPacket, Laid, Mapped, Checked
  <2> QED BY <2>7, <2>8, <2>9, <2>10 DEF Inv
<1> QED BY <1>1, <1>2

(* A plane-index byte that is accepted extends the map by the next slice of  *)
(* its plane.                                                                *)
LEMMA MapSliceInv ==
  ASSUME Inv, NEW b \in Nat, MapSlice(b)
  PROVE  Inv'
<1>1. CASE ~ MapAccepts(b)
  <2>1. Return("BadPlaneIndex") /\ dst' = dst
    BY <1>1 DEF MapSlice, Reject
  <2>2. "BadPlaneIndex" \in Errors
    BY DEF Errors
  <2> QED BY <2>1, <2>2, ReturnInv DEF Inv, TypeOK
<1>2. CASE MapAccepts(b)
  <2>1. /\ pc = "map"
        /\ sliceMap' = Append(sliceMap, [plane |-> b, idx |-> planeFill[b]])
        /\ planeFill' = [planeFill EXCEPT ![b] = @ + 1]
        /\ pc' = IF Len(sliceMap') = TotalSlices(pkt) THEN "tables" ELSE "map"
        /\ UNCHANGED <<calls, result, pkt, tables, descPos, ranges, bufs, decoded, dst>>
    BY <1>2 DEF MapSlice
  <2>2. /\ b \in Planes(pkt.rec)
        /\ planeFill[b] < SlicesPerPlane(pkt)
        /\ tables = << >> /\ ranges = << >> /\ decoded = 0
    BY <1>2, <2>1, PacketTyped DEF MapAccepts, Planes, Inv, LocalsInv, PacketHeads, FourccRecords
  <2>3. /\ Shaped(pkt)
        /\ planeFill \in [Planes(pkt.rec) -> 0 .. SlicesPerPlane(pkt)]
        /\ Len(sliceMap) = Filled
        /\ \A i \in 1 .. Len(sliceMap) :
             /\ sliceMap[i].plane \in Planes(pkt.rec)
             /\ sliceMap[i].idx < planeFill[sliceMap[i].plane]
        /\ \A i, j \in 1 .. Len(sliceMap) : sliceMap[i] = sliceMap[j] => i = j
        /\ \A q \in Planes(pkt.rec) : \A k \in 0 .. planeFill[q] - 1 :
             \E i \in 1 .. Len(sliceMap) : sliceMap[i] = [plane |-> q, idx |-> k]
        /\ Len(sliceMap) < TotalSlices(pkt)
    BY <2>1 DEF Inv, MapInv, Laid
  <2>4. /\ pkt.rec.planes \in {1, 3, 4}
        /\ SlicesPerPlane(pkt) \in Nat
        /\ TotalSlices(pkt) \in Nat
    BY <2>3, PacketTyped, SliceCounts DEF Inv
  <2>5. sliceMap \in Seq([plane : Nat, idx : Nat])
    BY DEF Inv, TypeOK
  <2>6. b \in Nat /\ planeFill[b] \in Nat
    BY <2>2, <2>3, <2>4
  <2>7. /\ sliceMap' \in Seq([plane : Nat, idx : Nat])
        /\ Len(sliceMap') = Len(sliceMap) + 1
        /\ sliceMap'[Len(sliceMap) + 1] = [plane |-> b, idx |-> planeFill[b]]
        /\ \A i \in 1 .. Len(sliceMap) : sliceMap'[i] = sliceMap[i]
        /\ Len(sliceMap) \in Nat
    BY <2>1, <2>5, <2>6
  <2>8. /\ planeFill' \in [Planes(pkt.rec) -> 0 .. SlicesPerPlane(pkt)]
        /\ planeFill'[b] = planeFill[b] + 1
        /\ \A q \in Planes(pkt.rec) \ {b} : planeFill'[q] = planeFill[q]
    BY <2>1, <2>2, <2>3, <2>4, <2>6
  <2>9. TypeOK'
    <3>1. \A i \in DOMAIN sliceMap' :
            /\ sliceMap'[i].plane \in Planes(pkt.rec)
            /\ sliceMap'[i].idx < SlicesPerPlane(pkt)
      <4>1. \A i \in 1 .. Len(sliceMap) :
              /\ sliceMap[i].plane \in Planes(pkt.rec)
              /\ sliceMap[i].idx < SlicesPerPlane(pkt)
        BY <2>5 DEF Inv, TypeOK
      <4> TAKE i \in DOMAIN sliceMap'
      <4>2. i \in 1 .. Len(sliceMap) \/ i = Len(sliceMap) + 1
        BY ONLY <2>7, i \in DOMAIN sliceMap'
      <4>3. CASE i \in 1 .. Len(sliceMap)
        <5>1. sliceMap'[i] = sliceMap[i]
          BY ONLY <2>7, <4>3
        <5> QED BY <4>1, <4>3, <5>1
      <4>4. CASE i = Len(sliceMap) + 1
        <5>1. sliceMap'[i].plane = b /\ sliceMap'[i].idx = planeFill[b]
          BY ONLY <2>7, <4>4
        <5> QED BY <2>2, <5>1
      <4> QED BY <4>2, <4>3, <4>4
    <3> QED BY <2>1, <2>7, <3>1 DEF Inv, TypeOK
  <2>10. LocalsInv'
    BY <2>1, <2>2 DEF Inv, LocalsInv
  <2>11. MapInv'
    <3>1. Filled' = Filled + 1
      <4>1. \A q \in Planes(pkt.rec) : planeFill[q] \in Nat /\ planeFill'[q] \in Nat
        BY <2>3, <2>4, <2>8
      <4>2. CASE pkt.rec.planes = 1
        BY <4>1, <4>2, <2>1, <2>2, <2>8 DEF Filled, Planes
      <4>3. CASE pkt.rec.planes = 3
        <5>1. Planes(pkt.rec) = {0, 1, 2}
          BY <4>3 DEF Planes
        <5>2. CASE b = 0
          BY <4>1, <4>3, <5>1, <5>2, <2>1, <2>8 DEF Filled
        <5>3. CASE b = 1
          BY <4>1, <4>3, <5>1, <5>3, <2>1, <2>8 DEF Filled
        <5>4. CASE b = 2
          BY <4>1, <4>3, <5>1, <5>4, <2>1, <2>8 DEF Filled
        <5> QED BY <5>1, <5>2, <5>3, <5>4, <2>2
      <4>4. CASE pkt.rec.planes = 4
        <5>1. Planes(pkt.rec) = {0, 1, 2, 3}
          BY <4>4 DEF Planes
        <5>2. CASE b = 0
          BY <4>1, <4>4, <5>1, <5>2, <2>1, <2>8 DEF Filled
        <5>3. CASE b = 1
          BY <4>1, <4>4, <5>1, <5>3, <2>1, <2>8 DEF Filled
        <5>4. CASE b = 2
          BY <4>1, <4>4, <5>1, <5>4, <2>1, <2>8 DEF Filled
        <5>5. CASE b = 3
          BY <4>1, <4>4, <5>1, <5>5, <2>1, <2>8 DEF Filled
        <5> QED BY <5>1, <5>2, <5>3, <5>4, <5>5, <2>2
      <4> QED BY <4>2, <4>3, <4>4, <2>4
    <3>2. \A i \in 1 .. Len(sliceMap') :
            /\ sliceMap'[i].plane \in Planes(pkt.rec)
            /\ sliceMap'[i].idx < planeFill'[sliceMap'[i].plane]
      <4> SUFFICES ASSUME NEW i \in 1 .. Len(sliceMap')
                   PROVE  /\ sliceMap'[i].plane \in Planes(pkt.rec)
                          /\ sliceMap'[i].idx < planeFill'[sliceMap'[i].plane]
        OBVIOUS
      <4>1. CASE i = Len(sliceMap) + 1
        BY <4>1, <2>2, <2>6, <2>7, <2>8
      <4>2. CASE i # Len(sliceMap) + 1
        <5>1. i \in 1 .. Len(sliceMap) /\ sliceMap'[i] = sliceMap[i]
          BY <4>2, <2>7
        <5>2. sliceMap[i].idx \in Nat /\ planeFill[sliceMap[i].plane] \in Nat
          <6>1. sliceMap[i] \in [plane : Nat, idx : Nat]
            <7>1. i \in 1 .. Len(sliceMap)
              BY <5>1
            <7> QED BY <7>1, <2>5, ElementOfSeq
          <6>2. sliceMap[i].plane \in Planes(pkt.rec)
            BY <5>1, <2>3
          <6> QED BY <6>1, <6>2, <2>3, <2>4
        <5>3. planeFill'[sliceMap[i].plane] >= planeFill[sliceMap[i].plane]
          BY <5>1, <5>2, <2>3, <2>6, <2>8
        <5>4. planeFill'[sliceMap[i].plane] \in Nat
          BY <5>1, <2>3, <2>4, <2>8
        <5> QED BY <5>1, <5>2, <5>3, <5>4, <2>3
      <4> QED BY <4>1, <4>2
    <3>3. \A i, j \in 1 .. Len(sliceMap') : sliceMap'[i] = sliceMap'[j] => i = j
      <4>1. \A i \in 1 .. Len(sliceMap) : sliceMap[i] # [plane |-> b, idx |-> planeFill[b]]
        BY <2>3, <2>6
      <4> SUFFICES ASSUME NEW i \in 1 .. Len(sliceMap) + 1, NEW j \in 1 .. Len(sliceMap) + 1,
                          sliceMap'[i] = sliceMap'[j], i # j
                   PROVE  FALSE
        BY <2>7
      <4>2. CASE i \in 1 .. Len(sliceMap) /\ j \in 1 .. Len(sliceMap)
        BY <4>2, <2>3, <2>7, Zenon
      <4>3. CASE i = Len(sliceMap) + 1
        <5>1. j \in 1 .. Len(sliceMap)
          BY <4>3, <2>7
        <5> QED BY <5>1, <4>1, <4>3, <2>7, Zenon
      <4>4. CASE j = Len(sliceMap) + 1
        <5>1. i \in 1 .. Len(sliceMap)
          BY <4>4, <2>7
        <5> QED BY <5>1, <4>1, <4>4, <2>7, Zenon
      <4> QED
        <5>1. \A k \in 1 .. Len(sliceMap) + 1 : k \in 1 .. Len(sliceMap) \/ k = Len(sliceMap) + 1
          BY <2>7
        <5> QED BY <5>1, <4>2, <4>3, <4>4
    <3>4. \A q \in Planes(pkt.rec) : \A k \in 0 .. planeFill'[q] - 1 :
            \E i \in 1 .. Len(sliceMap') : sliceMap'[i] = [plane |-> q, idx |-> k]
      <4> SUFFICES ASSUME NEW q \in Planes(pkt.rec), NEW k \in 0 .. planeFill'[q] - 1
                   PROVE  \E i \in 1 .. Len(sliceMap') : sliceMap'[i] = [plane |-> q, idx |-> k]
        OBVIOUS
      <4>1. CASE q = b /\ k = planeFill[b]
        BY <4>1, <2>7
      <4>2. CASE ~ (q = b /\ k = planeFill[b])
        <5>1. k \in 0 .. planeFill[q] - 1
          BY <4>2, <2>3, <2>4, <2>6, <2>8
        <5>2. PICK i \in 1 .. Len(sliceMap) : sliceMap[i] = [plane |-> q, idx |-> k]
          BY <5>1, <2>3
        <5> QED BY <5>2, <2>7
      <4> QED BY <4>1, <4>2
    <3>5. /\ pc' = "map" => Len(sliceMap') < TotalSlices(pkt)
          /\ pc' # "map" => Len(sliceMap') = TotalSlices(pkt)
      BY <2>1, <2>3, <2>4, <2>7
    <3>6. /\ Shaped(pkt)' /\ TotalSlices(pkt)' = TotalSlices(pkt)
          /\ Planes(pkt.rec)' = Planes(pkt.rec)
          /\ SlicesPerPlane(pkt)' = SlicesPerPlane(pkt)
      BY <2>1, <2>3 DEF Shaped
    <3>7. Len(sliceMap') = Filled'
      BY <3>1, <2>3, <2>7
    <3> QED BY <2>8, <3>2, <3>3, <3>4, <3>5, <3>6, <3>7 DEF MapInv
  <2>12. RangesInv'
    <3>1. descPos <= PreambleLen(pkt)
      BY <2>1 DEF Inv, RangesInv, Laid
    <3>2. pc' \in {"map", "tables"}
      BY <2>1
    <3> QED BY <2>1, <2>2, <3>1, <3>2 DEF RangesInv, SlicesInPacket, Checked
  <2> QED BY <2>9, <2>10, <2>11, <2>12 DEF Inv
<1> QED BY <1>1, <1>2

(* The parts of MapInv that a step of a later phase carries over.            *)
LEMMA MapInvKept ==
  ASSUME MapInv, Mapped, Mapped',
         UNCHANGED <<pkt, sliceMap, planeFill>>
  PROVE  MapInv'
BY DEF MapInv, Laid, Mapped, Shaped, Filled

(* A descriptor that is accepted still lies in the preamble. *)
LEMMA BuildTableInv ==
  ASSUME Inv, NEW d \in Descriptors, BuildTable(d)
  PROVE  Inv'
<1>1. CASE RejectIf(DescriptorChecks(d))
  BY <1>1, RejectInv
<1>2. CASE ~ RejectIf(DescriptorChecks(d))
  <2>1. /\ pc = "tables"
        /\ Passes(DescriptorChecks(d))
        /\ tables' = Append(tables, [minLen |-> d.minLen, complete |-> d.complete])
        /\ descPos' = descPos + d.size
        /\ pc' = IF Len(tables') = pkt.rec.planes THEN "validate" ELSE "tables"
        /\ UNCHANGED <<calls, result, pkt, sliceMap, planeFill, ranges, bufs, decoded, dst>>
    BY <1>2 DEF BuildTable
  <2>2. d \in DescriptorRecords
    BY FrameDecoderAssumption
  <2>3. descPos' \in Nat
    BY <2>1, <2>2 DEF Inv, TypeOK, DescriptorRecords
  <2>4. ~ (descPos + d.size > PreambleLen(pkt))
    <3>1. 1 \in DOMAIN DescriptorChecks(d)
      BY DEF DescriptorChecks
    <3>2. ~ DescriptorChecks(d)[1].fails
      BY <2>1, <3>1 DEF Passes
    <3> QED BY <3>2 DEF DescriptorChecks, Check
  <2>5. Mapped /\ Mapped' /\ pc' \in {"tables", "validate"}
    BY <2>1 DEF Mapped
  <2>6. TypeOK'
    <3>1. tables' \in Seq([minLen : Nat, complete : BOOLEAN])
      BY <2>1, <2>2 DEF Inv, TypeOK, DescriptorRecords
    <3> QED BY <2>1, <2>3, <2>5, <3>1 DEF Inv, TypeOK
  <2>7. LocalsInv'
    BY <2>1, <2>5 DEF Inv, LocalsInv
  <2>8. MapInv'
    BY <2>1, <2>5, MapInvKept DEF Inv
  <2>9. RangesInv'
    <3>1. Shaped(pkt)
      BY <2>5 DEF Inv, MapInv, Laid
    <3>2. TotalSlices(pkt) \in Nat /\ TotalSlices(pkt) >= 1 /\ pkt \in PacketHeads
      BY <3>1, SliceCounts, PacketTyped DEF Inv
    <3>3. PreambleLen(pkt) \in Int
      BY <3>2 DEF PacketHeads, PreambleLen, PreambleEnd, PreambleStart, HeaderSize
    <3>4. ranges = << >> /\ ranges' = << >>
      BY <2>1 DEF Inv, LocalsInv
    <3>5. descPos' <= PreambleLen(pkt)
      BY <2>1, <2>3, <2>4, <3>3
    <3>6. PreambleLen(pkt)' = PreambleLen(pkt) /\ TotalSlices(pkt)' = TotalSlices(pkt)
      BY <2>1
    <3> QED BY <2>5, <3>2, <3>4, <3>5, <3>6 DEF RangesInv, SlicesInPacket, Checked
  <2> QED BY <2>6, <2>7, <2>8, <2>9 DEF Inv
<1> QED BY <1>1, <1>2

(* A slice that passes its checks follows the one before it, ends in the     *)
(* packet and, in raw mode, holds its samples.                               *)
LEMMA ValidateSliceInv ==
  ASSUME Inv, NEW e \in Offsets, NEW raw \in BOOLEAN, ValidateSlice(e, raw)
  PROVE  Inv'
<1> DEFINE m == sliceMap[Len(ranges) + 1]
           checks == SliceChecks(m, SliceStart, SliceEnd(e), raw)
<1>1. CASE RejectIf(checks)
  BY <1>1, RejectInv
<1>2. CASE ~ RejectIf(checks)
  <2> DEFINE new == [start |-> SliceStart, end |-> SliceEnd(e), raw |-> raw]
             n == Len(ranges)
  <2>1. /\ pc = "validate"
        /\ Passes(checks)
        /\ ranges' = Append(ranges, new)
        /\ pc' = IF Len(ranges') = TotalSlices(pkt) THEN "take" ELSE "validate"
        /\ UNCHANGED <<calls, result, pkt, sliceMap, planeFill, tables, descPos,
                       bufs, decoded, dst>>
    BY <1>2 DEF ValidateSlice
  <2>2. /\ ranges \in Seq([start : Int, end : Int, raw : BOOLEAN])
        /\ n \in Nat
    BY DEF Inv, TypeOK
  <2>3. Mapped /\ Mapped' /\ Laid /\ pc' \in {"validate", "take"}
    BY <2>1 DEF Mapped, Laid
  <2>4. /\ Shaped(pkt) /\ pkt \in PacketHeads
        /\ TotalSlices(pkt) \in Nat
        /\ n < TotalSlices(pkt)
        /\ descPos \in Nat /\ descPos <= PreambleLen(pkt)
        /\ decoded = 0
    BY <2>1, <2>3, SliceCounts, PacketTyped DEF Inv, MapInv, RangesInv, LocalsInv, TypeOK
  <2>5. /\ PreambleStart(pkt) \in Int /\ PreambleEnd(pkt) \in Int
        /\ PreambleStart(pkt) + descPos <= PreambleEnd(pkt)
        /\ pkt.len \in Nat
    <3>1. pkt.len \in Nat /\ pkt.entry1 \in Nat
      BY <2>4 DEF PacketHeads
    <3> QED BY ONLY <3>1, <2>4 DEF PreambleLen, PreambleEnd, PreambleStart, HeaderSize
  <2>6. /\ SliceEnd(e) \in Int
        /\ n = 0 => SliceStart = PreambleEnd(pkt)
        /\ n > 0 => SliceStart = ranges[n].end
    BY <2>2, <2>5, FrameDecoderAssumption DEF SliceEnd, SliceStart, HeaderSize
  <2>7. \A i \in 1 .. n : ranges[i] \in [start : Int, end : Int, raw : BOOLEAN]
    BY <2>2, ElementOfSeq
  <2>8. SliceStart \in Int
    BY <2>2, <2>5, <2>6, <2>7
  <2>9. /\ ~ (SliceEnd(e) < SliceStart \/ pkt.len < SliceEnd(e))
        /\ ~ (SliceEnd(e) - SliceStart < 2)
        /\ ~ (Payload(SliceStart, SliceEnd(e))
                 < MinPayload(Pixels(pkt, m), ResidualBits(m, raw)))
    <3>1. 1 \in DOMAIN checks /\ 2 \in DOMAIN checks /\ 4 \in DOMAIN checks
      BY DEF SliceChecks
    <3>2. ~ checks[1].fails /\ ~ checks[2].fails /\ ~ checks[4].fails
      BY <2>1, <3>1 DEF Passes
    <3> QED BY <3>2 DEF SliceChecks, Check
  <2>10. /\ \A i \in 1 .. n :
              /\ ranges[i].start >= PreambleStart(pkt) + descPos
              /\ ranges[i].start + 2 <= ranges[i].end
              /\ ranges[i].end <= pkt.len
              /\ \A j \in 1 .. i - 1 : ranges[j].end <= ranges[i].start
         /\ \A i \in 1 .. n :
              ranges[i].raw => ~ (Payload(ranges[i].start, ranges[i].end)
                                    < MinPayload(Pixels(pkt, sliceMap[i]), pkt.rec.depth))
    <3>1. DOMAIN ranges = 1 .. n
      BY <2>2
    <3>2. SlicesInPacket
      BY DEF Inv, RangesInv
    <3>3. \A i \in 1 .. n :
            /\ ranges[i].start >= PreambleStart(pkt) + descPos
            /\ ranges[i].start + 2 <= ranges[i].end
            /\ ranges[i].end <= pkt.len
            /\ \A j \in 1 .. i - 1 : ranges[j].end <= ranges[i].start
      BY ONLY <3>1, <3>2, Zenon DEF SlicesInPacket
    <3>4. \A i \in 1 .. n :
            ranges[i].raw => ~ (Payload(ranges[i].start, ranges[i].end)
                                  < MinPayload(Pixels(pkt, sliceMap[i]), pkt.rec.depth))
      BY Zenon DEF Inv, RangesInv
    <3> QED BY <3>3, <3>4
  <2>11. /\ new \in [start : Int, end : Int, raw : BOOLEAN]
         /\ Len(ranges') = n + 1
         /\ ranges'[n + 1] = new
         /\ \A i \in 1 .. n : ranges'[i] = ranges[i]
    BY <2>1, <2>2, <2>6, <2>8
  <2>12. TypeOK'
    <3>1. ranges' \in Seq([start : Int, end : Int, raw : BOOLEAN])
      BY <2>1, <2>2, <2>11
    <3> QED BY <2>1, <2>3, <3>1 DEF Inv, TypeOK
  <2>13. LocalsInv'
    BY <2>1, <2>3 DEF Inv, LocalsInv
  <2>14. MapInv'
    BY <2>1, <2>3, MapInvKept DEF Inv
  <2>15. new.start >= PreambleStart(pkt) + descPos
    <3>1. CASE n = 0
      BY <3>1, <2>5, <2>6
    <3>2. CASE n > 0
      <4>1. /\ ranges[n].start \in Int /\ ranges[n].end \in Int
            /\ ranges[n].start >= PreambleStart(pkt) + descPos
            /\ ranges[n].start + 2 <= ranges[n].end
        BY <3>2, <2>2, <2>7, <2>10
      <4> QED BY <3>2, <4>1, <2>4, <2>5, <2>6
    <3> QED BY <3>1, <3>2, <2>2
  <2>16. \A j \in 1 .. n : ranges[j].end <= new.start
    <3> SUFFICES ASSUME NEW j \in 1 .. n PROVE ranges[j].end <= SliceStart
      OBVIOUS
    <3>1. n > 0 /\ SliceStart = ranges[n].end
      BY <2>2, <2>6
    <3>2. CASE j = n
      BY <3>1, <3>2, <2>7, <2>8
    <3>3. CASE j # n
      <4>1. ranges[j].end <= ranges[n].start /\ ranges[n].start + 2 <= ranges[n].end
        BY <3>1, <3>3, <2>2, <2>10
      <4>2. ranges[j].end \in Int /\ ranges[n].start \in Int /\ ranges[n].end \in Int
        BY <3>1, <2>2, <2>7
      <4> QED BY <3>1, <4>1, <4>2
    <3> QED BY <3>2, <3>3
  <2>17. SlicesInPacket'
    <3> SUFFICES ASSUME NEW i \in 1 .. n + 1
                 PROVE  /\ ranges'[i].start >= PreambleStart(pkt) + descPos
                        /\ ranges'[i].start + 2 <= ranges'[i].end
                        /\ ranges'[i].end <= pkt.len
                        /\ \A j \in 1 .. i - 1 : ranges'[j].end <= ranges'[i].start
      <4>1. DOMAIN ranges' = 1 .. n + 1
        BY <2>1, <2>2, <2>11
      <4>2. (PreambleStart(pkt) + descPos)' = PreambleStart(pkt) + descPos /\ pkt' = pkt
        BY <2>1
      <4> QED BY <4>1, <4>2 DEF SlicesInPacket
    <3>1. CASE i = n + 1
      <4>1. \A j \in 1 .. i - 1 : ranges'[j].end <= ranges'[i].start
        BY <3>1, <2>2, <2>11, <2>16
      <4>2. new.start + 2 <= new.end /\ new.end <= pkt.len
        BY <2>5, <2>6, <2>8, <2>9
      <4> QED BY <3>1, <4>1, <4>2, <2>11, <2>15
    <3>2. CASE i # n + 1
      <4>1. i \in 1 .. n /\ \A j \in 1 .. i - 1 : j \in 1 .. n
        BY <3>2, <2>2
      <4> QED BY <4>1, <2>10, <2>11
    <3> QED BY <3>1, <3>2
  <2>18. \A i \in 1 .. n + 1 :
           ranges'[i].raw => ~ (Payload(ranges'[i].start, ranges'[i].end)
                                  < MinPayload(Pixels(pkt, sliceMap[i]), pkt.rec.depth))
    <3> SUFFICES ASSUME NEW i \in 1 .. n + 1, ranges'[i].raw
                 PROVE  ~ (Payload(ranges'[i].start, ranges'[i].end)
                             < MinPayload(Pixels(pkt, sliceMap[i]), pkt.rec.depth))
      OBVIOUS
    <3>1. CASE i = n + 1
      <4>1. ranges'[i] = new /\ sliceMap[i] = m
        BY <3>1, <2>11
      <4>2. ranges'[i].start = SliceStart /\ ranges'[i].end = SliceEnd(e) /\ raw
        BY <4>1
      <4>3. ResidualBits(m, raw) = pkt.rec.depth
        BY <4>2 DEF ResidualBits
      <4>4. ~ (Payload(SliceStart, SliceEnd(e)) < MinPayload(Pixels(pkt, m), pkt.rec.depth))
        BY <4>3, <2>9
      <4> QED BY <4>1, <4>2, <4>4
    <3>2. CASE i # n + 1
      <4>1. i \in 1 .. n /\ ranges'[i] = ranges[i]
        BY <3>2, <2>2, <2>11
      <4>2. ranges[i].raw
        BY <4>1
      <4> QED BY <4>1, <4>2, <2>10
    <3> QED BY <3>1, <3>2
  <2>19. RangesInv'
    <3>1. /\ pkt' = pkt /\ sliceMap' = sliceMap /\ descPos' = descPos
          /\ PreambleLen(pkt)' = PreambleLen(pkt) /\ TotalSlices(pkt)' = TotalSlices(pkt)
      BY <2>1
    <3>2. /\ pc' = "validate" => n + 1 < TotalSlices(pkt)
          /\ pc' = "take" => n + 1 = TotalSlices(pkt)
          /\ pc' # "slices"
      BY <2>1, <2>2, <2>4, <2>11
    <3> QED BY <3>1, <3>2, <2>4, <2>11, <2>17, <2>18 DEF RangesInv, Checked, Payload, MinPayload, Pixels, Geom
  <2> QED BY <2>12, <2>13, <2>14, <2>19 DEF Inv
<1> QED BY <1>1, <1>2

(* From here on the ranges and the map only get read. *)
LEMMA RangesInvKept ==
  ASSUME RangesInv, Checked, pc' = "slices", decoded' \in Nat,
         decoded' <= TotalSlices(pkt),
         UNCHANGED <<pkt, sliceMap, descPos, ranges>>
  PROVE  RangesInv'
<1>1. Laid
  BY DEF Checked, Laid, Mapped
<1>2. PreambleLen(pkt)' = PreambleLen(pkt) /\ TotalSlices(pkt)' = TotalSlices(pkt)
  OBVIOUS
<1>3. SlicesInPacket'
  BY DEF RangesInv, SlicesInPacket, PreambleStart, TotalSlices, SlicesPerPlane
<1>4. descPos' <= PreambleLen(pkt)' /\ Len(ranges') = TotalSlices(pkt)'
  BY <1>1, <1>2 DEF RangesInv
<1>5. \A i \in 1 .. Len(ranges') :
        ranges'[i].raw => ~ (Payload(ranges'[i].start, ranges'[i].end)
                               < MinPayload(Pixels(pkt', sliceMap'[i]), pkt'.rec.depth))
  BY DEF RangesInv
<1> QED BY <1>2, <1>3, <1>4, <1>5 DEF RangesInv, Payload, MinPayload, Pixels, Geom

LEMMA TakeBuffersInv ==
  ASSUME Inv, TakeBuffers
  PROVE  Inv'
<1>1. /\ pc = "take" /\ pc' = "slices"
      /\ dst' = [dst EXCEPT !.planes = << >>]
      /\ UNCHANGED <<calls, result, pkt, sliceMap, planeFill, tables, descPos, ranges, decoded>>
  BY DEF TakeBuffers
<1>2. Mapped /\ Mapped' /\ Checked /\ Laid
  BY <1>1 DEF Mapped, Checked, Laid
<1>3. dst'.call = dst.call /\ dst'.header = dst.header
  BY <1>1
<1>4. TypeOK'
  BY <1>1, <1>3 DEF Inv, TypeOK
<1>5. LocalsInv'
  BY <1>1 DEF Inv, LocalsInv
<1>6. MapInv'
  BY <1>1, <1>2, MapInvKept DEF Inv
<1>7. decoded' = 0 /\ TotalSlices(pkt) \in Nat
  BY <1>1, <1>2, SliceCounts, PacketTyped DEF Inv, LocalsInv, MapInv
<1>8. RangesInv'
  BY <1>1, <1>2, <1>7, RangesInvKept DEF Inv
<1> QED BY <1>4, <1>5, <1>6, <1>8 DEF Inv

LEMMA DecodeSliceInv ==
  ASSUME Inv, NEW known \in BOOLEAN, NEW used \in BOOLEAN, DecodeSlice(known, used)
  PROVE  Inv'
<1> DEFINE m == sliceMap[decoded + 1]
           checks == DecodeChecks(m, ranges[decoded + 1], known, used)
<1>1. CASE RejectIf(checks)
  BY <1>1, RejectInv
<1>2. CASE ~ RejectIf(checks)
  <2>1. /\ pc = "slices" /\ pc' = "slices"
        /\ decoded < TotalSlices(pkt)
        /\ decoded' = decoded + 1
        /\ UNCHANGED <<calls, result, pkt, sliceMap, planeFill, tables, descPos, ranges, dst>>
    BY <1>2 DEF DecodeSlice
  <2>2. Mapped /\ Mapped' /\ Checked /\ Laid
    BY <2>1 DEF Mapped, Checked, Laid
  <2>3. decoded' \in Nat
    BY <2>1 DEF Inv, TypeOK
  <2>4. TypeOK'
    BY <2>1, <2>3 DEF Inv, TypeOK
  <2>5. LocalsInv'
    BY <2>1 DEF Inv, LocalsInv
  <2>6. MapInv'
    BY <2>1, <2>2, MapInvKept DEF Inv
  <2>7. TotalSlices(pkt) \in Nat /\ decoded \in Nat
    BY <2>2, SliceCounts, PacketTyped DEF Inv, MapInv, TypeOK
  <2>8. decoded' <= TotalSlices(pkt)
    BY <2>1, <2>7
  <2>9. RangesInv'
    BY <2>1, <2>2, <2>3, <2>8, RangesInvKept DEF Inv
  <2> QED BY <2>4, <2>5, <2>6, <2>9 DEF Inv
<1> QED BY <1>1, <1>2

LEMMA FinishInv ==
  ASSUME Inv, Finish
  PROVE  Inv'
<1>1. dst'.call = calls /\ dst'.header = HeaderOf(pkt) /\ Return("Ok")
  BY DEF Finish
<1>2. HeaderOf(pkt) \in FrameHeaders
  BY PacketTyped DEF HeaderOf, FrameHeaders, PacketHeads, Inv
<1>3. calls \in 0 .. calls
  BY FrameDecoderAssumption DEF Inv, TypeOK
<1> QED BY <1>1, <1>2, <1>3, ReturnInv

LEMMA StutterInv ==
  ASSUME Inv, UNCHANGED vars
  PROVE  Inv'
<1> USE DEF vars
<1>1. TypeOK' /\ LocalsInv'
  BY DEF Inv, TypeOK, LocalsInv
<1>2. MapInv'
  BY DEF Inv, MapInv, Laid, Mapped, Shaped, Filled
<1>3. RangesInv'
  BY DEF Inv, RangesInv, SlicesInPacket, Laid, Mapped, Checked
<1> QED BY <1>1, <1>2, <1>3 DEF Inv

LEMMA NextInv == Inv /\ [Next]_vars => Inv'
<1> SUFFICES ASSUME Inv, [Next]_vars PROVE Inv'
  OBVIOUS
<1>1. ASSUME NEW p \in Packets, Call(p) PROVE Inv'
  BY <1>1, CallInv
<1>2. CASE ParseHeader
  BY <1>2, ParseHeaderInv
<1>3. CASE ReadLayout
  BY <1>3, ReadLayoutInv
<1>4. ASSUME NEW b \in 0 .. pkt.rec.planes, MapSlice(b) PROVE Inv'
  <2>1. b \in Nat
    BY PacketTyped DEF Inv, PacketHeads, FourccRecords
  <2> QED BY <1>4, <2>1, MapSliceInv
<1>5. ASSUME NEW d \in Descriptors, BuildTable(d) PROVE Inv'
  BY <1>5, BuildTableInv
<1>6. ASSUME NEW e \in Offsets, NEW raw \in BOOLEAN, ValidateSlice(e, raw) PROVE Inv'
  BY <1>6, ValidateSliceInv
<1>7. CASE TakeBuffers
  BY <1>7, TakeBuffersInv
<1>8. ASSUME NEW known \in BOOLEAN, NEW used \in BOOLEAN, DecodeSlice(known, used)
      PROVE  Inv'
  BY <1>8, DecodeSliceInv
<1>9. CASE Finish
  BY <1>9, FinishInv
<1>10. CASE Rest \/ UNCHANGED vars
  BY <1>10, StutterInv DEF Rest
<1> QED BY <1>1, <1>2, <1>3, <1>4, <1>5, <1>6, <1>7, <1>8, <1>9, <1>10 DEF Next, Advance

LEMMA SpecInv == Spec => []Inv
BY InitInv, NextInv, PTL DEF Spec

------------------------------------------------------------------------------
(* The theorems. *)

(* Every local of decode_into and the caller's frame keep their types, and   *)
(* the slice map names planes and slices that exist.                         *)
THEOREM TypeCorrect == Spec => []TypeOK
BY SpecInv, PTL DEF Inv

(* Every slice starts after the last descriptor byte, slices are disjoint    *)
(* and in the packet: decoder.rs 505-567, for every slice table.             *)
THEOREM SlicesCorrect == Spec => []SlicesInPacket
<1>1. Inv => SlicesInPacket
  BY DEF Inv, RangesInv
<1> QED BY <1>1, SpecInv, PTL

(* Once all plane indices are read, every plane is filled: the counters sum  *)
(* to planes times quota and none is above its quota.                        *)
LEMMA PlanesFull ==
  ASSUME Inv, Mapped
  PROVE  \A q \in Planes(pkt.rec) : planeFill[q] = SlicesPerPlane(pkt)
<1>1. /\ Shaped(pkt)
      /\ planeFill \in [Planes(pkt.rec) -> 0 .. SlicesPerPlane(pkt)]
      /\ Filled = TotalSlices(pkt)
  BY DEF Inv, MapInv, Laid, Mapped
<1>2. /\ pkt.rec.planes \in {1, 3, 4}
      /\ SlicesPerPlane(pkt) \in Nat
  BY <1>1, PacketTyped, SliceCounts DEF Inv
<1>3. \A q \in Planes(pkt.rec) :
        planeFill[q] \in Nat /\ planeFill[q] <= SlicesPerPlane(pkt)
  BY <1>1, <1>2
<1>4. CASE pkt.rec.planes = 1
  <2>1. Planes(pkt.rec) = {0}
    BY <1>4 DEF Planes
  <2> QED BY <1>1, <1>2, <1>3, <1>4, <2>1 DEF Filled, TotalSlices
<1>5. CASE pkt.rec.planes = 3
  <2>1. Planes(pkt.rec) = {0, 1, 2}
    BY <1>5 DEF Planes
  <2> QED BY <1>1, <1>2, <1>3, <1>5, <2>1 DEF Filled, TotalSlices
<1>6. CASE pkt.rec.planes = 4
  <2>1. Planes(pkt.rec) = {0, 1, 2, 3}
    BY <1>6 DEF Planes
  <2> QED BY <1>1, <1>2, <1>3, <1>6, <2>1 DEF Filled, TotalSlices
<1> QED BY <1>2, <1>4, <1>5, <1>6

(* The slice map is a bijection onto (plane, index) pairs for every legal    *)
(* order of the plane indices.                                               *)
THEOREM MapCorrect == Spec => []MapExact
<1>1. ASSUME Inv PROVE MapExact
  <2> SUFFICES ASSUME Mapped
               PROVE  /\ Len(sliceMap) = TotalSlices(pkt)
                      /\ \A i, j \in DOMAIN sliceMap : sliceMap[i] = sliceMap[j] => i = j
                      /\ \A q \in Planes(pkt.rec), k \in 0 .. SlicesPerPlane(pkt) - 1 :
                           \E i \in DOMAIN sliceMap : sliceMap[i] = [plane |-> q, idx |-> k]
    BY DEF MapExact
  <2>1. /\ DOMAIN sliceMap = 1 .. Len(sliceMap)
        /\ Laid /\ pc # "map"
    BY <1>1 DEF Inv, TypeOK, Laid, Mapped
  <2> QED BY <1>1, <2>1, PlanesFull DEF Inv, MapInv
<1> QED BY <1>1, SpecInv, PTL

------------------------------------------------------------------------------
(* Slices and rows. *)

(* Slice k of a plane exists, as counted on the full-height raster, exactly  *)
(* when it starts above the plane's own last row: subsampling divides height *)
(* and slice height alike.                                                   *)
LEMMA PlaneSlices ==
  ASSUME NEW p \in PacketHeads, Shaped(p), NEW q \in Planes(p.rec), NEW k \in Nat
  PROVE  /\ Geom(p, q).height \in Nat
         /\ Geom(p, q).sliceHeight \in Nat
         /\ Geom(p, q).sliceHeight > 0
         /\ k < SlicesPerPlane(p) <=> k * Geom(p, q).sliceHeight < Geom(p, q).height
<1>1. /\ p.rec \in FourccRecords
      /\ p.width \in Nat \ {0} /\ p.height \in Nat \ {0} /\ p.sliceHeight \in Nat \ {0}
      /\ p.width % p.rec.subX = 0
      /\ p.height % p.rec.subY = 0 /\ p.sliceHeight % p.rec.subY = 0
  BY DEF PacketHeads, Shaped
<1> QED BY <1>1, PlaneShape DEF Geom, SlicesPerPlane

(* With every plane filled the slices tile the rows, whatever their order.   *)
LEMMA MapTiles ==
  ASSUME Inv
  PROVE  RowsTiled
<1> SUFFICES ASSUME Mapped
             PROVE  /\ \A i \in DOMAIN sliceMap :
                         LET g == Geom(pkt, sliceMap[i].plane)
                         IN  RowStart(g, sliceMap[i].idx) < RowEnd(g, sliceMap[i].idx)
                    /\ \A q \in Planes(pkt.rec) : \A r \in 0 .. Geom(pkt, q).height - 1 :
                         \E i \in DOMAIN sliceMap :
                           /\ sliceMap[i].plane = q
                           /\ r \in SliceRows(Geom(pkt, q), sliceMap[i].idx)
                           /\ \A j \in DOMAIN sliceMap \ {i} :
                                ~ (/\ sliceMap[j].plane = q
                                   /\ r \in SliceRows(Geom(pkt, q), sliceMap[j].idx))
  BY DEF RowsTiled
<1>1. /\ DOMAIN sliceMap = 1 .. Len(sliceMap)
      /\ sliceMap \in Seq([plane : Nat, idx : Nat])
      /\ Laid /\ pkt \in PacketHeads
  BY PacketTyped DEF Inv, TypeOK, Laid
<1>2. /\ Shaped(pkt)
      /\ \A i, j \in 1 .. Len(sliceMap) : sliceMap[i] = sliceMap[j] => i = j
      /\ \A q \in Planes(pkt.rec) : \A k \in 0 .. planeFill[q] - 1 :
           \E i \in 1 .. Len(sliceMap) : sliceMap[i] = [plane |-> q, idx |-> k]
  BY <1>1 DEF Inv, MapInv
<1>3. \A i \in 1 .. Len(sliceMap) :
        /\ sliceMap[i] \in [plane : Nat, idx : Nat]
        /\ sliceMap[i].plane \in Planes(pkt.rec)
        /\ sliceMap[i].idx < SlicesPerPlane(pkt)
  BY <1>1, ElementOfSeq DEF Inv, TypeOK
<1>4. ASSUME NEW i \in 1 .. Len(sliceMap)
      PROVE  LET g == Geom(pkt, sliceMap[i].plane)
             IN  RowStart(g, sliceMap[i].idx) < RowEnd(g, sliceMap[i].idx)
  <2> DEFINE q == sliceMap[i].plane
             k == sliceMap[i].idx
             h == Geom(pkt, q).height
             sh == Geom(pkt, q).sliceHeight
  <2>1. q \in Planes(pkt.rec) /\ k \in Nat /\ k < SlicesPerPlane(pkt)
    BY <1>3
  <2> HIDE DEF q, k
  <2>2. h \in Nat /\ sh \in Nat /\ sh > 0 /\ k * sh < h
    BY <2>1, <1>1, <1>2, PlaneSlices
  <2> HIDE DEF h, sh
  <2>3. k * sh < (k + 1) * sh
    BY <2>1, <2>2
  <2>4. k * sh < Lower((k + 1) * sh, h)
    BY <2>2, <2>3 DEF Lower
  <2> QED BY <2>4 DEF RowStart, RowEnd, q, k, h, sh
<1>5. ASSUME NEW q \in Planes(pkt.rec), NEW r \in 0 .. Geom(pkt, q).height - 1
      PROVE  \E i \in 1 .. Len(sliceMap) :
               /\ sliceMap[i].plane = q
               /\ r \in SliceRows(Geom(pkt, q), sliceMap[i].idx)
               /\ \A j \in (1 .. Len(sliceMap)) \ {i} :
                    ~ (/\ sliceMap[j].plane = q
                       /\ r \in SliceRows(Geom(pkt, q), sliceMap[j].idx))
  <2> DEFINE h == Geom(pkt, q).height
             sh == Geom(pkt, q).sliceHeight
             k == r \div sh
  <2>1. h \in Nat /\ sh \in Nat /\ sh > 0
    BY <1>1, <1>2, PlaneSlices
  <2>2. r \in Nat /\ r < h
    BY <2>1
  <2>3. /\ k \in Nat /\ k * sh <= r /\ r < (k + 1) * sh
        /\ \A x \in Nat : x * sh <= r /\ r < (x + 1) * sh => x = k
    BY <2>1, <2>2, RowGroup
  <2> HIDE DEF k
  <2>4. k * sh < h /\ k * sh \in Nat
    BY <2>1, <2>2, <2>3
  <2>5. k < SlicesPerPlane(pkt)
    BY <2>3, <2>4, <1>1, <1>2, PlaneSlices
  <2>6. k \in 0 .. planeFill[q] - 1
    <3>1. planeFill[q] = SlicesPerPlane(pkt)
      BY PlanesFull
    <3>2. SlicesPerPlane(pkt) \in Nat
      BY <1>1, <1>2, SliceCounts
    <3> QED BY <3>1, <3>2, <2>3, <2>5
  <2>7. PICK i \in 1 .. Len(sliceMap) : sliceMap[i] = [plane |-> q, idx |-> k]
    BY <2>6, <1>2
  <2>8. \A x \in Nat : r \in SliceRows(Geom(pkt, q), x) <=> x * sh <= r /\ r < (x + 1) * sh
    <3> SUFFICES ASSUME NEW x \in Nat
                 PROVE  r \in SliceRows(Geom(pkt, q), x) <=> x * sh <= r /\ r < (x + 1) * sh
      OBVIOUS
    <3>1. RowStart(Geom(pkt, q), x) = x * sh /\ RowEnd(Geom(pkt, q), x) = Lower((x + 1) * sh, h)
      BY DEF RowStart, RowEnd
    <3> HIDE DEF h, sh
    <3>2. x * sh \in Nat /\ (x + 1) * sh \in Nat
      BY <2>1
    <3>3. r < Lower((x + 1) * sh, h) <=> r < (x + 1) * sh
      BY <2>1, <2>2, <3>2 DEF Lower
    <3>4. Lower((x + 1) * sh, h) \in Nat
      BY <2>1, <3>2 DEF Lower
    <3> QED BY <3>1, <3>2, <3>3, <3>4, <2>2 DEF SliceRows
  <2>9. r \in SliceRows(Geom(pkt, q), sliceMap[i].idx)
    BY <2>3, <2>7, <2>8
  <2>10. ASSUME NEW j \in (1 .. Len(sliceMap)) \ {i}, sliceMap[j].plane = q,
                r \in SliceRows(Geom(pkt, q), sliceMap[j].idx)
         PROVE  FALSE
    <3>1. sliceMap[j].idx \in Nat
      BY <1>3
    <3>2. sliceMap[j].idx = k
      BY <3>1, <2>3, <2>8, <2>10
    <3>3. sliceMap[j] = [plane |-> q, idx |-> k]
      BY <3>2, <1>3, <2>10
    <3> QED BY <3>3, <2>7, <1>2
  <2> QED BY <2>7, <2>9, <2>10
<1> QED BY <1>1, <1>4, <1>5

(* Every row of every plane is in exactly one slice, and no slice is empty,  *)
(* for every geometry, subsampling and slice order.                          *)
THEOREM RowsCorrect == Spec => []RowsTiled
BY MapTiles, SpecInv, PTL

(* The length re-checks of the decode loop never fire, so a call that has    *)
(* drained dst.planes does not fail for a slice that is too short.           *)
THEOREM NoLateTruncationCorrect == Spec => NoLateTruncation
<1>1. ASSUME Inv, [Next]_vars
      PROVE  [pc = "slices" => result' # "SliceTruncated"]_vars
  <2> SUFFICES ASSUME Next, pc = "slices"
               PROVE  result' # "SliceTruncated"
    BY <1>1
  <2>1. ASSUME NEW known \in BOOLEAN, NEW used \in BOOLEAN, DecodeSlice(known, used)
        PROVE  result' # "SliceTruncated"
    <3> DEFINE n == decoded + 1
               m == sliceMap[n]
               checks == DecodeChecks(m, ranges[n], known, used)
    <3>1. ~ checks[2].fails
      <4>1. n \in 1 .. Len(ranges)
        <5>1. Len(ranges) = TotalSlices(pkt) /\ Shaped(pkt) /\ decoded \in Nat
          BY <1>1 DEF Inv, TypeOK, RangesInv, MapInv, Laid, Mapped, Checked
        <5>2. TotalSlices(pkt) \in Nat
          BY <1>1, <5>1, SliceCounts, PacketTyped DEF Inv
        <5>3. decoded < TotalSlices(pkt)
          BY <2>1 DEF DecodeSlice
        <5> QED BY <5>1, <5>2, <5>3
      <4> HIDE DEF n
      <4>2. ranges[n].raw => ~ (Payload(ranges[n].start, ranges[n].end)
                                  < MinPayload(Pixels(pkt, m), pkt.rec.depth))
        BY <1>1, <4>1 DEF Inv, RangesInv
      <4>3. checks[2].fails = (ranges[n].raw /\ Payload(ranges[n].start, ranges[n].end)
                                  < MinPayload(Pixels(pkt, m), pkt.rec.depth))
        BY DEF DecodeChecks, Check
      <4> QED BY <4>2, <4>3
    <3>2. checks[1].error = "BadPredictorId" /\ checks[3].error = "HuffmanIncomplete"
          /\ DOMAIN checks = {1, 2, 3}
      BY DEF DecodeChecks, Check
    <3> HIDE DEF checks
    <3>3. CASE RejectIf(checks)
      <4>1. PICK e \in Errors : FailsWith(checks, e) /\ Reject(e)
        BY <3>3 DEF RejectIf
      <4>2. e # "SliceTruncated"
        BY <4>1, <3>1, <3>2 DEF FailsWith
      <4> QED BY <4>1, <4>2 DEF Reject, Return
    <3>4. CASE ~ RejectIf(checks)
      <4>1. pc' = pc /\ result' = result
        BY <2>1, <3>4 DEF DecodeSlice, checks
      <4>2. result # "SliceTruncated"
        BY <1>1 DEF Inv, LocalsInv
      <4> QED BY <4>1, <4>2
    <3> QED BY <3>3, <3>4
  <2>2. CASE Finish
    BY <2>2 DEF Finish, Return
  <2>3. ~ (\E p \in Packets : Call(p)) /\ ~ Rest
    BY DEF Call, Rest
  <2>4. ~ ParseHeader /\ ~ ReadLayout /\ ~ TakeBuffers
    BY DEF ParseHeader, ReadLayout, TakeBuffers
  <2>5. /\ ~ \E b \in 0 .. pkt.rec.planes : MapSlice(b)
        /\ ~ \E d \in Descriptors : BuildTable(d)
        /\ ~ \E e \in Offsets, raw \in BOOLEAN : ValidateSlice(e, raw)
    BY DEF MapSlice, BuildTable, ValidateSlice
  <2> QED BY <2>1, <2>2, <2>3, <2>4, <2>5 DEF Next, Advance
<1> QED BY <1>1, SpecInv, PTL DEF Spec, NoLateTruncation

------------------------------------------------------------------------------
(* The memory bound.  The samples of the slices validated so far are         *)
(* counted: each slice adds at most eight per byte of its payload, and the   *)
(* slices of a whole table cover every plane.                                *)
Samples(m) ==
  {m.plane} \X (SliceRows(Geom(pkt, m.plane), m.idx) \X (0 .. Geom(pkt, m.plane).width - 1))

Covered(n) == UNION {Samples(sliceMap[i]) : i \in 1 .. n}

Paid(n) == 8 * (SliceStart - PreambleEnd(pkt) - 2 * n)

Validating == pc \in {"validate", "take", "slices"}

MemInv ==
  /\ pc = "tables" => Len(tables) < pkt.rec.planes
  /\ Validating =>
       /\ Len(tables) = pkt.rec.planes
       /\ SliceStart \in Int
       /\ IsFiniteSet(Covered(Len(ranges)))
       /\ Cardinality(Covered(Len(ranges))) <= Paid(Len(ranges))
  /\ Checked => SliceStart = pkt.len

(* As many samples as validate_slices counts pixels. *)
LEMMA SampleCount ==
  ASSUME pkt \in PacketHeads, Shaped(pkt), NEW m \in [plane : Nat, idx : Nat]
  PROVE  /\ IsFiniteSet(Samples(m))
         /\ Cardinality(Samples(m)) = Pixels(pkt, m)
         /\ Pixels(pkt, m) \in Nat
<1> DEFINE g == Geom(pkt, m.plane)
           rows == SliceRows(g, m.idx)
           cols == 0 .. g.width - 1
<1>1. g.width \in Nat /\ g.height \in Nat /\ g.sliceHeight \in Nat
  <2>1. /\ pkt.width \in Nat /\ pkt.height \in Nat /\ pkt.sliceHeight \in Nat
        /\ pkt.rec.subX \in {1, 2} /\ pkt.rec.subY \in {1, 2}
    BY DEF PacketHeads, FourccRecords
  <2>2. SubX(pkt.rec, m.plane) \in {1, 2} /\ SubY(pkt.rec, m.plane) \in {1, 2}
    BY <2>1 DEF SubX, SubY
  <2>3. \A a \in Nat : a \div 1 \in Nat /\ a \div 2 \in Nat
    OBVIOUS
  <2> QED BY <2>1, <2>2, <2>3 DEF Geom, PlaneGeom
<1> HIDE DEF g
<1>2. RowStart(g, m.idx) \in Int /\ RowEnd(g, m.idx) \in Int
  BY <1>1 DEF RowStart, RowEnd, Lower
<1> DEFINE k == RowEnd(g, m.idx) - RowStart(g, m.idx)
           c == IF k < 0 THEN 0 ELSE k
<1>0. ASSUME NEW a \in Int, NEW b \in Int
      PROVE  IsFiniteSet(a .. b) /\ Cardinality(a .. b) = IF a > b THEN 0 ELSE b - a + 1
  BY FS_Interval
<1>3. IsFiniteSet(rows) /\ Cardinality(rows) = c
  <2> DEFINE a == RowStart(g, m.idx)
             b == RowEnd(g, m.idx) - 1
  <2>1. a \in Int /\ b \in Int /\ k = b - a + 1 /\ rows = a .. b
    BY <1>2 DEF SliceRows
  <2> HIDE DEF a, b, k, rows
  <2>2. IsFiniteSet(a .. b) /\ Cardinality(a .. b) = IF a > b THEN 0 ELSE b - a + 1
    BY <2>1, <1>0
  <2> QED BY <2>1, <2>2
<1>4. IsFiniteSet(cols) /\ Cardinality(cols) = g.width
  <2> DEFINE b == g.width - 1
  <2>1. b \in Int /\ cols = 0 .. b
    BY <1>1
  <2> HIDE DEF b, cols
  <2>2. IsFiniteSet(0 .. b) /\ Cardinality(0 .. b) = IF 0 > b THEN 0 ELSE b - 0 + 1
    BY <2>1, <1>0
  <2> QED BY <1>1, <2>1, <2>2 DEF b
<1> HIDE DEF rows, cols
<1>5. IsFiniteSet(rows \X cols) /\ Cardinality(rows \X cols) = c * g.width
  BY <1>3, <1>4, FS_Product
<1>6. IsFiniteSet({m.plane}) /\ Cardinality({m.plane}) = 1
  BY FS_Singleton
<1>7. c \in Nat /\ c * g.width \in Nat
  BY <1>1, <1>2
<1>8. /\ IsFiniteSet({m.plane} \X (rows \X cols))
      /\ Cardinality({m.plane} \X (rows \X cols)) = 1 * (c * g.width)
  BY <1>5, <1>6, FS_Product
<1>9. Samples(m) = {m.plane} \X (rows \X cols)
  BY DEF Samples, rows, cols, g
<1>10. Pixels(pkt, m) = c * g.width
  BY DEF Pixels, g
<1> QED BY <1>7, <1>8, <1>9, <1>10

(* A payload that is long enough pays for every residual of at least a bit.  *)
LEMMA MinPayloadPays ==
  ASSUME NEW pixels \in Nat, NEW b \in Nat, b # 0, NEW bytes \in Int,
         ~ (bytes < MinPayload(pixels, b))
  PROVE  pixels <= 8 * bytes
<1> DEFINE t == pixels * b
<1>1. t \in Nat /\ pixels <= t
  <2>1. b - 1 \in Nat /\ pixels * (b - 1) \in Nat
    OBVIOUS
  <2>2. t = pixels * (b - 1) + pixels
    OBVIOUS
  <2> QED BY <2>1, <2>2
<1>2. MinPayload(pixels, b) = (t + 8 - 1) \div 8
  BY DEF MinPayload, CeilDiv
<1> HIDE DEF t
<1>3. t <= 8 * ((t + 8 - 1) \div 8)
  BY <1>1
<1> QED BY <1>1, <1>2, <1>3

LEMMA ValidateSliceMem ==
  ASSUME Inv, Inv', MemInv, NEW e \in Offsets, NEW raw \in BOOLEAN, ValidateSlice(e, raw)
  PROVE  MemInv'
<1> PICK n : n = Len(ranges)
  OBVIOUS
<1> PICK m : m = sliceMap[n + 1]
  OBVIOUS
<1> PICK end : end = SliceEnd(e)
  OBVIOUS
<1> DEFINE checks == SliceChecks(m, SliceStart, end, raw)
<1>1. CASE RejectIf(checks)
  BY <1>1 DEF RejectIf, Reject, Return, MemInv, Validating, Checked
<1>2. CASE ~ RejectIf(checks)
  <2>1. /\ pc = "validate"
        /\ Passes(checks)
        /\ ranges' = Append(ranges, [start |-> SliceStart, end |-> end, raw |-> raw])
        /\ pc' = IF Len(ranges') = TotalSlices(pkt) THEN "take" ELSE "validate"
        /\ UNCHANGED <<pkt, sliceMap, tables>>
    BY <1>2 DEF ValidateSlice
  <2>2. /\ pkt \in PacketHeads /\ Shaped(pkt)
        /\ n \in Nat /\ n < TotalSlices(pkt) /\ Len(sliceMap) = TotalSlices(pkt)
        /\ ranges \in Seq([start : Int, end : Int, raw : BOOLEAN])
        /\ sliceMap \in Seq([plane : Nat, idx : Nat])
        /\ tables \in Seq([minLen : Nat, complete : BOOLEAN])
        /\ TotalSlices(pkt) \in Nat
    BY <2>1, PacketTyped, SliceCounts
       DEF Inv, TypeOK, MapInv, RangesInv, Laid, Mapped
  <2>3. /\ Len(tables) = pkt.rec.planes
        /\ SliceStart \in Int
        /\ IsFiniteSet(Covered(n)) /\ Cardinality(Covered(n)) <= Paid(n)
    BY <2>1 DEF MemInv, Validating
  <2>4. /\ m \in [plane : Nat, idx : Nat]
        /\ m.plane \in Planes(pkt.rec)
    <3>1. n + 1 \in 1 .. Len(sliceMap)
      BY <2>2
    <3>2. m \in [plane : Nat, idx : Nat]
      BY <2>2, <3>1, ElementOfSeq
    <3>3. n + 1 \in DOMAIN sliceMap
      BY <2>2, <3>1
    <3> QED BY <3>2, <3>3 DEF Inv, TypeOK
  <2>5. ResidualBits(m, raw) \in Nat
    <3>0. pkt \in PacketHeads
      BY <2>2
    <3>1. pkt.rec.depth \in Nat
      BY ONLY <3>0 DEF PacketHeads, FourccRecords
    <3>2. m.plane + 1 \in 1 .. Len(tables)
      <4>1. pkt.rec.planes \in Nat
        BY ONLY <3>0 DEF PacketHeads, FourccRecords
      <4> QED BY <2>3, <2>4, <4>1 DEF Planes
    <3>3. tables[m.plane + 1] \in [minLen : Nat, complete : BOOLEAN]
      BY <2>2, <3>2, ElementOfSeq
    <3> QED BY <3>1, <3>3 DEF ResidualBits
  <2>6. /\ end \in Int
        /\ n + 1 = TotalSlices(pkt) => end = pkt.len
    BY <2>2, FrameDecoderAssumption DEF SliceEnd, PacketHeads, HeaderSize
  <2>7. /\ ResidualBits(m, raw) # 0
        /\ ~ (Payload(SliceStart, end) < MinPayload(Pixels(pkt, m), ResidualBits(m, raw)))
    <3>1. 3 \in DOMAIN checks /\ 4 \in DOMAIN checks
      BY DEF SliceChecks
    <3>2. ~ checks[3].fails /\ ~ checks[4].fails
      BY <2>1, <3>1 DEF Passes
    <3> QED BY <3>2 DEF SliceChecks, Check
  <2>8. Pixels(pkt, m) \in Nat /\ Pixels(pkt, m) <= 8 * (end - SliceStart - 2)
    <3>1. Pixels(pkt, m) \in Nat
      BY <2>2, <2>4, SampleCount
    <3>2. Payload(SliceStart, end) \in Int
      BY <2>3, <2>6 DEF Payload
    <3> QED BY <2>5, <2>7, <3>1, <3>2, MinPayloadPays DEF Payload
  <2>9. Covered(n)' = Covered(n) /\ Samples(m)' = Samples(m)
    BY <2>1 DEF Covered, Samples, Geom
  <2>10. Covered(n + 1) = Covered(n) \cup Samples(m)
    <3>1. 1 .. n + 1 = 1 .. n \cup {n + 1}
      BY <2>2
    <3> QED BY <3>1 DEF Covered
  <2>11. /\ IsFiniteSet(Covered(n + 1))
         /\ Cardinality(Covered(n + 1)) <= Paid(n) + 8 * (end - SliceStart - 2)
    <3>1. IsFiniteSet(Samples(m)) /\ Cardinality(Samples(m)) = Pixels(pkt, m)
      BY <2>2, <2>4, SampleCount
    <3>2. /\ IsFiniteSet(Covered(n) \cup Samples(m))
          /\ Cardinality(Covered(n) \cup Samples(m))
               = Cardinality(Covered(n)) + Cardinality(Samples(m))
                 - Cardinality(Covered(n) \cap Samples(m))
      BY <2>3, <3>1, FS_Union
    <3>3. IsFiniteSet(Covered(n) \cap Samples(m))
      BY <2>3, FS_Intersection
    <3>4. Cardinality(Covered(n) \cap Samples(m)) \in Nat /\ Cardinality(Covered(n)) \in Nat
      BY <2>3, <3>3, FS_CardinalityType
    <3>5. Paid(n) \in Int
      BY <2>2, <2>3 DEF Paid, PreambleEnd, PacketHeads, HeaderSize
    <3> DEFINE A == Cardinality(Covered(n))
               B == Cardinality(Samples(m))
               C == Cardinality(Covered(n) \cap Samples(m))
               p == Paid(n)
               d == end - SliceStart - 2
    <3>6. /\ A \in Nat /\ B \in Nat /\ C \in Nat /\ p \in Int
          /\ A <= p
          /\ Cardinality(Covered(n + 1)) = A + B - C
      BY <2>3, <2>8, <2>10, <3>1, <3>2, <3>4, <3>5
    <3>9. d \in Int /\ B <= 8 * d
      BY <2>3, <2>6, <2>8, <3>1
    <3>7. IsFiniteSet(Covered(n + 1))
      BY <2>10, <3>2
    <3> HIDE DEF A, B, C, p, d
    <3>8. Cardinality(Covered(n + 1)) <= p + 8 * d
      BY <3>6, <3>9
    <3> QED BY <3>7, <3>8 DEF p, d
  <2>12. Len(ranges') = n + 1 /\ SliceStart' = end
    <3>1. ranges' # << >> /\ Len(ranges') = n + 1 /\ ranges'[n + 1].end = end
      <4>1. [start |-> SliceStart, end |-> end, raw |-> raw]
              \in [start : Int, end : Int, raw : BOOLEAN]
        BY <2>3, <2>6
      <4>2. /\ Len(ranges') = n + 1
            /\ ranges'[n + 1] = [start |-> SliceStart, end |-> end, raw |-> raw]
        BY ONLY <2>1, <2>2, <4>1, n = Len(ranges), SMT
      <4>3. ranges' # << >>
        BY <4>2, <2>2
      <4> QED BY <4>2, <4>3
    <3> QED BY <3>1 DEF SliceStart
  <2>13. Paid(n + 1)' = Paid(n) + 8 * (end - SliceStart - 2)
    <3>1. PreambleEnd(pkt) \in Int /\ PreambleEnd(pkt)' = PreambleEnd(pkt)
      BY <2>1, <2>2 DEF PreambleEnd, PacketHeads, HeaderSize
    <3>2. Paid(n + 1)' = 8 * (end - PreambleEnd(pkt) - 2 * (n + 1))
      BY <2>12, <3>1 DEF Paid
    <3>3. Paid(n) = 8 * (SliceStart - PreambleEnd(pkt) - 2 * n)
      BY DEF Paid
    <3> QED BY ONLY <2>2, <2>3, <2>6, <3>1, <3>2, <3>3
  <2>14. Covered(n + 1)' = Covered(n + 1)
    BY <2>1 DEF Covered, Samples, Geom
  <2> HIDE DEF checks
  <2>15. CASE n + 1 = TotalSlices(pkt)
    BY <2>1, <2>3, <2>6, <2>11, <2>12, <2>13, <2>14, <2>15 DEF MemInv, Validating, Checked
  <2>16. CASE n + 1 # TotalSlices(pkt)
    BY <2>1, <2>3, <2>6, <2>11, <2>12, <2>13, <2>14, <2>16 DEF MemInv, Validating, Checked
  <2> QED BY <2>15, <2>16
<1> QED BY <1>1, <1>2

LEMMA MemNext == Inv /\ Inv' /\ MemInv /\ [Next]_vars => MemInv'
<1> SUFFICES ASSUME Inv, Inv', MemInv, [Next]_vars PROVE MemInv'
  OBVIOUS
<1> USE DEF MemInv, Validating, Checked
<1>1. ASSUME NEW p \in Packets, Call(p) PROVE MemInv'
  BY <1>1 DEF Call
<1>2. CASE ParseHeader
  BY <1>2 DEF ParseHeader, RejectIf, Reject, Return
<1>3. CASE ReadLayout
  BY <1>3 DEF ReadLayout, RejectIf, Reject, Return
<1>4. ASSUME NEW b \in 0 .. pkt.rec.planes, MapSlice(b) PROVE MemInv'
  <2>1. CASE ~ MapAccepts(b)
    BY <1>4, <2>1 DEF MapSlice, Reject, Return
  <2>2. CASE MapAccepts(b)
    <3>1. /\ pc = "map" /\ pc' \in {"map", "tables"} /\ UNCHANGED <<pkt, tables>>
      BY <1>4, <2>2 DEF MapSlice
    <3>2. tables = << >> /\ pkt.rec.planes \in {1, 3, 4}
      BY <3>1, PacketTyped DEF Inv, LocalsInv, PacketHeads, FourccRecords
    <3> QED BY <3>1, <3>2
  <2> QED BY <2>1, <2>2
<1>5. ASSUME NEW d \in Descriptors, BuildTable(d) PROVE MemInv'
  <2>1. CASE RejectIf(DescriptorChecks(d))
    BY <2>1 DEF RejectIf, Reject, Return
  <2>2. CASE ~ RejectIf(DescriptorChecks(d))
    <3>1. /\ pc = "tables"
          /\ tables' = Append(tables, [minLen |-> d.minLen, complete |-> d.complete])
          /\ pc' = IF Len(tables') = pkt.rec.planes THEN "validate" ELSE "tables"
          /\ UNCHANGED <<pkt, sliceMap, ranges>>
      BY <1>5, <2>2 DEF BuildTable
    <3>2. /\ pkt \in PacketHeads /\ ranges = << >>
          /\ Len(tables) \in Nat /\ Len(tables) < pkt.rec.planes
          /\ tables \in Seq([minLen : Nat, complete : BOOLEAN])
      BY <3>1, PacketTyped DEF Inv, TypeOK, LocalsInv
    <3>3. Len(tables') = Len(tables) + 1 /\ pkt.rec.planes \in Nat
      BY <3>1, <3>2 DEF PacketHeads, FourccRecords
    <3>4. Len(ranges') = 0 /\ SliceStart' = PreambleEnd(pkt)
      BY <3>1, <3>2 DEF SliceStart
    <3>5. IsFiniteSet({}) /\ Cardinality({}) = 0
      BY FS_EmptySet
    <3>6. SliceStart' \in Int
      BY <3>2, <3>4 DEF PreambleEnd, PacketHeads, HeaderSize
    <3>7. PreambleEnd(pkt)' = PreambleEnd(pkt)
      BY <3>1
    <3>8. Paid(Len(ranges))' = 0 /\ Covered(Len(ranges))' = {}
      <4>1. Paid(Len(ranges))' = 0
        BY <3>4, <3>6, <3>7 DEF Paid
      <4>2. Covered(Len(ranges))' = {}
        BY <3>4 DEF Covered
      <4> QED BY <4>1, <4>2
    <3>9. /\ IsFiniteSet(Covered(Len(ranges))')
          /\ Cardinality(Covered(Len(ranges))') <= Paid(Len(ranges))'
      BY <3>5, <3>8
    <3> QED BY <3>1, <3>2, <3>3, <3>6, <3>9
  <2> QED BY <2>1, <2>2
<1>6. ASSUME NEW e \in Offsets, NEW raw \in BOOLEAN, ValidateSlice(e, raw)
      PROVE  MemInv'
  BY <1>6, ValidateSliceMem
<1>7. UNCHANGED <<pkt, sliceMap, tables, ranges>>
        => /\ SliceStart' = SliceStart
           /\ Covered(Len(ranges))' = Covered(Len(ranges))
           /\ Paid(Len(ranges))' = Paid(Len(ranges))
  BY DEF SliceStart, Covered, Samples, Geom, Paid
<1>8. CASE TakeBuffers
  BY <1>7, <1>8 DEF TakeBuffers
<1>9. ASSUME NEW known \in BOOLEAN, NEW used \in BOOLEAN, DecodeSlice(known, used)
      PROVE  MemInv'
  <2> DEFINE checks == DecodeChecks(sliceMap[decoded + 1], ranges[decoded + 1], known, used)
  <2>1. CASE RejectIf(checks)
    BY <2>1 DEF RejectIf, Reject, Return
  <2>2. CASE ~ RejectIf(checks)
    <3>1. pc = "slices" /\ UNCHANGED <<pc, pkt, sliceMap, tables, ranges>>
      BY <1>9, <2>2 DEF DecodeSlice
    <3> QED BY <1>7, <3>1
  <2> QED BY <2>1, <2>2
<1>10. CASE Finish
  BY <1>10 DEF Finish, Return
<1>11. CASE Rest \/ UNCHANGED vars
  BY <1>7, <1>11 DEF Rest, vars
<1> QED BY <1>1, <1>2, <1>3, <1>4, <1>5, <1>6, <1>8, <1>9, <1>10, <1>11 DEF Next, Advance

(* The samples of planes 0 .. k - 1 are as many as Raster adds up.           *)
PlaneSamples(q) == {q} \X ((0 .. Geom(pkt, q).height - 1) \X (0 .. Geom(pkt, q).width - 1))

FirstPlanes(k) == UNION {PlaneSamples(q) : q \in 0 .. k - 1}

LEMMA RasterCount ==
  ASSUME pkt \in PacketHeads
  PROVE  /\ IsFiniteSet(FirstPlanes(pkt.rec.planes))
         /\ Cardinality(FirstPlanes(pkt.rec.planes)) = Raster(pkt)
<1> DEFINE f == [i \in 1 .. pkt.rec.planes |-> Geom(pkt, i - 1).width * Geom(pkt, i - 1).height]
           S == {k \in Nat : k <= pkt.rec.planes =>
                   /\ IsFiniteSet(FirstPlanes(k))
                   /\ Cardinality(FirstPlanes(k)) = Sum(f, k)
                   /\ Sum(f, k) \in Nat}
<1>1. 0 \in S
  <2>1. FirstPlanes(0) = {}
    BY DEF FirstPlanes
  <2> QED BY <2>1, FS_EmptySet, SumEquations
<1>2. ASSUME NEW k \in S PROVE k + 1 \in S
  <2> SUFFICES ASSUME k + 1 <= pkt.rec.planes
               PROVE  /\ IsFiniteSet(FirstPlanes(k + 1))
                      /\ Cardinality(FirstPlanes(k + 1)) = Sum(f, k + 1)
                      /\ Sum(f, k + 1) \in Nat
    OBVIOUS
  <2>1. k \in Nat /\ pkt.rec.planes \in Nat
        /\ IsFiniteSet(FirstPlanes(k)) /\ Cardinality(FirstPlanes(k)) = Sum(f, k)
        /\ Sum(f, k) \in Nat
    BY DEF PacketHeads, FourccRecords
  <2> DEFINE w == Geom(pkt, k).width
             h == Geom(pkt, k).height
  <2>2. f[k + 1] = w * h
    BY <2>1
  <2>3. w \in Nat /\ h \in Nat
    <3>1. /\ pkt.width \in Nat /\ pkt.height \in Nat
          /\ pkt.rec.subX \in {1, 2} /\ pkt.rec.subY \in {1, 2}
      BY DEF PacketHeads, FourccRecords
    <3>2. SubX(pkt.rec, k) \in {1, 2} /\ SubY(pkt.rec, k) \in {1, 2}
      BY <3>1 DEF SubX, SubY
    <3>3. \A a \in Nat : a \div 1 \in Nat /\ a \div 2 \in Nat
      OBVIOUS
    <3> QED BY <3>1, <3>2, <3>3 DEF Geom, PlaneGeom
  <2> HIDE DEF f
  <2>4. Sum(f, k + 1) = Sum(f, k) + w * h
    BY <2>1, <2>2, SumEquations
  <2>5. /\ IsFiniteSet(PlaneSamples(k)) /\ Cardinality(PlaneSamples(k)) = w * h
        /\ w * h \in Nat
    <3> HIDE DEF w, h
    <3>1. \A n \in Nat : IsFiniteSet(0 .. n - 1) /\ Cardinality(0 .. n - 1) = n
      <4> SUFFICES ASSUME NEW n \in Nat
                   PROVE  IsFiniteSet(0 .. n - 1) /\ Cardinality(0 .. n - 1) = n
        OBVIOUS
      <4>1. n - 1 \in Int /\ n = IF 0 > n - 1 THEN 0 ELSE (n - 1) - 0 + 1
        OBVIOUS
      <4> QED BY <4>1, FS_Interval
    <3>2. /\ IsFiniteSet((0 .. h - 1) \X (0 .. w - 1))
          /\ Cardinality((0 .. h - 1) \X (0 .. w - 1)) = h * w
      <4>1. /\ IsFiniteSet(0 .. h - 1) /\ Cardinality(0 .. h - 1) = h
            /\ IsFiniteSet(0 .. w - 1) /\ Cardinality(0 .. w - 1) = w
        BY <2>3, <3>1
      <4>2. /\ IsFiniteSet((0 .. h - 1) \X (0 .. w - 1))
            /\ Cardinality((0 .. h - 1) \X (0 .. w - 1))
                 = Cardinality(0 .. h - 1) * Cardinality(0 .. w - 1)
        BY ONLY <4>1, FS_Product, Zenon
      <4> QED BY <4>1, <4>2
    <3>3. IsFiniteSet({k}) /\ Cardinality({k}) = 1
      BY FS_Singleton
    <3>4. /\ IsFiniteSet({k} \X ((0 .. h - 1) \X (0 .. w - 1)))
          /\ Cardinality({k} \X ((0 .. h - 1) \X (0 .. w - 1))) = 1 * (h * w)
      BY <3>2, <3>3, FS_Product
    <3>5. PlaneSamples(k) = {k} \X ((0 .. h - 1) \X (0 .. w - 1))
      BY DEF PlaneSamples, w, h
    <3>6. w * h = 1 * (h * w) /\ w * h \in Nat
      BY <2>3
    <3> QED BY <3>4, <3>5, <3>6
  <2> HIDE DEF w, h
  <2>6. FirstPlanes(k + 1) = FirstPlanes(k) \cup PlaneSamples(k)
    <3>1. 0 .. (k + 1) - 1 = 0 .. k - 1 \cup {k}
      BY <2>1
    <3> QED BY <3>1 DEF FirstPlanes
  <2>7. FirstPlanes(k) \cap PlaneSamples(k) = {}
    <3>1. \A x \in FirstPlanes(k) : x[1] \in 0 .. k - 1
      BY DEF FirstPlanes, PlaneSamples
    <3>2. \A x \in PlaneSamples(k) : x[1] = k
      BY DEF PlaneSamples
    <3>3. k \notin 0 .. k - 1
      BY <2>1
    <3> QED BY <3>1, <3>2, <3>3
  <2>8. /\ IsFiniteSet(FirstPlanes(k + 1))
        /\ Cardinality(FirstPlanes(k + 1)) = Sum(f, k) + w * h - 0
    BY <2>1, <2>5, <2>6, <2>7, FS_Union, FS_EmptySet
  <2> QED BY <2>1, <2>4, <2>5, <2>8
<1>3. S = Nat
  <2> HIDE DEF S
  <2>1. S \in SUBSET Nat
    BY DEF S
  <2> QED BY <1>1, <1>2, <2>1, NatSetInduction
<1>4. pkt.rec.planes \in S /\ pkt.rec.planes <= pkt.rec.planes
  <2> HIDE DEF S
  <2>1. pkt.rec.planes \in Nat
    BY DEF PacketHeads, FourccRecords
  <2> QED BY <1>3, <2>1
<1> QED BY <1>4 DEF Raster

(* No sample of the frame is without a slice that paid for it.               *)
LEMMA RasterCovered ==
  ASSUME Inv, Mapped
  PROVE  FirstPlanes(pkt.rec.planes) \subseteq Covered(TotalSlices(pkt))
<1> SUFFICES ASSUME NEW x \in FirstPlanes(pkt.rec.planes)
             PROVE  x \in Covered(TotalSlices(pkt))
  OBVIOUS
<1>1. PICK q \in 0 .. pkt.rec.planes - 1 : x \in PlaneSamples(q)
  BY DEF FirstPlanes
<1>2. PICK r \in 0 .. Geom(pkt, q).height - 1, c \in 0 .. Geom(pkt, q).width - 1 :
        x = <<q, <<r, c>>>>
  BY <1>1 DEF PlaneSamples
<1>3. PICK i \in DOMAIN sliceMap :
        sliceMap[i].plane = q /\ r \in SliceRows(Geom(pkt, q), sliceMap[i].idx)
  BY MapTiles DEF RowsTiled, Planes
<1>4. DOMAIN sliceMap = 1 .. TotalSlices(pkt)
  BY DEF Inv, TypeOK, MapInv, Laid, Mapped
<1>5. x \in Samples(sliceMap[i])
  BY <1>2, <1>3 DEF Samples
<1> QED BY <1>3, <1>4, <1>5 DEF Covered

LEMMA MemBound == Inv /\ MemInv => MemoryBounded
<1> SUFFICES ASSUME Inv, MemInv, Checked
             PROVE  Raster(pkt) <= 8 * (pkt.len - PreambleEnd(pkt) - 2 * TotalSlices(pkt))
  BY DEF MemoryBounded
<1>1. Mapped /\ Validating /\ Laid
  BY DEF Checked, Mapped, Validating, Laid
<1>2. pkt \in PacketHeads /\ Shaped(pkt) /\ Len(ranges) = TotalSlices(pkt)
  BY <1>1, PacketTyped DEF Inv, MapInv, RangesInv
<1> DEFINE all == Covered(TotalSlices(pkt))
<1>3. /\ IsFiniteSet(all)
      /\ Cardinality(all) <= 8 * (pkt.len - PreambleEnd(pkt) - 2 * TotalSlices(pkt))
  BY <1>1, <1>2 DEF MemInv, Paid
<1>4. FirstPlanes(pkt.rec.planes) \subseteq all
  BY <1>1, RasterCovered
<1>5. Raster(pkt) <= Cardinality(all) /\ Raster(pkt) \in Nat /\ Cardinality(all) \in Nat
  <2> HIDE DEF all
  <2>1. Cardinality(FirstPlanes(pkt.rec.planes)) <= Cardinality(all)
    BY <1>3, <1>4, FS_Subset
  <2>2. Cardinality(FirstPlanes(pkt.rec.planes)) = Raster(pkt)
        /\ IsFiniteSet(FirstPlanes(pkt.rec.planes))
    BY <1>2, RasterCount
  <2> QED BY <1>3, <2>1, <2>2, FS_CardinalityType
<1> HIDE DEF all
<1>6. 8 * (pkt.len - PreambleEnd(pkt) - 2 * TotalSlices(pkt)) \in Int
  <2>1. TotalSlices(pkt) \in Nat
    BY <1>2, SliceCounts
  <2> QED BY <1>2, <2>1 DEF PreambleEnd, PacketHeads, HeaderSize
<1> QED BY <1>3, <1>5, <1>6

(* For every packet, whatever its dimensions, slice heights and offsets: no  *)
(* buffer is sized before the payloads have paid for the raster, at most     *)
(* eight samples for each byte.                                              *)
THEOREM MemoryCorrect == Spec => []MemoryBounded
<1>1. Init => MemInv
  BY DEF Init, MemInv, Validating, Checked
<1>2. Spec => []MemInv
  BY <1>1, SpecInv, MemNext, PTL DEF Spec
<1> QED BY <1>2, SpecInv, MemBound, PTL

------------------------------------------------------------------------------
(* The frame in the caller's hands.  What the refinement of FrameSlot needs  *)
(* beyond Inv: the buffers have the geometry of the packet, and the rows of  *)
(* the slices done so far are written by this call.                          *)
BufsInv ==
  /\ InCall => calls >= 1
  /\ pc = "slices" =>
       /\ DOMAIN bufs = Planes(pkt.rec)
       /\ \A q \in Planes(pkt.rec) : DOMAIN bufs[q] = 0 .. Geom(pkt, q).height - 1
       /\ \A i \in 1 .. decoded :
            \A r \in SliceRows(Geom(pkt, sliceMap[i].plane), sliceMap[i].idx) :
              r \in DOMAIN bufs[sliceMap[i].plane] => bufs[sliceMap[i].plane][r] = calls

LEMMA BufsInit == Init => BufsInv
BY DEF Init, BufsInv, InCall

(* A slice that is decoded overwrites its own rows only, and with this call. *)
LEMMA DecodeSliceBufs ==
  ASSUME Inv, BufsInv, NEW known \in BOOLEAN, NEW used \in BOOLEAN,
         DecodeSlice(known, used)
  PROVE  BufsInv'
<1> DEFINE m == sliceMap[decoded + 1]
           checks == DecodeChecks(m, ranges[decoded + 1], known, used)
<1>1. CASE RejectIf(checks)
  BY <1>1 DEF RejectIf, Reject, Return, BufsInv, InCall
<1>2. CASE ~ RejectIf(checks)
  <2>1. /\ pc = "slices" /\ decoded < TotalSlices(pkt)
        /\ bufs' = [bufs EXCEPT ![m.plane] =
             [r \in DOMAIN @ |-> IF r \in SliceRows(Geom(pkt, m.plane), m.idx)
                                 THEN calls ELSE @[r]]]
        /\ decoded' = decoded + 1
        /\ UNCHANGED <<pc, calls, pkt, sliceMap>>
    BY <1>2 DEF DecodeSlice
  <2>2. decoded \in Nat
    BY DEF Inv, TypeOK
  <2>3. \A q \in Planes(pkt.rec) :
          bufs'[q] = IF q = m.plane
                     THEN [r \in DOMAIN bufs[q] |->
                             IF r \in SliceRows(Geom(pkt, m.plane), m.idx)
                             THEN calls ELSE bufs[q][r]]
                     ELSE bufs[q]
    BY <2>1 DEF BufsInv
  <2>4. /\ DOMAIN bufs' = Planes(pkt.rec)
        /\ \A q \in Planes(pkt.rec) : DOMAIN bufs'[q] = 0 .. Geom(pkt, q).height - 1
    BY <2>1, <2>3 DEF BufsInv
  <2>5. \A i \in 1 .. decoded + 1 : sliceMap[i].plane \in Planes(pkt.rec)
    <3>1. Len(sliceMap) = TotalSlices(pkt) /\ TotalSlices(pkt) \in Nat
      BY <2>1, SliceCounts, PacketTyped DEF Inv, MapInv, Laid, Mapped
    <3>2. DOMAIN sliceMap = 1 .. Len(sliceMap)
      BY DEF Inv, TypeOK
    <3> QED BY <2>1, <2>2, <3>1, <3>2 DEF Inv, TypeOK
  <2>6. ASSUME NEW i \in 1 .. decoded + 1,
               NEW r \in SliceRows(Geom(pkt, sliceMap[i].plane), sliceMap[i].idx),
               r \in DOMAIN bufs'[sliceMap[i].plane]
        PROVE  bufs'[sliceMap[i].plane][r] = calls
    <3> DEFINE q == sliceMap[i].plane
    <3>1. q \in Planes(pkt.rec) /\ DOMAIN bufs'[q] = DOMAIN bufs[q]
      BY <2>4, <2>5, <2>1 DEF BufsInv
    <3>2. CASE i = decoded + 1
      BY <3>1, <3>2, <2>3, <2>6
    <3>3. CASE i # decoded + 1
      <4>1. bufs[q][r] = calls
        BY <3>1, <3>3, <2>1, <2>2, <2>6 DEF BufsInv
      <4> QED BY <4>1, <3>1, <2>3, <2>6
    <3> QED BY <3>2, <3>3
  <2>7. InCall' => calls' >= 1
    BY <2>1 DEF BufsInv, InCall
  <2> QED BY <2>1, <2>4, <2>6, <2>7 DEF BufsInv, Geom
<1> QED BY <1>1, <1>2

LEMMA BufsNext == Inv /\ BufsInv /\ [Next]_vars => BufsInv'
<1> SUFFICES ASSUME Inv, BufsInv, [Next]_vars PROVE BufsInv'
  OBVIOUS
<1> USE DEF BufsInv, InCall
<1>1. ASSUME NEW p \in Packets, Call(p) PROVE BufsInv'
  BY <1>1, FrameDecoderAssumption DEF Call, Inv, TypeOK
<1>2. CASE ParseHeader
  BY <1>2 DEF ParseHeader, RejectIf, Reject, Return
<1>3. CASE ReadLayout
  BY <1>3 DEF ReadLayout, RejectIf, Reject, Return
<1>4. ASSUME NEW b \in 0 .. pkt.rec.planes, MapSlice(b) PROVE BufsInv'
  BY <1>4 DEF MapSlice, Reject, Return
<1>5. ASSUME NEW d \in Descriptors, BuildTable(d) PROVE BufsInv'
  BY <1>5 DEF BuildTable, RejectIf, Reject, Return
<1>6. ASSUME NEW e \in Offsets, NEW raw \in BOOLEAN, ValidateSlice(e, raw)
      PROVE  BufsInv'
  BY <1>6 DEF ValidateSlice, RejectIf, Reject, Return
<1>7. CASE TakeBuffers
  <2>1. decoded' = 0 /\ pc = "take" /\ UNCHANGED <<calls, pkt, sliceMap>>
    BY <1>7 DEF TakeBuffers, Inv, LocalsInv
  <2> QED BY <1>7, <2>1 DEF TakeBuffers, Geom
<1>8. ASSUME NEW known \in BOOLEAN, NEW used \in BOOLEAN, DecodeSlice(known, used)
      PROVE  BufsInv'
  BY <1>8, DecodeSliceBufs
<1>9. CASE Finish
  BY <1>9 DEF Finish, Return
<1>10. CASE Rest \/ UNCHANGED vars
  BY <1>10 DEF Rest, vars, Geom
<1> QED BY <1>1, <1>2, <1>3, <1>4, <1>5, <1>6, <1>7, <1>8, <1>9, <1>10 DEF Next, Advance

(* The planes an output plane is made from exist and have its rows.          *)
LEMMA SourcesFit ==
  ASSUME NEW p \in PacketHeads, NEW q \in Planes(p.rec), NEW s \in Sources(p.rec, q)
  PROVE  s \in Planes(p.rec) /\ Geom(p, s).height = Geom(p, q).height
<1>1. p.rec.planes \in {1, 3, 4}
      /\ (p.rec.family \in {"RGB", "RGBA"} => p.rec.planes >= 3)
  BY DEF PacketHeads, FourccRecords
<1>2. CASE p.rec.family \in {"RGB", "RGBA"}
  <2>1. q \in Int /\ 0 <= q /\ q < p.rec.planes
    BY <1>1 DEF Planes
  <2>2. s = q \/ s \in {0, 1, 2}
    BY <1>2, <2>1 DEF Sources
  <2>3. s \in Planes(p.rec)
    BY <1>1, <1>2, <2>1, <2>2 DEF Planes
  <2>4. ~ Chroma(p.rec, s) /\ ~ Chroma(p.rec, q)
    BY <1>2 DEF Chroma
  <2> QED BY <2>3, <2>4 DEF Geom, PlaneGeom, SubY
<1>3. CASE p.rec.family \notin {"RGB", "RGBA"}
  BY <1>3 DEF Sources
<1> QED BY <1>2, <1>3

(* No plane of this packet holds a sample of an earlier one.                 *)
LEMMA RowsOfThisCall ==
  ASSUME Inv, BufsInv, pc = "slices", decoded = TotalSlices(pkt),
         NEW q \in Planes(pkt.rec), NEW r \in 0 .. Geom(pkt, q).height - 1
  PROVE  bufs[q][r] = calls
<1>1. Mapped /\ Len(sliceMap) = TotalSlices(pkt)
      /\ DOMAIN sliceMap = 1 .. Len(sliceMap)
  BY DEF Inv, TypeOK, MapInv, Laid, Mapped
<1>2. PICK i \in DOMAIN sliceMap :
        sliceMap[i].plane = q /\ r \in SliceRows(Geom(pkt, q), sliceMap[i].idx)
  BY <1>1, MapTiles DEF RowsTiled
<1> QED BY <1>1, <1>2 DEF BufsInv

LEMMA FinishWhole ==
  ASSUME Inv, BufsInv, Finish
  PROVE  dst'.planes # << >> /\ Whole(dst')
<1>1. /\ pc = "slices" /\ decoded = TotalSlices(pkt)
      /\ dst' = [call |-> calls, header |-> HeaderOf(pkt), planes |-> FinalPlanes]
  BY DEF Finish
<1>2. pkt \in PacketHeads /\ Shaped(pkt)
  BY <1>1, PacketTyped DEF Inv, MapInv, Laid, Mapped
<1> DEFINE n == pkt.rec.planes
           P == FinalPlanes
<1>3. n \in {1, 3, 4} /\ \A i \in 1 .. n : i - 1 \in Planes(pkt.rec)
  BY <1>2 DEF PacketHeads, FourccRecords, Planes
<1>4. /\ DOMAIN P = 1 .. n
      /\ \A i \in 1 .. n :
           /\ P[i].width = Geom(pkt, i - 1).width
           /\ P[i].height = Geom(pkt, i - 1).height
           /\ DOMAIN P[i].rows = 0 .. Geom(pkt, i - 1).height - 1
           /\ \A r \in 0 .. Geom(pkt, i - 1).height - 1 :
                P[i].rows[r] = {bufs[q][r] : q \in Sources(pkt.rec, i - 1)}
  BY DEF FinalPlanes
<1> HIDE DEF P
<1>5. ASSUME NEW i \in 1 .. n, NEW r \in 0 .. Geom(pkt, i - 1).height - 1
      PROVE  P[i].rows[r] = {calls}
  <2>1. \A q \in Sources(pkt.rec, i - 1) : bufs[q][r] = calls
    BY <1>1, <1>2, <1>3, SourcesFit, RowsOfThisCall
  <2>2. Sources(pkt.rec, i - 1) # {}
    BY DEF Sources
  <2> QED BY <2>1, <2>2, <1>4
<1>6. ASSUME NEW i \in 1 .. n
      PROVE  /\ Geom(pkt, i - 1).width * SubX(pkt.rec, i - 1) = pkt.width
             /\ Geom(pkt, i - 1).height * SubY(pkt.rec, i - 1) = pkt.height
  <2>1. /\ pkt.width \in Nat /\ pkt.height \in Nat
        /\ pkt.rec.subX \in {1, 2} /\ pkt.rec.subY \in {1, 2}
        /\ pkt.width % pkt.rec.subX = 0 /\ pkt.height % pkt.rec.subY = 0
    BY <1>2 DEF PacketHeads, FourccRecords, Shaped
  <2>2. /\ SubX(pkt.rec, i - 1) \in {1, pkt.rec.subX}
        /\ SubY(pkt.rec, i - 1) \in {1, pkt.rec.subY}
    BY DEF SubX, SubY
  <2>3. \A a \in Nat : /\ (a \div 1) * 1 = a
                       /\ a % 2 = 0 => (a \div 2) * 2 = a
    OBVIOUS
  <2>4. Geom(pkt, i - 1).width * SubX(pkt.rec, i - 1) = pkt.width
    BY <2>1, <2>2, <2>3 DEF Geom, PlaneGeom
  <2>5. Geom(pkt, i - 1).height * SubY(pkt.rec, i - 1) = pkt.height
    BY <2>1, <2>2, <2>3 DEF Geom, PlaneGeom
  <2> QED BY <2>4, <2>5
<1>7. Len(P) = n /\ P # << >>
  BY <1>3, <1>4
<1>8. /\ dst'.call = calls /\ dst'.planes = P /\ dst'.header.rec = pkt.rec
      /\ dst'.header.width = pkt.width /\ dst'.header.height = pkt.height
  BY <1>1 DEF HeaderOf, P
<1>9. \A i \in DOMAIN P :
        /\ P[i].width * SubX(pkt.rec, i - 1) = pkt.width
        /\ P[i].height * SubY(pkt.rec, i - 1) = pkt.height
        /\ DOMAIN P[i].rows = 0 .. P[i].height - 1
        /\ \A r \in DOMAIN P[i].rows : P[i].rows[r] = {calls}
  BY <1>4, <1>5, <1>6
<1> HIDE DEF n
<1> QED BY <1>7, <1>8, <1>9, Zenon DEF Whole, n

(* Every step of decode_into is one of FrameSlot or leaves the slot alone.   *)
LEMMA RejectFails ==
  ASSUME InCall, NEW checks, RejectIf(checks)
  PROVE  Slot!Fail
<1>1. PICK e \in Errors : Reject(e)
  BY DEF RejectIf
<1>2. e \notin {"none", "Ok"}
  BY DEF Errors
<1> QED BY <1>1, <1>2 DEF Reject, Return, InCall, Slot!Fail, Whole

(* A step within a call that leaves dst alone.                               *)
LEMMA LocalStep ==
  ASSUME InCall, InCall', UNCHANGED <<calls, dst>>
  PROVE  UNCHANGED Slot!slotVars
BY DEF Slot!slotVars, Whole

LEMMA SlotStep ==
  ASSUME Inv, BufsInv, [Next]_vars
  PROVE  Slot!Next \/ UNCHANGED Slot!slotVars
<1> USE DEF Slot!Next
<1>1. ASSUME NEW p \in Packets, Call(p) PROVE Slot!Begin
  BY <1>1 DEF Call, InCall, Slot!Begin, Whole
<1>2. CASE ParseHeader
  <2>1. InCall
    BY <1>2 DEF ParseHeader, InCall
  <2>2. RejectIf(HeaderChecks(pkt)) \/ (InCall' /\ UNCHANGED <<calls, dst>>)
    BY <1>2 DEF ParseHeader, InCall
  <2> QED BY <2>1, <2>2, RejectFails, LocalStep
<1>3. CASE ReadLayout
  <2>1. InCall
    BY <1>3 DEF ReadLayout, InCall
  <2>2. RejectIf(LayoutChecks(pkt)) \/ (InCall' /\ UNCHANGED <<calls, dst>>)
    BY <1>3 DEF ReadLayout, InCall
  <2> QED BY <2>1, <2>2, RejectFails, LocalStep
<1>4. ASSUME NEW b \in 0 .. pkt.rec.planes, MapSlice(b)
      PROVE  Slot!Next \/ UNCHANGED Slot!slotVars
  <2>1. InCall
    BY <1>4 DEF MapSlice, InCall
  <2>2. CASE MapAccepts(b)
    BY <1>4, <2>1, <2>2, LocalStep DEF MapSlice, InCall
  <2>3. CASE ~ MapAccepts(b)
    BY <1>4, <2>1, <2>3 DEF MapSlice, Reject, Return, InCall, Slot!Fail, Whole
  <2> QED BY <2>2, <2>3
<1>5. ASSUME NEW d \in Descriptors, BuildTable(d)
      PROVE  Slot!Next \/ UNCHANGED Slot!slotVars
  <2>1. InCall
    BY <1>5 DEF BuildTable, InCall
  <2>2. RejectIf(DescriptorChecks(d)) \/ (InCall' /\ UNCHANGED <<calls, dst>>)
    BY <1>5 DEF BuildTable, InCall
  <2> QED BY <2>1, <2>2, RejectFails, LocalStep
<1>6. ASSUME NEW e \in Offsets, NEW raw \in BOOLEAN, ValidateSlice(e, raw)
      PROVE  Slot!Next \/ UNCHANGED Slot!slotVars
  <2> DEFINE checks == SliceChecks(sliceMap[Len(ranges) + 1], SliceStart, SliceEnd(e), raw)
  <2>1. InCall
    BY <1>6 DEF ValidateSlice, InCall
  <2>2. RejectIf(checks) \/ (InCall' /\ UNCHANGED <<calls, dst>>)
    BY <1>6 DEF ValidateSlice, InCall
  <2> QED BY <2>1, <2>2, RejectFails, LocalStep
<1>7. CASE TakeBuffers
  <2>1. dst'.planes = << >> /\ dst'.call = dst.call /\ dst'.header = dst.header
    <3>1. dst' = [dst EXCEPT !.planes = << >>]
      BY <1>7 DEF TakeBuffers
    <3> QED BY <3>1
  <2> QED BY <1>7, <2>1 DEF TakeBuffers, InCall, Slot!Drain
<1>8. ASSUME NEW known \in BOOLEAN, NEW used \in BOOLEAN, DecodeSlice(known, used)
      PROVE  Slot!Next \/ UNCHANGED Slot!slotVars
  <2> DEFINE checks == DecodeChecks(sliceMap[decoded + 1], ranges[decoded + 1], known, used)
  <2>1. InCall
    BY <1>8 DEF DecodeSlice, InCall
  <2>2. RejectIf(checks) \/ (InCall' /\ UNCHANGED <<calls, dst>>)
    BY <1>8 DEF DecodeSlice, InCall
  <2> QED BY <2>1, <2>2, RejectFails, LocalStep
<1>9. CASE Finish
  <2>1. /\ pc = "slices" /\ pc' = "idle" /\ result' = "Ok" /\ UNCHANGED calls
        /\ dst'.call = calls /\ dst'.header = HeaderOf(pkt)
    BY <1>9 DEF Finish, Return
  <2>2. dst'.planes # << >> /\ Whole(dst')
    BY <1>9, FinishWhole
  <2>3. calls # 0 /\ pkt \in Packets
    BY <2>1, FrameDecoderAssumption DEF BufsInv, InCall, Inv, TypeOK
  <2>4. InCall /\ ~ InCall'
    BY <2>1 DEF InCall
  <2> QED BY <2>1, <2>2, <2>3, <2>4 DEF Slot!Succeed
<1>10. CASE Rest \/ UNCHANGED vars
  BY <1>10 DEF Rest, vars, Slot!slotVars, InCall, Whole
<1> QED BY <1>1, <1>2, <1>3, <1>4, <1>5, <1>6, <1>7, <1>8, <1>9, <1>10 DEF Next, Advance

(* For every series of calls the caller's frame is whole and of one call, or *)
(* has no planes: decode_into implements FrameSlot.                          *)
THEOREM SlotCorrect == Spec => SlotSpec
<1>1. Init => Slot!Init
  BY DEF Init, InCall, EmptyFrame, Slot!Init
<1>2. Inv /\ BufsInv /\ [Next]_vars => [Slot!Next]_(Slot!slotVars)
  BY SlotStep
<1>3. Spec => []BufsInv
  BY SpecInv, BufsInit, BufsNext, PTL DEF Spec
<1> QED BY <1>1, <1>2, <1>3, SpecInv, PTL DEF Spec, SlotSpec, Slot!Spec

------------------------------------------------------------------------------
(* BitReader.  For slices of every length, every table width and every       *)
(* sequence of code lengths: the window stays faithful, and the reader       *)
(* implements the abstract cursor of BitStream.                              *)

(* The inductive invariant is the conjunction of the three that the runs     *)
(* check: the type invariant needs the fill count of Buffered, the window    *)
(* needs the types.                                                          *)
ReaderInv == ReaderTypeOK /\ WindowFaithful /\ Buffered

(* refill keeps the window on the same cursor and leaves more than 56 valid  *)
(* bits in it.                                                               *)
LEMMA RefillFaithful ==
  ASSUME NEW n \in Nat, NEW c \in Nat, NEW w, Faithful(n, c, w)
  PROVE  /\ Faithful(n, c, Refill(n, w))
         /\ Refill(n, w).fill > 56
<1>1. w.fill \in 0 .. AccBits /\ w.pos \in Nat
  BY DEF Faithful, Windows
<1>2. /\ Room(w.fill) \in Nat
      /\ w.fill + 8 * Room(w.fill) <= AccBits
      /\ AccBits - 8 < w.fill + 8 * Room(w.fill)
  BY <1>1, RoomProperties
<1>3. Faithful(n, c, SlowRefill(n, w)) /\ SlowRefill(n, w).fill > 56
  <2>1. w.fill + 8 * Room(w.fill) \in Int
    BY <1>1, <1>2 DEF AccBits
  <2>2. Faithful(n, c, [acc  |-> Load(n, w.acc, w.pos, w.fill, w.fill + 8 * Room(w.fill)),
                        fill |-> w.fill + 8 * Room(w.fill),
                        pos  |-> Least(n, w.pos + Room(w.fill))])
    BY <1>1, <1>2, <2>1, MergeFaithful DEF AccBits
  <2>3. QED
    BY <1>2, <2>2 DEF SlowRefill, AccBits
<1>4. ASSUME w.pos + 8 <= n
      PROVE  Faithful(n, c, FastRefill(n, w)) /\ FastRefill(n, w).fill > 56
  <2>1. AccBits \in Int
    BY DEF AccBits
  <2>2. Faithful(n, c, [acc  |-> Load(n, w.acc, w.pos, w.fill, AccBits),
                        fill |-> w.fill + 8 * Room(w.fill),
                        pos  |-> Least(n, w.pos + Room(w.fill))])
    BY <1>1, <1>2, <2>1, MergeFaithful
  <2>3. Room(w.fill) <= 8
    BY <1>1, RoomProperties
  <2>4. Least(n, w.pos + Room(w.fill)) = w.pos + Room(w.fill)
    BY <1>1, <1>2, <1>4, <2>3 DEF Least
  <2>5. QED
    BY <1>2, <2>2, <2>4 DEF FastRefill, AccBits
<1>5. QED
  BY <1>3, <1>4 DEF Refill

(* consume moves the window on by the bits consumed.                         *)
LEMMA ConsumeFaithful ==
  ASSUME NEW n \in Nat, NEW c \in Nat, NEW w, Faithful(n, c, w),
         NEW k \in Nat, k <= w.fill
  PROVE  /\ Faithful(n, c + k, Consume(n, w, k))
         /\ Consume(n, w, k).fill > 56
<1> DEFINE v == [acc |-> Shl(w.acc, k), fill |-> SatSub(w.fill, k), pos |-> w.pos]
<1>1. Faithful(n, c + k, v)
  BY ShiftFaithful
<1>2. c + k \in Nat
  OBVIOUS
<1>3. QED
  BY <1>1, <1>2, RefillFaithful DEF Consume

(* The empty window is faithful: nothing loaded, nothing delivered.          *)
LEMMA BlankFaithful ==
  ASSUME NEW n \in Nat
  PROVE  Faithful(n, 0, [acc |-> Blank, fill |-> 0, pos |-> 0])
<1>1. Blank \in [Slots -> Int]
  BY DEF Blank, Zero
<1>2. \A i \in Slots : i >= 0 /\ Blank[i] = Zero
  BY DEF Blank, Slots
<1>3. QED
  BY <1>1, <1>2 DEF Faithful, Windows, AccBits

LEMMA ReaderInitInv == ReaderInit => ReaderInv
<1>1. SUFFICES ASSUME ReaderInit PROVE ReaderInv
  OBVIOUS
<1>2. len \in Nat
  BY <1>1, BitReaderAssumption DEF ReaderInit
<1>3. Faithful(len, 0, win) /\ win.fill > 56
  <2>1. Faithful(len, 0, [acc |-> Blank, fill |-> 0, pos |-> 0])
    BY <1>2, BlankFaithful
  <2>2. QED
    BY <1>1, <1>2, <2>1, RefillFaithful DEF ReaderInit
<1>4. 0 \in 0 .. 8 * len + Beyond
  BY <1>2, BitReaderAssumption
<1>5. QED
  BY <1>1, <1>3, <1>4 DEF ReaderInit, ReaderInv, ReaderTypeOK, WindowFaithful, Buffered, Faithful

(* A per-symbol lookup delivers the next p bits and keeps the invariant.     *)
LEMMA LookupCorrect ==
  ASSUME ReaderInv, use = "symbol", NEW p \in Peeks, NEW l \in CodeLens \cap (0 .. p),
         Lookup(p, l)
  PROVE  ReaderInv' /\ Stream!Take(p, l)
<1>1. /\ len \in DataLens
      /\ len \in Nat
      /\ taken \in Nat
      /\ Faithful(len, taken, win)
      /\ win.fill \in 0 .. AccBits
      /\ win.fill > 56
  BY BitReaderAssumption DEF ReaderInv, ReaderTypeOK, WindowFaithful, Buffered, Windows
<1>2. /\ p \in 1 .. 32
      /\ l \in 0 .. p
      /\ Beyond \in Nat
  BY BitReaderAssumption
<1>3. Top(win.acc, p) = [i \in 0 .. p - 1 |-> StreamBit(len, taken + i)]
  <2>1. p \in 0 .. AccBits /\ p <= win.fill
    BY <1>1, <1>2 DEF AccBits
  <2>2. QED
    BY <1>1, <2>1, PeekDelivers
<1>4. Faithful(len, taken + l, win') /\ win'.fill > 56
  <2>1. l \in Nat /\ l <= win.fill
    BY <1>1, <1>2 DEF AccBits
  <2>2. QED
    BY <1>1, <2>1, ConsumeFaithful DEF Lookup
<1>5. ReaderTypeOK'
  <2>1. taken' \in 0 .. 8 * len + Beyond
    BY <1>1, <1>2 DEF Lookup
  <2>2. QED
    BY <1>4, <2>1 DEF ReaderInv, ReaderTypeOK, Lookup, Faithful
<1>6. WindowFaithful' /\ Buffered'
  BY <1>4 DEF WindowFaithful, Buffered, Lookup
<1>7. Stream!Take(p, l)
  BY <1>3 DEF Lookup, Stream!Take, StreamBit, Stream!StreamBit, Zero, Stream!Zero
<1>8. QED
  BY <1>5, <1>6, <1>7 DEF ReaderInv

(* A round of the batch loop delivers the next primary_bits bits and keeps   *)
(* the invariant; in particular its plain subtraction stays at 0 or above.   *)
LEMMA BatchSymbolCorrect ==
  ASSUME ReaderInv, use = "batch", NEW l \in CodeLens \cap (0 .. tableBits), BatchSymbol(l)
  PROVE  ReaderInv' /\ Stream!Take(tableBits, l)
<1> DEFINE w == IF win.fill < tableBits THEN Refill(len, win) ELSE win
<1>1. /\ len \in DataLens
      /\ len \in Nat
      /\ taken \in Nat
      /\ Faithful(len, taken, win)
      /\ win.fill \in 0 .. AccBits
  BY BitReaderAssumption DEF ReaderInv, ReaderTypeOK, WindowFaithful, Windows
<1>2. /\ tableBits \in TableBits
      /\ tableBits \in 1 .. 12
      /\ l \in 0 .. tableBits
      /\ Beyond \in Nat
  BY BitReaderAssumption DEF ReaderInv, ReaderTypeOK
<1>3. /\ Faithful(len, taken, w)
      /\ w.fill \in 0 .. AccBits
      /\ tableBits <= w.fill
  <2>1. CASE win.fill < tableBits
    <3>1. Faithful(len, taken, w) /\ w.fill > 56
      BY <1>1, <2>1, RefillFaithful
    <3>2. w.fill \in 0 .. AccBits
      BY <3>1 DEF Faithful, Windows
    <3>3. QED
      BY <1>2, <3>1, <3>2 DEF AccBits
  <2>2. CASE ~ (win.fill < tableBits)
    BY <1>1, <1>2, <2>2 DEF AccBits
  <2>3. QED
    BY <2>1, <2>2
<1> HIDE DEF w
<1>4. Top(w.acc, tableBits) = [i \in 0 .. tableBits - 1 |-> StreamBit(len, taken + i)]
  <2>1. tableBits \in 0 .. AccBits
    BY <1>2 DEF AccBits
  <2>2. QED
    BY <1>1, <1>3, <2>1, PeekDelivers
<1>5. Faithful(len, taken + l, win')
  <2>1. l \in Nat /\ l <= w.fill /\ w.fill - l = SatSub(w.fill, l)
    BY <1>2, <1>3 DEF SatSub, AccBits
  <2>2. Faithful(len, taken + l,
                 [acc |-> Shl(w.acc, l), fill |-> w.fill - l, pos |-> w.pos])
    BY <1>1, <1>3, <2>1, ShiftFaithful
  <2>3. QED
    BY <2>2 DEF BatchSymbol, w
<1>6. ReaderTypeOK'
  <2>1. taken' \in 0 .. 8 * len + Beyond
    BY <1>1, <1>2 DEF BatchSymbol
  <2>2. QED
    BY <1>5, <2>1 DEF ReaderInv, ReaderTypeOK, BatchSymbol, Faithful
<1>7. WindowFaithful' /\ Buffered'
  BY <1>5 DEF WindowFaithful, Buffered, BatchSymbol
<1>8. Stream!Take(tableBits, l)
  BY <1>4 DEF BatchSymbol, w, Stream!Take, StreamBit, Stream!StreamBit, Zero, Stream!Zero
<1>9. QED
  BY <1>6, <1>7, <1>8 DEF ReaderInv

(* Every step of the reader keeps the invariant and is a step of the         *)
(* abstract cursor.                                                          *)
LEMMA StepCorrect == ReaderInv /\ [ReaderNext]_readerVars => ReaderInv' /\ [Stream!Next]_Stream!streamVars
<1>1. SUFFICES ASSUME ReaderInv, [ReaderNext]_readerVars
               PROVE  ReaderInv' /\ [Stream!Next]_Stream!streamVars
  OBVIOUS
<1>2. CASE use = "symbol" /\ SymbolStep
  <2>1. PICK p \in Peeks : \E l \in CodeLens \cap (0 .. p) : Lookup(p, l)
    BY <1>2 DEF SymbolStep
  <2>2. PICK l \in CodeLens \cap (0 .. p) : Lookup(p, l)
    BY <2>1
  <2>3. ReaderInv' /\ Stream!Take(p, l)
    BY <1>1, <1>2, <2>2, LookupCorrect
  <2>4. QED
    BY <2>3 DEF Stream!Next
<1>3. CASE use = "batch" /\ BatchStep
  <2>1. PICK l \in CodeLens \cap (0 .. tableBits) : BatchSymbol(l)
    BY <1>3 DEF BatchStep
  <2>2. ReaderInv' /\ Stream!Take(tableBits, l)
    BY <1>1, <1>3, <2>1, BatchSymbolCorrect
  <2>3. tableBits \in TableBits
    BY <1>1 DEF ReaderInv, ReaderTypeOK
  <2>4. QED
    BY <2>2, <2>3 DEF Stream!Next
<1>4. CASE UNCHANGED readerVars
  BY <1>1, <1>4 DEF readerVars, ReaderInv, ReaderTypeOK, WindowFaithful, Buffered, Stream!streamVars
<1>5. QED
  BY <1>1, <1>2, <1>3, <1>4 DEF ReaderNext

(* BitReader's fields stay in range, and `fill -= len` never underflows.     *)
THEOREM ReaderTypeCorrect == ReaderSpec => []ReaderTypeOK
<1>1. ReaderInv => ReaderTypeOK
  BY DEF ReaderInv
<1>2. QED
  BY <1>1, ReaderInitInv, StepCorrect, PTL DEF ReaderSpec

(* The window is faithful in every reachable state.                          *)
THEOREM ReaderWindowCorrect == ReaderSpec => []WindowFaithful
<1>1. ReaderInv => WindowFaithful
  BY DEF ReaderInv
<1>2. QED
  BY <1>1, ReaderInitInv, StepCorrect, PTL DEF ReaderSpec

(* A per-symbol caller always finds more than 56 valid bits.                 *)
THEOREM BufferedCorrect == ReaderSpec => []Buffered
<1>1. ReaderInv => Buffered
  BY DEF ReaderInv
<1>2. QED
  BY <1>1, ReaderInitInv, StepCorrect, PTL DEF ReaderSpec

(* The reader implements the zero-extended bit stream.                       *)
THEOREM StreamCorrect == ReaderSpec => StreamSpec
<1>1. ReaderInit => Stream!Init
  BY BitReaderAssumption DEF ReaderInit, Stream!Init
<1>2. QED
  BY <1>1, ReaderInitInv, StepCorrect, PTL DEF ReaderSpec, StreamSpec, Stream!Spec
==============================================================================
